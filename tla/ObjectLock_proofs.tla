------------------------- MODULE ObjectLock_proofs -------------------------
(***************************************************************************)
(* Proofs about ObjectLock, for any number of requests and of retention    *)
(* dates, whatever is in flight at the same time, and any number of        *)
(* failures and crashes.                                                   *)
(***************************************************************************)
EXTENDS ObjectLock, FiniteSetTheorems, TLAPS

LEMMA RequestFacts ==
  ASSUME IInv, NEW q \in Requests
  PROVE  /\ req[q] \in Request /\ AtStep(q, req[q]) /\ Placed(req[q])
         /\ req[q].prior \subseteq Finished /\ TrueLock(req[q].node, req[q].lock)
         /\ req[q].pc \in Changing => HoldEnforced(req[q].node, req[q].lock)
<1>1. req \in [Requests -> Request]
  BY DEF IInv, TypeOK
<1> QED
  BY <1>1, Zenon DEF IInv

LEMMA NodeFacts ==
  ASSUME IInv, NEW n \in lockNodes
  PROVE  /\ n.id \in Requests /\ n.version \in ToSet(versions) /\ n.lock \in Lock
         /\ MadeFor(n.id, n.version) /\ TrueLock(n.version, n.lock)
         /\ HoldEnforced(n.version, n.lock)
         /\ n.version # None /\ n.version \in Requests \cup {First}
<1>1. /\ n.id \in Requests /\ n.version \in ToSet(versions) /\ n.lock \in Lock
      /\ versions \in Seq(Requests \cup {First})
  BY DEF IInv, TypeOK
<1>2. ToSet(versions) \subseteq Requests \cup {First}
  BY <1>1 DEF ToSet
<1>3. MadeFor(n.id, n.version) /\ TrueLock(n.version, n.lock) /\ HoldEnforced(n.version, n.lock)
  BY DEF IInv
<1> QED
  BY <1>1, <1>2, <1>3, IdsDiffer

(* What no step changes of a request that has its version.                 *)
Frame ==
  \A q \in Requests : req[q].node # None =>
    /\ req'[q].node = req[q].node /\ req'[q].op = req[q].op
    /\ req'[q].until = req[q].until /\ req'[q].compliance = req[q].compliance
    /\ req'[q].hold = req[q].hold /\ req'[q].prior = req[q].prior
    /\ req[q].pc \in {"cache", "done"} => req'[q].pc \in {"cache", "done"}

LEMMA WritersStay ==
  ASSUME Frame, NEW v, v # None
  PROVE  /\ Writers(v) \subseteq Writers(v)'
         /\ Raced(v) => Raced(v)'
<1>1. Writers(v) \subseteq Writers(v)'
  BY DEF Frame, Writers, Writes
<1>2. ASSUME Raced(v) PROVE Raced(v)'
  <2>1. PICK p, q \in Writers(v) : p # q /\ Overlap(p, q)
    BY <1>2 DEF Raced
  <2>2. p \in Writers(v)' /\ q \in Writers(v)'
    BY <1>1, <2>1
  <2>3. p \in Requests /\ q \in Requests /\ req[p].node = v /\ req[q].node = v
    BY <2>1 DEF Writers
  <2>4. Overlap(p, q)'
    BY <2>1, <2>3 DEF Overlap, Frame
  <2> QED
    BY <2>1, <2>2, <2>4 DEF Raced
<1> QED
  BY <1>1, <1>2

LEMMA MadeForStays ==
  ASSUME Frame, NEW v, v # None, NEW id \in Requests, MadeFor(id, v)
  PROVE  MadeFor(id, v)'
BY DEF Frame, MadeFor, Writes

LEMMA TrueLockStays ==
  ASSUME Frame, retObjs \subseteq retObjs', NEW v, NEW lock \in Lock, TrueLock(v, lock),
         v # None \/ lock = NoLock
  PROVE  TrueLock(v, lock)'
<1>1. lock.ret \in Requests \cup {None} /\ lock.hold \in Requests \cup {None}
  BY DEF Lock
<1>2. CASE lock = NoLock
  BY <1>2 DEF NoLock, TrueLock
<1>3. CASE v # None
  BY <1>1, <1>3 DEF TrueLock, Frame
<1> QED
  BY <1>2, <1>3

(* A hold whose object is gone is being reset, as long as the request that *)
(* does so is not acknowledged.                                            *)
LEMMA HoldEnforcedStays ==
  ASSUME Frame, NEW v, v # None, NEW lock, HoldEnforced(v, lock),
         lock.hold \in holdObjs => lock.hold \in holdObjs',
         \A q \in Writers(v) : req[q].hold = "off" /\ Acked(q)' => Acked(q)
  PROVE  HoldEnforced(v, lock)'
<1> SUFFICES ASSUME lock.hold # None, lock.hold \notin holdObjs'
             PROVE  \E q \in Writers(v)' : Resetting(q, v)'
  BY DEF HoldEnforced
<1>1. PICK q \in Writers(v) : Resetting(q, v)
  BY DEF HoldEnforced
<1>2. q \in Writers(v)' /\ q \in Requests /\ req[q].node = v /\ (Raced(v) => Raced(v)')
  BY <1>1, WritersStay DEF Writers
<1>3. req'[q].hold = req[q].hold
  BY <1>2 DEF Frame
<1>4. Resetting(q, v)'
  BY <1>1, <1>2, <1>3 DEF Resetting
<1> QED
  BY <1>2, <1>4

LEMMA LockedStays ==
  ASSUME Frame, NEW v, v # None, NEW q \in Writers(v), NEW lock, LockedAsAsked(q, lock)
  PROVE  LockedAsAsked(q, lock)'
<1>1. q \in Requests /\ req[q].node = v
  BY DEF Writers
<1>2. /\ req'[q].node = v /\ req'[q].until = req[q].until
      /\ req'[q].compliance = req[q].compliance /\ req'[q].hold = req[q].hold
  BY <1>1 DEF Frame
<1>3. \A p \in Writers(v) : /\ p \in Writers(v)' /\ req'[p].prior = req[p].prior
                            /\ req'[p].hold = req[p].hold
  BY WritersStay DEF Writers, Frame
<1>4. /\ req[q].until <= lock.until
      /\ req[q].until > 0 /\ req[q].compliance => lock.ret = q
      /\ req[q].hold # "none" =>
           \/ (lock.hold # None) = (req[q].hold = "on")
           \/ \E p \in Writers(v) : q \in req[p].prior /\ req[p].hold \notin {"none", req[q].hold}
  BY <1>1 DEF LockedAsAsked
<1>5. req'[q].hold # "none" =>
           \/ (lock.hold # None) = (req'[q].hold = "on")
           \/ \E p \in Writers(v)' : q \in req'[p].prior /\ req'[p].hold \notin {"none", req'[q].hold}
  BY <1>2, <1>3, <1>4
<1> QED
  BY <1>2, <1>4, <1>5 DEF LockedAsAsked

(* Two requests that are both on their way to change a version race.       *)
LEMMA ActiveRace ==
  ASSUME IInv, NEW v, NEW q \in Writers(v), NEW r \in Writers(v), q # r, Active(r), ~Raced(v)
  PROVE  At(q, "done") /\ q \in req[r].prior
<1>1. q \in Requests /\ r \in Requests
  BY DEF Writers
<1>2. r \notin Finished /\ req[q].prior \subseteq Finished /\ req[r].prior \subseteq Finished
  BY <1>1, RequestFacts DEF Active, Finished, At
<1>3. ~Overlap(q, r)
  BY DEF Raced
<1>4. q \in req[r].prior
  BY <1>2, <1>3 DEF Overlap
<1>5. q \in Finished
  BY <1>2, <1>4
<1> QED
  BY <1>4, <1>5 DEF Finished, At
---------------------------------------------------------------------------
(* The record x is one that request r may go on with.                      *)
May(r, x) ==
  /\ x \in Request /\ AtStep(r, x) /\ x.prior \subseteq Finished
  /\ ~At(r, "done") /\ (At(r, "idle") \/ x.op = req[r].op)
  /\ req[r].node # None =>
       /\ x.node = req[r].node /\ x.op = req[r].op
       /\ x.until = req[r].until /\ x.compliance = req[r].compliance
       /\ x.hold = req[r].hold /\ x.prior = req[r].prior
       /\ At(r, "cache") => x.pc \in {"cache", "done"}

CacheType == [Requests \cup {First, "latest"} -> Lock \cup {None}]

LEMMA Appended ==
  ASSUME NEW S, NEW s \in Seq(S), NEW e \in S
  PROVE  /\ Append(s, e) \in Seq(S) /\ Append(s, e) # <<>>
         /\ ToSet(Append(s, e)) = ToSet(s) \cup {e}
<1>1. /\ Append(s, e) \in Seq(S) /\ Append(s, e) # <<>>
      /\ Len(Append(s, e)) = Len(s) + 1 /\ Len(s) \in Nat
      /\ Append(s, e)[Len(s) + 1] = e
      /\ \A i \in 1 .. Len(s) : Append(s, e)[i] = s[i]
  OBVIOUS
<1>2. DOMAIN Append(s, e) = 1 .. Len(s) + 1 /\ DOMAIN s = 1 .. Len(s)
  BY <1>1
<1>3. 1 .. Len(s) + 1 = (1 .. Len(s)) \cup {Len(s) + 1}
  BY <1>1
<1>4. ToSet(Append(s, e)) = {Append(s, e)[i] : i \in 1 .. Len(s)} \cup {e}
  BY <1>1, <1>2, <1>3 DEF ToSet
<1> QED
  BY <1>1, <1>2, <1>4 DEF ToSet

LEMMA VersionsGrow ==
  ASSUME IInv, NEW r \in Requests, versions' \in {versions, Append(versions, r)}
  PROVE  /\ versions' \in Seq(Requests \cup {First}) /\ versions' # <<>>
         /\ ToSet(versions) \subseteq ToSet(versions)'
<1>1. versions \in Seq(Requests \cup {First}) /\ versions # <<>>
  BY DEF IInv, TypeOK
<1>2. CASE versions' = versions
  BY <1>1, <1>2
<1>3. CASE versions' = Append(versions, r)
  BY <1>1, <1>3, Appended
<1> QED
  BY <1>2, <1>3

(* A step of one request keeps the types, if what it adds is its own.      *)
LEMMA OneTyped ==
  ASSUME IInv, NEW r \in Requests, NEW x, May(r, x), req' = [req EXCEPT ![r] = x],
         versions' \in {versions, Append(versions, r)},
         \A n \in lockNodes' \ lockNodes :
           n.id \in Requests /\ n.version \in ToSet(versions)' /\ n.lock \in Lock,
         \A m, n \in lockNodes' : m.id = n.id => m = n,
         retObjs' \in {retObjs, retObjs \cup {r}},
         r \in retObjs' \ retObjs => x.op \in {"put", "retain"},
         holdObjs' \subseteq holdObjs \cup {r},
         r \in holdObjs' \ holdObjs => x.op \in {"put", "hold"},
         lockCache' \in CacheType, faults' \in Nat
  PROVE  TypeOK'
<1>1. /\ req' \in [Requests -> Request] /\ req'[r] = x
      /\ \A q \in Requests \ {r} : req'[q] = req[q]
  <2>1. req \in [Requests -> Request]
    BY DEF IInv, TypeOK
  <2> QED
    BY <2>1 DEF May
<1>2. /\ retObjs \subseteq {q \in Requests : req[q].op \in {"put", "retain"}}
      /\ holdObjs \subseteq {q \in Requests : req[q].op \in {"put", "hold"}}
  BY DEF IInv, TypeOK
<1>3. At(r, "idle") => req[r].op = "none"
  BY RequestFacts DEF At, AtStep
<1>4. retObjs' \subseteq {q \in Requests : req'[q].op \in {"put", "retain"}}
  BY <1>1, <1>2, <1>3 DEF May
<1>5. holdObjs' \subseteq {q \in Requests : req'[q].op \in {"put", "hold"}}
  BY <1>1, <1>2, <1>3 DEF May
<1>6. \A n \in lockNodes' : /\ n.id \in Requests /\ n.version \in ToSet(versions)'
                            /\ n.lock \in Lock
  BY VersionsGrow, NodeFacts
<1> QED
  BY <1>1, <1>4, <1>5, <1>6, VersionsGrow DEF TypeOK, CacheType

LEMMA OneChanges ==
  ASSUME IInv, NEW r \in Requests, NEW x, May(r, x), req' = [req EXCEPT ![r] = x]
  PROVE  /\ req' \in [Requests -> Request]
         /\ req'[r] = x /\ \A q \in Requests \ {r} : req'[q] = req[q]
         /\ Frame
         /\ \A q \in Requests : AtStep(q, req'[q]) /\ req'[q].prior \subseteq Finished'
<1>1. /\ req \in [Requests -> Request] /\ req'[r] = x
      /\ \A q \in Requests \ {r} : req'[q] = req[q]
  BY DEF IInv, TypeOK
<1>2. req' \in [Requests -> Request]
  BY <1>1 DEF May
<1>3. Finished \subseteq Finished'
  BY <1>1 DEF Finished, At, May
<1>4. Frame
  <2> SUFFICES ASSUME NEW q \in Requests, req[q].node # None
               PROVE  /\ req'[q].node = req[q].node /\ req'[q].op = req[q].op
                      /\ req'[q].until = req[q].until /\ req'[q].compliance = req[q].compliance
                      /\ req'[q].hold = req[q].hold /\ req'[q].prior = req[q].prior
                      /\ req[q].pc \in {"cache", "done"} => req'[q].pc \in {"cache", "done"}
    BY DEF Frame
  <2>1. CASE q = r
    BY <1>1, <2>1 DEF May, At
  <2>2. CASE q # r
    BY <1>1, <2>2
  <2> QED
    BY <2>1, <2>2
<1>5. ASSUME NEW q \in Requests
      PROVE  AtStep(q, req'[q]) /\ req'[q].prior \subseteq Finished'
  <2>1. CASE q = r
    BY <1>1, <1>3, <2>1 DEF May
  <2>2. CASE q # r
    BY <1>1, <1>3, <2>2, RequestFacts
  <2> QED
    BY <2>1, <2>2
<1> QED
  BY <1>1, <1>2, <1>4, <1>5

(* A step of one request that leaves the lock nodes alone and deletes no   *)
(* object on which a node or a request relies.                             *)
LEMMA QuietStep ==
  ASSUME IInv, NEW r \in Requests, NEW x, May(r, x), req' = [req EXCEPT ![r] = x],
         versions' \in {versions, Append(versions, r)}, lockNodes' = lockNodes,
         retObjs' \in {retObjs, retObjs \cup {r}},
         r \in retObjs' \ retObjs => x.op \in {"put", "retain"},
         holdObjs' \subseteq holdObjs \cup {r},
         r \in holdObjs' \ holdObjs => x.op \in {"put", "hold"},
         lockCache' \in CacheType, faults' \in Nat,
         \A n \in lockNodes : HoldEnforced(n.version, n.lock)',
         \A q \in Requests \ {r} :
           req[q].pc \in Changing => HoldEnforced(req[q].node, req[q].lock)',
         Placed(x)', TrueLock(x.node, x.lock)',
         x.pc \in Changing => HoldEnforced(x.node, x.lock)',
         x.node # None /\ r \in Writers(x.node)' /\ ~Raced(x.node)' =>
           Unraced(x, x.node)' /\ (x.res = "ok" => AsAsked(r, x.node)')
  PROVE  IInv'
<1>1. /\ req'[r] = x /\ \A q \in Requests \ {r} : req'[q] = req[q]
      /\ Frame
      /\ \A q \in Requests : AtStep(q, req'[q]) /\ req'[q].prior \subseteq Finished'
  BY OneChanges
<1>0. TypeOK' /\ ToSet(versions) \subseteq ToSet(versions)'
      /\ retObjs \subseteq retObjs'
  <2>1. \A m, n \in lockNodes' : m.id = n.id => m = n
    BY DEF IInv, TypeOK
  <2> QED
    BY <2>1, OneTyped, VersionsGrow
<1>2. ASSUME NEW q \in Requests
      PROVE  /\ Placed(req[q])' /\ TrueLock(req[q].node, req[q].lock)'
             /\ req'[q].pc \in Changing => HoldEnforced(req[q].node, req[q].lock)'
  <2>1. CASE q = r
    BY <1>1, <2>1
  <2>2. CASE q # r
    <3>1. req'[q] = req[q] /\ Placed(req[q]) /\ TrueLock(req[q].node, req[q].lock)
          /\ req[q] \in Request /\ AtStep(q, req[q])
      BY <1>1, <2>2, RequestFacts
    <3>2. req[q].id \in Requests \cup {None} /\ req[q].lock \in Lock
          /\ (req[q].node = None => req[q].id = None /\ req[q].lock = NoLock)
      BY <3>1 DEF Request, AtStep
    <3>3. req[q].id # None => MadeFor(req[q].id, req[q].node)'
      BY <1>1, <3>1, <3>2, MadeForStays DEF Placed
    <3>4. Placed(req[q])'
      BY <1>0, <3>1, <3>3 DEF Placed
    <3>5. TrueLock(req[q].node, req[q].lock)'
      BY <1>0, <1>1, <3>1, <3>2, TrueLockStays
    <3> QED
      BY <2>2, <3>1, <3>4, <3>5
  <2> QED
    BY <2>1, <2>2
<1>3. ASSUME NEW n \in lockNodes
      PROVE  MadeFor(n.id, n.version)' /\ TrueLock(n.version, n.lock)'
  BY <1>0, <1>1, NodeFacts, MadeForStays, TrueLockStays
<1>4. ASSUME NEW v \in Requests \cup {First}, ~Raced(v)'
      PROVE  /\ \A m, n \in NodesOf(v)' : m = n
             /\ \A q \in Writers(v)' : Unraced(req[q], v)' /\ (Acked(q)' => AsAsked(q, v)')
  <2>1. v # None /\ NodesOf(v)' = NodesOf(v)
    BY IdsDiffer DEF NodesOf
  <2>2. ~Raced(v)
    BY <1>1, <1>4, <2>1, WritersStay
  <2>3. /\ \A m, n \in NodesOf(v) : m = n
        /\ \A q \in Writers(v) : Unraced(req[q], v) /\ (Acked(q) => AsAsked(q, v))
    BY <2>2 DEF IInv, Kept
  <2>4. ASSUME NEW q \in Writers(v)'
        PROVE  Unraced(req[q], v)' /\ (Acked(q)' => AsAsked(q, v)')
    <3>1. q \in Requests /\ req'[q].node = v
      BY DEF Writers
    <3>2. CASE q = r
      BY <1>1, <1>4, <2>1, <2>4, <3>1, <3>2 DEF Acked
    <3>3. CASE q # r
      <4>1. req'[q] = req[q] /\ q \in Writers(v)
        BY <1>1, <2>4, <3>1, <3>3 DEF Writers, Writes
      <4>2. Unraced(req[q], v)'
        BY <2>1, <2>3, <4>1 DEF Unraced
      <4>3. ASSUME Acked(q)' PROVE AsAsked(q, v)'
        <5>1. NodesOf(v) # {} /\ \A n \in NodesOf(v) : LockedAsAsked(q, n.lock)
          BY <2>3, <4>1, <4>3 DEF Acked, AsAsked
        <5>2. \A n \in NodesOf(v) : LockedAsAsked(q, n.lock)'
          BY <1>1, <2>1, <4>1, <5>1, LockedStays
        <5> QED
          BY <2>1, <5>1, <5>2 DEF AsAsked
      <4> QED
        BY <4>1, <4>2, <4>3
    <3> QED
      BY <3>2, <3>3
  <2> QED
    BY <2>1, <2>3, <2>4
<1>5. \A v \in Requests \cup {First} : Kept(v)'
  BY <1>4 DEF Kept
<1> QED
  BY <1>0, <1>1, <1>2, <1>3, <1>5 DEF IInv
---------------------------------------------------------------------------
(* Steps that change one request and at most add a version.                *)

(* A request record stays one when a field takes another of its values.    *)
LEMMA FieldTypes ==
  ASSUME NEW y \in Request
  PROVE  /\ \A p \in {"add", "find", "getlock", "retention", "hold", "putlock",
                      "cache", "done"} : [y EXCEPT !.pc = p] \in Request
         /\ \A n \in Requests \cup {First, None} : [y EXCEPT !.node = n] \in Request
         /\ \A i \in Requests \cup {None} : [y EXCEPT !.id = i] \in Request
         /\ \A lock \in Lock : [y EXCEPT !.lock = lock] \in Request
         /\ \A e \in {"ok", "error", "refused", "crashed"} :
              [y EXCEPT !.res = e] \in Request
         /\ \A S \in SUBSET Requests : [y EXCEPT !.prior = S] \in Request
<1>1. ASSUME NEW p \in {"add", "find", "getlock", "retention", "hold", "putlock",
                       "cache", "done"}
      PROVE  [y EXCEPT !.pc = p] \in Request
  BY DEF Request
<1>2. ASSUME NEW n \in Requests \cup {First, None}
      PROVE  [y EXCEPT !.node = n] \in Request
  BY DEF Request
<1>3. ASSUME NEW i \in Requests \cup {None} PROVE [y EXCEPT !.id = i] \in Request
  BY DEF Request
<1>4. ASSUME NEW lock \in Lock PROVE [y EXCEPT !.lock = lock] \in Request
  BY DEF Request
<1>5. ASSUME NEW e \in {"ok", "error", "refused", "crashed"}
      PROVE  [y EXCEPT !.res = e] \in Request
  BY DEF Request
<1>6. ASSUME NEW S \in SUBSET Requests PROVE [y EXCEPT !.prior = S] \in Request
  BY DEF Request
<1> QED
  BY <1>1, <1>2, <1>3, <1>4, <1>5, <1>6

SameAsk(x, y) == /\ x.op = y.op /\ x.vid = y.vid /\ x.until = y.until
                 /\ x.compliance = y.compliance /\ x.bypass = y.bypass
                 /\ x.hold = y.hold /\ x.prior = y.prior

(* A step of one request that deletes no lock object and acknowledges no   *)
(* reset keeps every hold as enforced as it was.                           *)
LEMMA HoldsKept ==
  ASSUME IInv, NEW r \in Requests, NEW x, May(r, x), req' = [req EXCEPT ![r] = x],
         holdObjs \subseteq holdObjs', x.res = "ok" => x.hold # "off"
  PROVE  /\ \A n \in lockNodes : HoldEnforced(n.version, n.lock)'
         /\ \A q \in Requests \ {r} :
              req[q].pc \in Changing => HoldEnforced(req[q].node, req[q].lock)'
         /\ \A v, lock : v # None /\ HoldEnforced(v, lock) => HoldEnforced(v, lock)'
<1>1. /\ Frame /\ req'[r] = x /\ \A q \in Requests \ {r} : req'[q] = req[q]
  BY OneChanges
<1>2. \A q \in Requests : req[q].node # None /\ req[q].hold = "off" /\ Acked(q)'
        => Acked(q)
  BY <1>1 DEF Acked, Frame
<1>3. ASSUME NEW v, v # None, NEW lock, HoldEnforced(v, lock)
      PROVE  HoldEnforced(v, lock)'
  BY <1>1, <1>2, <1>3, HoldEnforcedStays DEF Writers
<1>4. \A n \in lockNodes : HoldEnforced(n.version, n.lock)'
  BY <1>3, NodeFacts
<1>5. ASSUME NEW q \in Requests \ {r}, req[q].pc \in Changing
      PROVE  HoldEnforced(req[q].node, req[q].lock)'
  <2>1. req[q].node # None /\ HoldEnforced(req[q].node, req[q].lock)
    BY <1>5, RequestFacts DEF AtStep, Changing
  <2> QED
    BY <1>1, <1>3, <2>1
<1> QED
  BY <1>3, <1>4, <1>5

(* A step of one request that at most adds a version: what is true of its  *)
(* record before is true after.                                            *)
LEMMA LocalStep ==
  ASSUME IInv, NEW r \in Requests, NEW x, May(r, x), req' = [req EXCEPT ![r] = x],
         versions' \in {versions, Append(versions, r)},
         UNCHANGED <<lockNodes, retObjs, holdObjs>>,
         lockCache' \in CacheType, faults' \in Nat,
         x.res = "ok" => x.node = None \/ x.op = "get",
         x.res = "ok" => x.hold # "off",
         x.node # None => x.node \in ToSet(versions)',
         x.pc = "find" => x.vid \in ToSet(versions) \cup {"latest"},
         x.id # None => MadeFor(x.id, x.node),
         TrueLock(x.node, x.lock),
         x.pc \in Changing => HoldEnforced(x.node, x.lock),
         x.node # None /\ x.op # "get" /\ ~Raced(x.node) => Unraced(x, x.node)
  PROVE  IInv'
<1>1. Frame /\ x \in Request /\ AtStep(r, x) /\ req'[r] = x
  BY OneChanges DEF May
<1>2. /\ \A n \in lockNodes : HoldEnforced(n.version, n.lock)'
      /\ \A q \in Requests \ {r} :
           req[q].pc \in Changing => HoldEnforced(req[q].node, req[q].lock)'
      /\ \A v, lock : v # None /\ HoldEnforced(v, lock) => HoldEnforced(v, lock)'
  BY HoldsKept
<1>3. /\ x.id \in Requests \cup {None} /\ x.lock \in Lock
      /\ x.node = None => x.id = None /\ x.lock = NoLock
      /\ x.pc \in Changing => x.node # None
  BY <1>1 DEF Request, AtStep, Changing
<1>4. Placed(x)'
  <2>1. x.pc = "find" => x.vid \in ToSet(versions)' \cup {"latest"}
    BY VersionsGrow
  <2>2. x.id # None => MadeFor(x.id, x.node)'
    BY <1>1, <1>3, MadeForStays
  <2> QED
    BY <2>1, <2>2 DEF Placed
<1>5. TrueLock(x.node, x.lock)'
  BY <1>1, <1>3, TrueLockStays
<1>6. x.pc \in Changing => HoldEnforced(x.node, x.lock)'
  BY <1>2, <1>3
<1>7. ASSUME x.node # None, r \in Writers(x.node)', ~Raced(x.node)'
      PROVE  Unraced(x, x.node)' /\ (x.res = "ok" => AsAsked(r, x.node)')
  <2>1. x.op # "get"
    BY <1>1, <1>7 DEF Writers, Writes
  <2>2. ~Raced(x.node)
    BY <1>1, <1>7, WritersStay
  <2>3. NodesOf(x.node)' = NodesOf(x.node)
    BY DEF NodesOf
  <2>4. Unraced(x, x.node)'
    BY <1>7, <2>1, <2>2, <2>3 DEF Unraced
  <2> QED
    BY <1>7, <2>1, <2>4
<1> QED
  BY <1>2, <1>4, <1>5, <1>6, <1>7, QuietStep

(* Beginning a request.                                                    *)
LEMMA BeginKeeps ==
  ASSUME IInv, NEW r \in Requests, NEW asked \in Request, NEW p \in {"add", "find", "done"},
         Begin(r, asked, p),
         asked.op # "none", asked.node = None, asked.id = None, asked.lock = NoLock,
         p = "add" => asked.op = "put",
         asked.op \in {"get", "hold"} => asked.until = 0,
         asked.op \in {"get", "retain"} => asked.hold = "none",
         p = "find" => asked.vid \in ToSet(versions) \cup {"latest"},
         asked.res = "ok" => asked.op = "get" /\ p = "done"
  PROVE  IInv'
<1> DEFINE x == [asked EXCEPT !.pc = p, !.prior = Finished]
<1>1. /\ At(r, "idle") /\ req' = [req EXCEPT ![r] = x]
      /\ UNCHANGED <<stores, lockCache, faults>>
  BY DEF Begin, Step
<1>2. x \in Request
  <2>1. [asked EXCEPT !.pc = p] \in Request /\ Finished \in SUBSET Requests
    BY FieldTypes DEF Finished
  <2>2. [[asked EXCEPT !.pc = p] EXCEPT !.prior = Finished] \in Request
    BY <2>1, FieldTypes
  <2> QED
    BY <2>2
<1>3. /\ x.op = asked.op /\ x.vid = asked.vid /\ x.until = asked.until
      /\ x.compliance = asked.compliance /\ x.bypass = asked.bypass
      /\ x.hold = asked.hold /\ x.node = None /\ x.id = None
      /\ x.lock = NoLock /\ x.res = asked.res
      /\ x.pc = p /\ x.prior = Finished
  BY DEF Request
<1> HIDE DEF x
<1>4. req[r].node = None
  BY <1>1, RequestFacts DEF At, AtStep
<1>5. May(r, x)
  <2>1. AtStep(r, x)
    BY <1>3 DEF AtStep
  <2> QED
    BY <1>1, <1>2, <1>3, <1>4, <2>1 DEF May, At
<1>6. TrueLock(x.node, x.lock)
  BY <1>3 DEF TrueLock, NoLock
<1>7. x.pc \notin Changing
  BY <1>3 DEF Changing
<1>8. lockCache' \in CacheType /\ faults' \in Nat
  BY <1>1 DEF IInv, TypeOK, CacheType
<1> QED
  BY <1>1, <1>3, <1>5, <1>6, <1>7, <1>8, LocalStep DEF stores

LEMMA BeginStepKeeps ==
  ASSUME IInv, NEW r \in Requests, BeginStep(r)
  PROVE  IInv'
<1>1. ToSet(versions) \subseteq Requests \cup {First} /\ NoLock \in Lock
      /\ Named \subseteq ToSet(versions) \cup {"latest"} /\ Dates \subseteq Nat \ {0}
  <2>1. versions \in Seq(Requests \cup {First})
    BY DEF IInv, TypeOK
  <2> QED
    BY <2>1, DatesArePositive DEF ToSet, Named, NoLock, Lock
<1>2. CASE BeginPut(r)
  <2>1. PICK d \in Dates \cup {0}, c \in BOOLEAN, h \in {"none", "on"} :
          Begin(r, [Idle EXCEPT !.op = "put", !.vid = r, !.until = d,
                                !.compliance = c, !.hold = h], "add")
    BY <1>2 DEF BeginPut
  <2> DEFINE asked == [Idle EXCEPT !.op = "put", !.vid = r, !.until = d,
                                   !.compliance = c, !.hold = h]
  <2>2. asked \in Request
    BY <1>1 DEF Request, Idle
  <2>3. /\ asked.op = "put" /\ asked.node = None /\ asked.id = None
        /\ asked.lock = NoLock /\ asked.res = "none"
    BY DEF Idle
  <2> HIDE DEF asked
  <2> QED
    BY <2>1, <2>2, <2>3, BeginKeeps DEF asked
<1>3. CASE BeginRetain(r)
  <2>1. PICK v \in Named, d \in Dates, c \in BOOLEAN, b \in BOOLEAN :
          Begin(r, [Idle EXCEPT !.op = "retain", !.vid = v, !.until = d,
                                !.compliance = c, !.bypass = b], "find")
    BY <1>3 DEF BeginRetain
  <2> DEFINE asked == [Idle EXCEPT !.op = "retain", !.vid = v, !.until = d,
                                   !.compliance = c, !.bypass = b]
  <2>2. asked \in Request
    BY <1>1 DEF Request, Idle
  <2>3. /\ asked.op = "retain" /\ asked.node = None /\ asked.id = None
        /\ asked.lock = NoLock /\ asked.res = "none" /\ asked.hold = "none"
        /\ asked.vid = v
    BY DEF Idle
  <2> QED
    BY <1>1, <2>1, <2>2, <2>3, BeginKeeps
<1>4. CASE BeginHold(r)
  <2>1. PICK v \in Named, h \in {"on", "off"} :
          Begin(r, [Idle EXCEPT !.op = "hold", !.vid = v, !.hold = h], "find")
    BY <1>4 DEF BeginHold
  <2> DEFINE asked == [Idle EXCEPT !.op = "hold", !.vid = v, !.hold = h]
  <2>2. asked \in Request
    BY <1>1 DEF Request, Idle
  <2>3. /\ asked.op = "hold" /\ asked.node = None /\ asked.id = None
        /\ asked.lock = NoLock /\ asked.res = "none" /\ asked.until = 0
        /\ asked.vid = v
    BY DEF Idle
  <2> QED
    BY <1>1, <2>1, <2>2, <2>3, BeginKeeps
<1>5. CASE BeginGet(r)
  <2>1. PICK v \in Named :
          \/ Begin(r, [[Idle EXCEPT !.op = "get", !.vid = v] EXCEPT !.res = "ok"], "done")
          \/ Begin(r, [Idle EXCEPT !.op = "get", !.vid = v], "find")
    BY <1>5 DEF BeginGet
  <2> DEFINE asked == [Idle EXCEPT !.op = "get", !.vid = v]
             hit == [asked EXCEPT !.res = "ok"]
  <2>2. asked \in Request
    BY <1>1 DEF Request, Idle
  <2>3. /\ asked.op = "get" /\ asked.node = None /\ asked.id = None
        /\ asked.lock = NoLock /\ asked.until = 0 /\ asked.hold = "none"
        /\ asked.vid = v /\ asked.res = "none"
    BY DEF Idle
  <2>4. CASE Begin(r, asked, "find")
    BY <1>1, <2>2, <2>3, <2>4, BeginKeeps
  <2>5. CASE Begin(r, hit, "done")
    <3> HIDE DEF asked
    <3>1. hit \in Request
      BY <2>2, FieldTypes
    <3>2. /\ hit.op = "get" /\ hit.node = None /\ hit.id = None
          /\ hit.lock = NoLock /\ hit.until = 0 /\ hit.hold = "none"
      BY <2>2, <2>3 DEF Request
    <3> HIDE DEF hit
    <3> QED
      BY <2>5, <3>1, <3>2, BeginKeeps
  <2> QED
    BY <2>1, <2>4, <2>5
<1> QED
  BY <1>2, <1>3, <1>4, <1>5 DEF BeginStep

---------------------------------------------------------------------------
(* The calls of a request.                                                 *)

(* Every handler may stop with an error; only one that changed no lock may *)
(* stop with any other result.                                             *)
LEMMA DoneIsOk ==
  ASSUME IInv, NEW r \in Requests, Active(r),
         NEW e \in {"ok", "error", "refused", "crashed"}
  PROVE  /\ May(r, Done(r, e)) /\ SameAsk(Done(r, e), req[r])
         /\ Done(r, e).pc = "done" /\ Done(r, e).res = e
         /\ Done(r, e).node = req[r].node /\ Done(r, e).id = req[r].id
         /\ Done(r, e).lock = req[r].lock
<1>1. req[r] \in Request /\ AtStep(r, req[r]) /\ req[r].prior \subseteq Finished
  BY RequestFacts
<1>2. [[req[r] EXCEPT !.pc = "done"] EXCEPT !.res = e] \in Request
  <2>1. [req[r] EXCEPT !.pc = "done"] \in Request
    BY <1>1, FieldTypes
  <2> QED
    BY <2>1, FieldTypes
<1>3. Done(r, e) \in Request
  BY <1>2 DEF Done
<1>4. /\ SameAsk(Done(r, e), req[r])
      /\ Done(r, e).pc = "done" /\ Done(r, e).res = e
      /\ Done(r, e).node = req[r].node /\ Done(r, e).id = req[r].id
      /\ Done(r, e).lock = req[r].lock
  BY <1>1 DEF Done, SameAsk, Request
<1>5. AtStep(r, Done(r, e))
  BY <1>1, <1>4 DEF AtStep, SameAsk, Active
<1> QED
  BY <1>1, <1>3, <1>4, <1>5 DEF May, SameAsk, Active, At

(* What the calls below leave alone.                                       *)
LEMMA Kinds ==
  ASSUME IInv
  PROVE  /\ lockCache \in CacheType /\ faults \in Nat /\ faults + 1 \in Nat
         /\ ToSet(versions) \subseteq Requests \cup {First}
         /\ Latest \in ToSet(versions)
         /\ \A v : NodesOf(v) \subseteq lockNodes
<1>1. versions \in Seq(Requests \cup {First}) /\ versions # <<>>
      /\ lockCache \in CacheType /\ faults \in Nat
  BY DEF IInv, TypeOK, CacheType
<1>2. ToSet(versions) \subseteq Requests \cup {First}
  BY <1>1 DEF ToSet
<1>3. Len(versions) \in DOMAIN versions
  BY <1>1
<1>4. Latest \in ToSet(versions)
  BY <1>3 DEF ToSet, Latest, Last
<1> QED
  BY <1>1, <1>2, <1>4 DEF NodesOf

LEMMA CallFailsKeeps ==
  ASSUME IInv, NEW r \in Requests, CallFails(r)
  PROVE  IInv'
<1>1. /\ Active(r) /\ req' = [req EXCEPT ![r] = Done(r, "error")]
      /\ faults' = faults + 1 /\ UNCHANGED <<stores, lockCache>>
  BY DEF CallFails, Fault, Active
<1>2. Placed(req[r]) /\ TrueLock(req[r].node, req[r].lock)
  BY RequestFacts
<1> DEFINE x == Done(r, "error")
<1>3. /\ May(r, x) /\ x.pc = "done" /\ x.res = "error"
      /\ x.node = req[r].node /\ x.id = req[r].id /\ x.lock = req[r].lock
  BY <1>1, DoneIsOk
<1> HIDE DEF x
<1>4. Unraced(x, x.node)
  BY <1>3 DEF Unraced, Changing
<1> QED
  BY <1>1, <1>2, <1>3, <1>4, Kinds, LocalStep DEF stores, Placed, Changing, x

LEMMA AddVersionKeeps ==
  ASSUME IInv, NEW r \in Requests, AddVersion(r)
  PROVE  IInv'
<1>1. /\ Active(r) /\ versions' = Append(versions, r)
      /\ UNCHANGED <<lockNodes, retObjs, holdObjs, lockCache>>
      /\ req[r] \in Request /\ AtStep(r, req[r]) /\ req[r].prior \subseteq Finished
      /\ req[r].pc = "add" /\ req[r].op = "put" /\ req[r].node = None
      /\ req[r].id = None /\ req[r].lock = NoLock /\ TrueLock(None, NoLock)
  BY RequestFacts DEF AddVersion, Active, At, AtStep
<1>2. r \in ToSet(versions)'
  BY <1>1, Appended DEF IInv, TypeOK
<1> DEFINE next == [[req[r] EXCEPT !.pc = "getlock"] EXCEPT !.node = r]
<1>3. /\ next \in Request /\ SameAsk(next, req[r]) /\ next.pc = "getlock"
      /\ next.node = r /\ next.id = None /\ next.lock = NoLock
      /\ next.res = req[r].res
  <2>1. [req[r] EXCEPT !.pc = "getlock"] \in Request
    BY <1>1, FieldTypes
  <2>2. next \in Request
    BY <2>1, FieldTypes
  <2> QED
    BY <1>1, <2>2 DEF Request, SameAsk
<1>4. PICK x : /\ req' = [req EXCEPT ![r] = x] /\ faults' \in Nat
               /\ \/ x = Done(r, "error")
                  \/ x = Done(r, "ok") /\ req[r].hold = "none"
                  \/ x = next
  <2>1. next = [req[r] EXCEPT !.pc = "getlock", !.node = r]
    OBVIOUS
  <2> QED
    BY <2>1, Kinds DEF AddVersion, Replied, Step, Fault
<1> HIDE DEF next
<1>5. /\ May(r, x) /\ x.id = None /\ x.lock = NoLock
      /\ x.node \in {None, r} /\ x.pc \in {"getlock", "done"}
      /\ x.res = "ok" => x.node = None /\ x.hold = "none"
  <2>1. CASE x = Done(r, "error")
    BY <1>1, <2>1, DoneIsOk
  <2>2. CASE x = Done(r, "ok") /\ req[r].hold = "none"
    BY <1>1, <2>2, DoneIsOk DEF SameAsk
  <2>3. CASE x = next
    <3>1. AtStep(r, next)
      BY <1>1, <1>3, IdsDiffer DEF AtStep, SameAsk
    <3>2. req[r].res # "ok"
      BY <1>1 DEF AtStep
    <3> QED
      BY <1>1, <1>3, <2>3, <3>1, <3>2 DEF May, SameAsk, At
  <2> QED
    BY <1>4, <2>1, <2>2, <2>3
<1>6. Unraced(x, x.node) /\ TrueLock(x.node, x.lock)
  BY <1>5 DEF Unraced, Changing, TrueLock, NoLock
<1> QED
  BY <1>1, <1>2, <1>4, <1>5, <1>6, Kinds, LocalStep DEF Changing

LEMMA FindVersionKeeps ==
  ASSUME IInv, NEW r \in Requests, FindVersion(r)
  PROVE  IInv'
<1> DEFINE v == IF req[r].vid = "latest" THEN Latest ELSE req[r].vid
           x == [[req[r] EXCEPT !.pc = "getlock"] EXCEPT !.node = v]
<1>1. /\ req' = [req EXCEPT ![r] = x] /\ UNCHANGED <<stores, lockCache, faults>>
      /\ req[r].pc = "find" /\ req[r].node = None /\ req[r].id = None
      /\ req[r].lock = NoLock /\ req[r].op # "none" /\ req[r].res # "ok"
      /\ req[r] \in Request /\ AtStep(r, req[r]) /\ req[r].prior \subseteq Finished
  <2>1. x = [req[r] EXCEPT !.pc = "getlock", !.node = v]
    OBVIOUS
  <2> QED
    BY <2>1, RequestFacts DEF FindVersion, Step, At, AtStep
<1>2. v \in ToSet(versions) /\ v \in Requests \cup {First} /\ v # None
  <2>1. req[r].vid \in ToSet(versions) \cup {"latest"}
    BY <1>1, RequestFacts DEF Placed
  <2> QED
    BY <2>1, Kinds, IdsDiffer
<1> HIDE DEF v
<1>3. /\ x \in Request /\ SameAsk(x, req[r]) /\ x.pc = "getlock"
      /\ x.node = v /\ x.id = None /\ x.lock = NoLock /\ x.res # "ok"
  <2>1. [req[r] EXCEPT !.pc = "getlock"] \in Request
    BY <1>1, FieldTypes
  <2>2. x \in Request
    BY <1>2, <2>1, FieldTypes
  <2> QED
    BY <1>1, <2>2 DEF Request, SameAsk
<1> HIDE DEF x
<1>4. AtStep(r, x)
  BY <1>1, <1>2, <1>3 DEF AtStep, SameAsk
<1>5. May(r, x)
  BY <1>1, <1>3, <1>4 DEF May, SameAsk, At
<1>6. Unraced(x, x.node) /\ TrueLock(x.node, x.lock)
  BY <1>3 DEF Unraced, Changing, TrueLock, NoLock
<1> QED
  BY <1>1, <1>2, <1>3, <1>5, <1>6, Kinds, LocalStep DEF stores, Changing

(* The record that has read a lock, before the conditions are checked.     *)
LEMMA AfterGetLockIsOk ==
  ASSUME IInv, NEW r \in Requests, At(r, "getlock"), NEW y \in Request, y.pc = "getlock",
         SameAsk(y, req[r]), y.node = req[r].node, y.res = req[r].res
  PROVE  LET x == AfterGetLock(y)
         IN /\ May(r, x) /\ SameAsk(x, y) /\ x.node = y.node /\ x.id = y.id
            /\ x.lock = y.lock /\ x.res # "ok"
            /\ x.pc \in Changing \cup {"cache", "done"}
            /\ x.pc = "cache" => x.op = "get"
            /\ x.pc \in {"hold", "putlock"} => x.until = 0
<1> DEFINE x == AfterGetLock(y)
<1>1. /\ req[r] \in Request /\ AtStep(r, req[r]) /\ req[r].prior \subseteq Finished
      /\ req[r].pc = "getlock" /\ req[r].node # None /\ req[r].res # "ok"
      /\ req[r].op # "none"
  BY RequestFacts DEF At, AtStep
<1>2. PICK p \in Changing \cup {"cache", "done"} :
        /\ \/ x = [y EXCEPT !.pc = p]
           \/ p = "done" /\ x = [y EXCEPT !.pc = p, !.res = "refused"]
        /\ p = "cache" => y.op = "get"
        /\ p \in Changing => y.op # "get"
        /\ p \in {"hold", "putlock"} => y.until = 0
        /\ p = "hold" => ChangesHold(y, y.lock)
        /\ p = "putlock" => ~ChangesHold(y, y.lock)
        /\ p = "retention" => y.until # 0 /\ MayRetain(y, y.lock)
  <2>1. CASE y.op = "get"
    BY <2>1 DEF AfterGetLock, Changing
  <2>2. CASE y.op # "get" /\ y.until = 0 /\ ChangesHold(y, y.lock)
    BY <2>2 DEF AfterGetLock, AfterRetention, Changing
  <2>3. CASE y.op # "get" /\ y.until = 0 /\ ~ChangesHold(y, y.lock)
    BY <2>3 DEF AfterGetLock, AfterRetention, Changing
  <2>4. CASE y.op # "get" /\ y.until # 0 /\ MayRetain(y, y.lock)
    BY <2>4 DEF AfterGetLock, Changing
  <2>5. CASE y.op # "get" /\ y.until # 0 /\ ~MayRetain(y, y.lock)
    BY <2>5 DEF AfterGetLock, Changing
  <2> QED
    BY <2>1, <2>2, <2>3, <2>4, <2>5
<1>3. x \in Request
  <2>1. [y EXCEPT !.pc = p] \in Request
    BY FieldTypes DEF Changing
  <2>2. [[y EXCEPT !.pc = p] EXCEPT !.res = "refused"] \in Request
    BY <2>1, FieldTypes
  <2> QED
    BY <1>2, <2>1, <2>2
<1> HIDE DEF x
<1>4. /\ SameAsk(x, y) /\ x.node = y.node /\ x.id = y.id /\ x.lock = y.lock
      /\ x.pc = p /\ x.res # "ok"
  <2>1. DOMAIN y = DOMAIN [y EXCEPT !.pc = p]
        /\ "pc" \in DOMAIN y /\ "res" \in DOMAIN y
    BY DEF Request
  <2>2. CASE x = [y EXCEPT !.pc = p]
    BY <1>1, <2>1, <2>2 DEF SameAsk
  <2>3. CASE x = [y EXCEPT !.pc = p, !.res = "refused"]
    BY <1>1, <2>1, <2>3 DEF SameAsk
  <2> QED
    BY <1>2, <2>2, <2>3
<1>5. /\ x.pc = "retention" => x.until > 0 /\ MayRetain(x, x.lock)
      /\ x.pc = "hold" => ChangesHold(x, x.lock)
      /\ x.pc = "putlock" => ~ChangesHold(x, x.lock)
  BY <1>2, <1>3, <1>4, DatesArePositive DEF SameAsk, MayRetain, ChangesHold, Request
<1>6. AtStep(r, x)
  BY <1>1, <1>2, <1>4, <1>5 DEF AtStep, SameAsk, Changing, ChangesHold
<1>7. May(r, x)
  BY <1>1, <1>3, <1>4, <1>6 DEF May, SameAsk, At
<1> QED
  BY <1>2, <1>4, <1>7 DEF x, SameAsk

LEMMA GetLockKeeps ==
  ASSUME IInv, NEW r \in Requests, GetLock(r)
  PROVE  IInv'
<1> DEFINE v == req[r].node
<1>1. /\ At(r, "getlock") /\ UNCHANGED <<stores, lockCache, faults>>
      /\ req[r] \in Request /\ req[r].id = None /\ req[r].lock = NoLock
      /\ v \in ToSet(versions) /\ v # None /\ v \in Requests \cup {First}
  <2>1. At(r, "getlock") /\ UNCHANGED <<stores, lockCache, faults>>
    BY DEF GetLock, Step
  <2>2. v \in ToSet(versions) /\ v # None /\ req[r].id = None /\ req[r].lock = NoLock
    BY <2>1, RequestFacts DEF At, AtStep, Placed
  <2> QED
    BY <2>1, <2>2, Kinds, RequestFacts
<1>2. PICK y \in Request :
        /\ req' = [req EXCEPT ![r] = AfterGetLock(y)]
        /\ SameAsk(y, req[r]) /\ y.pc = "getlock" /\ y.node = v /\ y.res = req[r].res
        /\ \/ NodesOf(v) = {} /\ y.id = None /\ y.lock = NoLock
           \/ \E n \in NodesOf(v) : y.id = n.id /\ y.lock = n.lock
  <2>1. CASE NodesOf(v) = {}
    BY <1>1, <2>1 DEF GetLock, Step, SameAsk, At
  <2>2. CASE NodesOf(v) # {}
    <3>1. PICK n \in NodesOf(v) :
            req' = [req EXCEPT ![r] = AfterGetLock([req[r] EXCEPT !.id = n.id,
                                                                  !.lock = n.lock])]
      BY <2>2 DEF GetLock, Step
    <3>2. n.id \in Requests /\ n.lock \in Lock
      BY NodeFacts DEF NodesOf
    <3>3. [req[r] EXCEPT !.id = n.id] \in Request
      BY <1>1, <3>2, FieldTypes
    <3>4. [[req[r] EXCEPT !.id = n.id] EXCEPT !.lock = n.lock] \in Request
      BY <3>2, <3>3, FieldTypes
    <3> DEFINE y == [req[r] EXCEPT !.id = n.id, !.lock = n.lock]
    <3>5. y \in Request
      BY <3>4
    <3>6. /\ SameAsk(y, req[r]) /\ y.pc = "getlock" /\ y.node = v
          /\ y.res = req[r].res /\ y.id = n.id /\ y.lock = n.lock
      BY <1>1 DEF Request, SameAsk, At
    <3> HIDE DEF y
    <3> QED
      BY <3>1, <3>5, <3>6 DEF y
  <2> QED
    BY <2>1, <2>2
<1> DEFINE x == AfterGetLock(y)
<1>3. /\ May(r, x) /\ SameAsk(x, y) /\ x.node = v /\ x.id = y.id
      /\ x.lock = y.lock /\ x.res # "ok"
      /\ x.pc \in Changing \cup {"cache", "done"}
      /\ x.pc = "cache" => x.op = "get"
      /\ x.pc \in {"hold", "putlock"} => x.until = 0
  BY <1>1, <1>2, AfterGetLockIsOk
<1> HIDE DEF x, v
<1>4. /\ y.id # None => MadeFor(y.id, v)
      /\ TrueLock(v, y.lock) /\ HoldEnforced(v, y.lock)
  <2>1. CASE y.id = None /\ y.lock = NoLock
    BY <2>1 DEF TrueLock, HoldEnforced, NoLock
  <2>2. CASE \E n \in NodesOf(v) : y.id = n.id /\ y.lock = n.lock
    <3>1. PICK n \in lockNodes : n.version = v /\ y.id = n.id /\ y.lock = n.lock
      BY <2>2 DEF NodesOf
    <3> QED
      BY <3>1, NodeFacts
  <2> QED
    BY <1>2, <2>1, <2>2
<1>5. x.op # "get" => Unraced(x, v)
  <2>1. x.pc \in Changing => Follows(x, x.lock)
    BY <1>3 DEF Follows, Changing
  <2>2. y.id = None => NodesOf(v) = {} /\ y.lock = NoLock
    <3>1. \A n \in NodesOf(v) : n.id # None
      BY NodeFacts, IdsDiffer DEF NodesOf
    <3> QED
      BY <1>2, <3>1
  <2> QED
    BY <1>2, <1>3, <2>1, <2>2 DEF Unraced, Changing
<1> QED
  BY <1>1, <1>2, <1>3, <1>4, <1>5, Kinds, LocalStep DEF stores, v, x, Changing

(* A request that knows its version and its lock node keeps them.          *)
LEMMA PlacedStays ==
  ASSUME IInv, NEW r \in Requests, NEW x, May(r, x), req' = [req EXCEPT ![r] = x],
         versions' = versions, x.pc # "find",
         x.node = req[r].node, x.node # None, x.id = req[r].id
  PROVE  Placed(x)'
<1>1. Frame /\ Placed(req[r]) /\ x.id \in Requests \cup {None}
  BY OneChanges, RequestFacts DEF May, Request
<1>2. x.id # None => MadeFor(x.id, x.node)'
  BY <1>1, MadeForStays DEF Placed
<1> QED
  BY <1>1, <1>2 DEF Placed

(* Without a race a request that is about to change a lock knows what it   *)
(* read, and no other request does.                                        *)
LEMMA UnracedChange ==
  ASSUME IInv, NEW r \in Requests, req[r].pc \in Changing \cup {"cache"},
         req[r].op # "get", ~Raced(req[r].node)
  PROVE  /\ r \in Writers(req[r].node) /\ Unraced(req[r], req[r].node)
         /\ \A m, n \in NodesOf(req[r].node) : m = n
<1>1. /\ req[r] \in Request /\ req[r].op # "none" /\ req[r].node # None
  BY RequestFacts DEF AtStep, Changing
<1>2. r \in Writers(req[r].node)
  BY <1>1 DEF Writers, Writes, Request
<1>3. Kept(req[r].node)
  BY <1>1 DEF IInv, Request
<1> QED
  BY <1>2, <1>3 DEF Kept

LEMMA PutRetentionObjectKeeps ==
  ASSUME IInv, NEW r \in Requests, PutRetentionObject(r)
  PROVE  IInv'
<1>0. PICK v, old, lock : /\ v = req[r].node /\ old = req[r].lock
                          /\ lock = Retained(req[r], r)
  OBVIOUS
<1> DEFINE y == [req[r] EXCEPT !.lock = lock]
           next == AfterRetention(y)
<1>1. /\ At(r, "retention") /\ retObjs' = retObjs \cup {r}
      /\ UNCHANGED <<versions, lockNodes, holdObjs, lockCache>>
      /\ req[r] \in Request /\ AtStep(r, req[r]) /\ req[r].prior \subseteq Finished
      /\ req[r].pc = "retention" /\ v # None /\ old \in Lock
      /\ req[r].until > 0 /\ req[r].until \in Nat
      /\ MayRetain(req[r], old) /\ Active(r) /\ req[r].res # "ok"
      /\ req[r].op \in {"put", "retain"}
      /\ TrueLock(v, old) /\ HoldEnforced(v, old)
  <2>1. At(r, "retention") /\ retObjs' = retObjs \cup {r}
        /\ UNCHANGED <<versions, lockNodes, holdObjs, lockCache>>
    BY DEF PutRetentionObject
  <2>2. /\ req[r] \in Request /\ AtStep(r, req[r]) /\ req[r].prior \subseteq Finished
        /\ req[r].pc = "retention" /\ TrueLock(v, old) /\ HoldEnforced(v, old)
    BY <1>0, <2>1, RequestFacts DEF At, Changing
  <2>3. old \in Lock /\ req[r].until \in Nat
    <3>1. old \in Lock /\ req[r].until \in Dates \cup {0}
      BY <1>0, <2>2 DEF Request
    <3>2. Dates \cup {0} \subseteq Nat
      BY DatesArePositive
    <3> QED
      BY <3>1, <3>2
  <2>4. /\ v # None /\ req[r].until > 0 /\ MayRetain(req[r], old) /\ Active(r)
        /\ req[r].res # "ok"
    BY <1>0, <2>2 DEF AtStep, Active
  <2>5. req[r].op \in {"put", "retain"}
    BY <2>2, <2>4 DEF AtStep, Request
  <2> QED
    BY <2>1, <2>2, <2>3, <2>4, <2>5
<1>2. /\ lock \in Lock /\ lock.ret = r /\ lock.until = req[r].until
      /\ lock.compliance = req[r].compliance /\ lock.hold = old.hold
  <2>1. \A m \in Lock : /\ \A q \in Requests : [m EXCEPT !.ret = q] \in Lock
                        /\ \A d \in Dates \cup {0} : [m EXCEPT !.until = d] \in Lock
                        /\ \A c \in BOOLEAN : [m EXCEPT !.compliance = c] \in Lock
    BY DEF Lock
  <2>2. req[r].until \in Dates \cup {0} /\ req[r].compliance \in BOOLEAN
    BY <1>1 DEF Request
  <2>3. [old EXCEPT !.ret = r] \in Lock
    BY <1>1, <2>1
  <2>4. [[old EXCEPT !.ret = r] EXCEPT !.until = req[r].until] \in Lock
    BY <2>1, <2>2, <2>3
  <2>5. [[[old EXCEPT !.ret = r] EXCEPT !.until = req[r].until]
           EXCEPT !.compliance = req[r].compliance] \in Lock
    BY <2>1, <2>2, <2>4
  <2>6. lock \in Lock
    BY <1>0, <2>5 DEF Retained
  <2> QED
    BY <1>0, <1>1, <2>6 DEF Retained, Lock
<1>3. /\ y \in Request /\ SameAsk(y, req[r]) /\ y.node = v /\ y.id = req[r].id
      /\ y.lock = lock /\ y.res = req[r].res
  <2>1. y \in Request
    BY <1>1, <1>2, FieldTypes
  <2> QED
    BY <1>0, <1>1, <2>1 DEF Request, SameAsk
<1> HIDE DEF y
<1>4. /\ next \in Request /\ SameAsk(next, req[r]) /\ next.node = v
      /\ next.id = req[r].id /\ next.lock = lock /\ next.res # "ok"
      /\ next.pc \in {"hold", "putlock"}
      /\ next.pc = "hold" <=> ChangesHold(next, lock)
  <2>1. next \in Request
    BY <1>3, FieldTypes DEF AfterRetention
  <2>2. /\ SameAsk(next, req[r]) /\ next.node = v
        /\ next.id = req[r].id /\ next.lock = lock /\ next.res # "ok"
        /\ next.pc = IF ChangesHold(y, lock) THEN "hold" ELSE "putlock"
    BY <1>0, <1>1, <1>3 DEF AfterRetention, SameAsk, Request
  <2> QED
    BY <1>3, <2>1, <2>2 DEF SameAsk, ChangesHold
<1>5. PICK x : /\ req' = [req EXCEPT ![r] = x] /\ faults' \in Nat
               /\ x = Done(r, "error") \/ x = next
  BY <1>0, Kinds DEF PutRetentionObject, Replied, Step, Fault, y
<1> HIDE DEF next
<1>6. /\ May(r, x) /\ SameAsk(x, req[r]) /\ x.node = v /\ x.id = req[r].id
      /\ x.pc \in {"hold", "putlock", "done"} /\ x.res # "ok"
      /\ x.pc # "done" => x = next /\ x.lock = lock
      /\ x.lock = lock \/ x.lock = old
  <2>1. CASE x = Done(r, "error")
    BY <1>0, <1>1, <2>1, DoneIsOk
  <2>2. CASE x = next
    <3>1. AtStep(r, next)
      BY <1>0, <1>1, <1>2, <1>4 DEF AtStep, SameAsk, ChangesHold
    <3> QED
      BY <1>0, <1>1, <1>4, <2>2, <3>1 DEF May, SameAsk, At
  <2> QED
    BY <1>5, <2>1, <2>2
<1>7. Frame /\ req'[r] = x
  BY <1>5, <1>6, OneChanges
<1>8. TrueLock(v, x.lock)'
  <2>1. TrueLock(v, old)'
    BY <1>0, <1>1, <1>7, TrueLockStays
  <2>2. TrueLock(v, lock)'
    <3>1. r \in retObjs' /\ req'[r].until = req[r].until
          /\ req'[r].compliance = req[r].compliance /\ req'[r].node = v
      BY <1>0, <1>1, <1>6, <1>7 DEF SameAsk
    <3>2. old.hold # None => req'[old.hold].node = v
      BY <2>1 DEF TrueLock
    <3> QED
      BY <1>2, <3>1, <3>2, IdsDiffer DEF TrueLock
  <2> QED
    BY <1>6, <2>1, <2>2
<1>9. /\ \A n \in lockNodes : HoldEnforced(n.version, n.lock)'
      /\ \A q \in Requests \ {r} :
           req[q].pc \in Changing => HoldEnforced(req[q].node, req[q].lock)'
      /\ HoldEnforced(v, x.lock)'
  <2>1. HoldEnforced(v, x.lock)
    BY <1>1, <1>2, <1>6 DEF HoldEnforced
  <2> QED
    BY <1>1, <1>5, <1>6, <2>1, HoldsKept
<1>10. ASSUME ~Raced(v)' PROVE Unraced(x, v)'
  <2>1. ~Raced(v)
    BY <1>1, <1>7, <1>10, WritersStay
  <2>2. Unraced(req[r], v)
    BY <1>0, <1>1, <2>1, UnracedChange DEF Changing
  <2>3. ASSUME NEW was, was \in Lock, Follows(req[r], was), x.pc \in Changing
        PROVE  Follows(x, was)
    <3>1. /\ old.ret = was.ret /\ old.until = was.until
          /\ old.compliance = was.compliance /\ old.hold = was.hold
      BY <1>0, <1>1, <2>3 DEF Follows
    <3>2. MayRetain(x, was)
      BY <1>0, <1>1, <1>6, <3>1 DEF MayRetain, SameAsk
    <3>3. x.until # 0 /\ x.pc # "retention" /\ x.lock.hold = was.hold
      BY <1>0, <1>1, <1>2, <1>6, <2>3, <3>1 DEF SameAsk, Changing
    <3> QED
      BY <3>2, <3>3 DEF Follows
  <2>4. NodesOf(v)' = NodesOf(v) /\ NoLock \in Lock
        /\ \A n \in NodesOf(v) : n.lock \in Lock
    BY <1>1, NodeFacts DEF NodesOf, NoLock, Lock
  <2> QED
    BY <1>0, <1>1, <1>6, <2>2, <2>3, <2>4 DEF Unraced, Changing
<1>11. Placed(x)'
  BY <1>0, <1>1, <1>5, <1>6, PlacedStays
<1>12. /\ lockCache' \in CacheType
       /\ r \in retObjs' \ retObjs => x.op \in {"put", "retain"}
       /\ x.node = v
  BY <1>1, <1>6, Kinds DEF SameAsk
<1> QED
  BY <1>1, <1>5, <1>6, <1>8, <1>9, <1>10, <1>11, <1>12, QuietStep

(* The object of a hold is deleted only by a request for the version the   *)
(* hold is on, which then is resetting it.                                 *)
LEMMA HoldTaken ==
  ASSUME IInv, NEW r \in Requests, NEW x, May(r, x), req' = [req EXCEPT ![r] = x],
         lockNodes' = lockNodes, req[r].node # None, req[r].hold = "off",
         req[r].op \in {"put", "hold"}, x.res # "ok",
         req[r].lock.hold # None, holdObjs' = holdObjs \ {req[r].lock.hold},
         NEW v, v # None, NEW lock, TrueLock(v, lock), HoldEnforced(v, lock)
  PROVE  HoldEnforced(v, lock)'
<1>1. /\ Frame /\ req'[r] = x /\ \A q \in Requests \ {r} : req'[q] = req[q]
  BY OneChanges
<1>2. CASE lock.hold # req[r].lock.hold
  <2>1. \A q \in Writers(v) : req[q].hold = "off" /\ Acked(q)' => Acked(q)
    BY <1>1 DEF Writers, Acked
  <2> QED
    BY <1>1, <1>2, <2>1, HoldEnforcedStays
<1>3. CASE lock.hold = req[r].lock.hold
  <2>1. v = req[r].node
    BY <1>3, RequestFacts DEF TrueLock
  <2>2. r \in Writers(v)' /\ req'[r].hold = "off" /\ ~Acked(r)'
    BY <1>1, <2>1 DEF Writers, Writes, Frame, Acked
  <2> QED
    BY <2>2 DEF HoldEnforced, Resetting
<1> QED
  BY <1>2, <1>3

LEMMA ChangeHoldKeeps ==
  ASSUME IInv, NEW r \in Requests, ChangeHold(r)
  PROVE  IInv'
<1>0. PICK v, old, lock :
        /\ v = req[r].node /\ old = req[r].lock
        /\ lock = [old EXCEPT !.hold = IF req[r].hold = "on" THEN r ELSE None]
  OBVIOUS
<1> DEFINE next == [[req[r] EXCEPT !.pc = "putlock"] EXCEPT !.lock = lock]
<1>1. /\ At(r, "hold") /\ UNCHANGED <<versions, lockNodes, retObjs, lockCache>>
      /\ req[r] \in Request /\ AtStep(r, req[r]) /\ req[r].prior \subseteq Finished
      /\ req[r].pc = "hold" /\ v # None /\ old \in Lock /\ Active(r)
      /\ ChangesHold(req[r], old) /\ req[r].res # "ok"
      /\ req[r].op \in {"put", "hold"}
      /\ TrueLock(v, old) /\ HoldEnforced(v, old)
  <2>1. At(r, "hold") /\ UNCHANGED <<versions, lockNodes, retObjs, lockCache>>
    BY DEF ChangeHold
  <2>2. /\ req[r] \in Request /\ AtStep(r, req[r]) /\ req[r].prior \subseteq Finished
        /\ req[r].pc = "hold" /\ TrueLock(v, old) /\ HoldEnforced(v, old)
    BY <1>0, <2>1, RequestFacts DEF At, Changing
  <2>3. /\ v # None /\ ChangesHold(req[r], old) /\ Active(r)
        /\ req[r].res # "ok" /\ old \in Lock
    BY <1>0, <2>2 DEF AtStep, Active, Request
  <2>4. req[r].op \in {"put", "hold"}
    BY <2>2, <2>3 DEF AtStep, Request, ChangesHold
  <2> QED
    BY <2>1, <2>2, <2>3, <2>4
<1>2. /\ lock \in Lock /\ lock.ret = old.ret /\ lock.until = old.until
      /\ lock.compliance = old.compliance
      /\ lock.hold = IF req[r].hold = "on" THEN r ELSE None
  BY <1>0, <1>1 DEF Lock
<1>3. /\ next \in Request /\ SameAsk(next, req[r]) /\ next.node = v
      /\ next.id = req[r].id /\ next.lock = lock /\ next.res # "ok"
      /\ next.pc = "putlock"
  <2>1. [req[r] EXCEPT !.pc = "putlock"] \in Request
    BY <1>1, FieldTypes
  <2>2. next \in Request
    BY <1>2, <2>1, FieldTypes
  <2> QED
    BY <1>0, <1>1, <2>2 DEF Request, SameAsk
<1>4. PICK x : /\ req' = [req EXCEPT ![r] = x] /\ faults' \in Nat
               /\ x = Done(r, "error") \/ x = next
               /\ holdObjs' = IF req[r].hold = "on" THEN holdObjs \cup {r}
                                                    ELSE holdObjs \ {old.hold}
  <2>1. CASE req[r].hold = "on"
    <3>1. next = [req[r] EXCEPT !.pc = "putlock", !.lock.hold = r]
      BY <1>0, <2>1
    <3> QED
      BY <1>0, <2>1, <3>1, Kinds DEF ChangeHold, Replied, Step, Fault
  <2>2. CASE req[r].hold # "on"
    <3>1. next = [req[r] EXCEPT !.pc = "putlock", !.lock.hold = None]
      BY <1>0, <2>2
    <3> QED
      BY <1>0, <2>2, <3>1, Kinds DEF ChangeHold, Replied, Step, Fault
  <2> QED
    BY <2>1, <2>2
<1> HIDE DEF next
<1>5. /\ May(r, x) /\ SameAsk(x, req[r]) /\ x.node = v /\ x.id = req[r].id
      /\ x.pc \in {"putlock", "done"} /\ x.res # "ok"
      /\ x.pc # "done" => x.lock = lock
      /\ x.lock = lock \/ x.lock = old
  <2>1. CASE x = Done(r, "error")
    BY <1>0, <1>1, <2>1, DoneIsOk
  <2>2. CASE x = next
    <3>1. AtStep(r, next)
      BY <1>0, <1>1, <1>2, <1>3, IdsDiffer DEF AtStep, SameAsk, ChangesHold
    <3> QED
      BY <1>0, <1>1, <1>3, <2>2, <3>1 DEF May, SameAsk, At
  <2> QED
    BY <1>4, <2>1, <2>2
<1>6. Frame /\ req'[r] = x
  BY <1>4, <1>5, OneChanges
<1>7. TrueLock(v, x.lock)'
  <2>1. TrueLock(v, old)'
    BY <1>1, <1>6, TrueLockStays
  <2>2. req'[r].node = v
    BY <1>5, <1>6
  <2>3. TrueLock(v, lock)'
    BY <1>2, <2>1, <2>2 DEF TrueLock
  <2> QED
    BY <1>5, <2>1, <2>3
<1>8. /\ \A n \in lockNodes : HoldEnforced(n.version, n.lock)'
      /\ \A q \in Requests \ {r} :
           req[q].pc \in Changing => HoldEnforced(req[q].node, req[q].lock)'
      /\ x.pc \in Changing => HoldEnforced(v, x.lock)'
  <2>1. CASE req[r].hold = "on"
    <3>1. holdObjs \subseteq holdObjs' /\ r \in holdObjs'
      BY <1>4, <2>1
    <3>2. x.pc \in Changing => HoldEnforced(v, x.lock)'
      BY <1>2, <1>5, <2>1, <3>1 DEF HoldEnforced, Changing
    <3> QED
      BY <1>1, <1>4, <1>5, <3>1, <3>2, HoldsKept
  <2>2. CASE req[r].hold # "on"
    <3>1. /\ req[r].hold = "off" /\ old.hold # None
          /\ holdObjs' = holdObjs \ {old.hold}
      BY <1>1, <1>4, <2>2 DEF ChangesHold
    <3>2. \A w, l : w # None /\ TrueLock(w, l) /\ HoldEnforced(w, l)
            => HoldEnforced(w, l)'
      BY <1>0, <1>1, <1>4, <1>5, <3>1, HoldTaken
    <3>3. \A n \in lockNodes : HoldEnforced(n.version, n.lock)'
      BY <3>2, NodeFacts
    <3>4. ASSUME NEW q \in Requests \ {r}, req[q].pc \in Changing
          PROVE  HoldEnforced(req[q].node, req[q].lock)'
      <4>1. /\ req[q].node # None /\ TrueLock(req[q].node, req[q].lock)
            /\ HoldEnforced(req[q].node, req[q].lock)
        BY <3>4, RequestFacts DEF AtStep, Changing
      <4>2. req'[q] = req[q]
        BY <1>4, <1>5, OneChanges
      <4> QED
        BY <3>2, <4>1, <4>2
    <3>5. x.pc \in Changing => HoldEnforced(v, x.lock)'
      BY <1>2, <1>5, <2>2 DEF HoldEnforced, Changing
    <3> QED
      BY <3>3, <3>4, <3>5
  <2> QED
    BY <2>1, <2>2
<1>9. ASSUME ~Raced(v)' PROVE Unraced(x, v)'
  <2>1. ~Raced(v)
    BY <1>1, <1>6, <1>9, WritersStay
  <2>2. Unraced(req[r], v)
    BY <1>0, <1>1, <2>1, UnracedChange DEF Changing
  <2>3. ASSUME NEW was, Follows(req[r], was), x.pc \in Changing
        PROVE  Follows(x, was)
    <3>1. x.pc = "putlock" /\ x.hold # "none" /\ x.lock = lock
      BY <1>1, <1>5, <2>3 DEF ChangesHold, SameAsk, Changing
    <3> QED
      BY <1>0, <1>1, <1>2, <1>5, <2>3, <3>1 DEF Follows, MayRetain, SameAsk
  <2>4. NodesOf(v)' = NodesOf(v)
    BY <1>1 DEF NodesOf
  <2> QED
    BY <1>0, <1>1, <1>5, <2>2, <2>3, <2>4 DEF Unraced, Changing
<1>10. Placed(x)'
  BY <1>0, <1>1, <1>4, <1>5, PlacedStays
<1>11. /\ lockCache' \in CacheType /\ x.op \in {"put", "hold"} /\ x.node = v
       /\ holdObjs' \subseteq holdObjs \cup {r}
  BY <1>1, <1>4, <1>5, Kinds DEF SameAsk
<1> QED
  BY <1>1, <1>4, <1>5, <1>7, <1>8, <1>9, <1>10, <1>11, QuietStep

(* A request that has written its lock and is acknowledged finds the lock  *)
(* as it asked for it, unless another request for the version raced it.    *)
LEMMA CacheLockKeeps ==
  ASSUME IInv, NEW r \in Requests, CacheLock(r)
  PROVE  IInv'
<1>0. PICK v, lock, x : /\ v = req[r].node /\ lock = req[r].lock
                        /\ x = Done(r, "ok")
  OBVIOUS
<1>1. /\ At(r, "cache") /\ req' = [req EXCEPT ![r] = x]
      /\ UNCHANGED <<stores, faults>>
      /\ lockCache' = [lockCache EXCEPT ![req[r].vid] = lock]
      /\ req[r] \in Request /\ AtStep(r, req[r]) /\ Active(r)
      /\ v # None /\ lock \in Lock /\ TrueLock(v, lock)
  <2>1. /\ At(r, "cache") /\ req' = [req EXCEPT ![r] = x]
        /\ UNCHANGED <<stores, faults>>
        /\ lockCache' = [lockCache EXCEPT ![req[r].vid] = lock]
    BY <1>0 DEF CacheLock, Step
  <2>2. req[r] \in Request /\ AtStep(r, req[r]) /\ TrueLock(v, lock)
    BY <1>0, RequestFacts
  <2> QED
    BY <1>0, <2>1, <2>2 DEF AtStep, At, Active, Request
<1>2. /\ May(r, x) /\ SameAsk(x, req[r]) /\ x.pc = "done" /\ x.res = "ok"
      /\ x.node = v /\ x.id = req[r].id /\ x.lock = lock
  BY <1>0, <1>1, DoneIsOk
<1>3. /\ Frame /\ req'[r] = x /\ \A q \in Requests \ {r} : req'[q] = req[q]
  BY <1>1, <1>2, OneChanges
<1>4. req[r].op # "get" /\ ~Raced(v) =>
        /\ r \in Writers(v)
        /\ \A n \in NodesOf(v) : n.lock = lock
        /\ NodesOf(v) # {}
  <2>1. ASSUME req[r].op # "get", ~Raced(v)
        PROVE  /\ r \in Writers(v) /\ Unraced(req[r], v)
               /\ \A m, n \in NodesOf(v) : m = n
    BY <1>0, <1>1, <2>1, UnracedChange DEF At
  <2> QED
    BY <1>0, <1>1, <2>1 DEF Unraced, At
<1>5. ASSUME NEW w, w # None, NEW l, HoldEnforced(w, l),
             w = v /\ req[r].hold = "off" /\ ~Raced(v) => l.hold = None
      PROVE  HoldEnforced(w, l)'
  <2>1. CASE l.hold = None
    BY <2>1 DEF HoldEnforced
  <2>2. CASE l.hold # None /\ (w # v \/ req[r].hold # "off")
    <3>1. \A q \in Writers(w) : req[q].hold = "off" /\ Acked(q)' => Acked(q)
      BY <1>0, <1>3, <2>2 DEF Writers, Acked
    <3> QED
      BY <1>1, <1>3, <1>5, <3>1, HoldEnforcedStays DEF stores
  <2>3. CASE l.hold # None /\ w = v /\ req[r].hold = "off"
    <3>1. Raced(v)
      BY <1>5, <2>3
    <3>2. Raced(v)' /\ r \in Writers(v)'
      <4>1. req[r].op # "get" /\ req[r].op # "none" /\ req[r].op # "retain"
        BY <1>1, <2>3 DEF AtStep
      <4>2. x.op \in {"put", "hold"}
        BY <1>1, <1>2, <4>1 DEF Request, SameAsk
      <4> QED
        BY <1>1, <1>2, <1>3, <3>1, <4>2, WritersStay DEF Writers, Writes
    <3>3. req'[r].hold = "off"
      BY <1>2, <1>3, <2>3 DEF SameAsk
    <3> QED
      BY <2>3, <3>2, <3>3 DEF HoldEnforced, Resetting
  <2> QED
    BY <2>1, <2>2, <2>3
<1>6. req[r].hold = "off" => req[r].op # "get" /\ lock.hold = None
  BY <1>0, <1>1 DEF AtStep, At
<1>7. \A n \in lockNodes : HoldEnforced(n.version, n.lock)'
  <2> SUFFICES ASSUME NEW n \in lockNodes PROVE HoldEnforced(n.version, n.lock)'
    OBVIOUS
  <2>1. n.version = v => n \in NodesOf(v)
    BY DEF NodesOf
  <2> QED
    BY <1>4, <1>5, <1>6, <2>1, NodeFacts
<1>8. ASSUME NEW q \in Requests \ {r}, req[q].pc \in Changing
      PROVE  HoldEnforced(req[q].node, req[q].lock)'
  <2>1. /\ req[q].node # None /\ HoldEnforced(req[q].node, req[q].lock)
        /\ req[q] \in Request /\ req[q].op # "get" /\ req[q].op # "none"
        /\ req[q].pc # "done"
    BY <1>8, RequestFacts DEF AtStep, Changing
  <2>2. ~(req[q].node = v /\ req[r].hold = "off" /\ ~Raced(v))
    <3> SUFFICES ASSUME req[q].node = v, req[r].hold = "off", ~Raced(v) PROVE FALSE
      OBVIOUS
    <3>1. r \in Writers(v) /\ q \in Writers(v)
      BY <1>4, <1>6, <2>1 DEF Writers, Writes, Request
    <3>2. At(q, "done")
      BY <1>1, <3>1, ActiveRace
    <3> QED
      BY <2>1, <3>2 DEF At
  <2>3. req'[q] = req[q]
    BY <1>3
  <2> QED
    BY <1>5, <2>1, <2>2, <2>3
<1>9. ASSUME r \in Writers(v)', ~Raced(v)' PROVE AsAsked(r, v)'
  <2>1. ~Raced(v) /\ req[r].op # "get" /\ r \in Requests
    BY <1>1, <1>2, <1>3, <1>9, WritersStay DEF Writers, Writes, SameAsk
  <2>2. NodesOf(v)' # {} /\ \A n \in NodesOf(v)' : n.lock = lock
    BY <1>1, <1>4, <2>1 DEF NodesOf, stores
  <2>3. LockedAsAsked(r, lock)'
    <3>1. /\ req'[r].until = req[r].until /\ req'[r].hold = req[r].hold
          /\ req'[r].compliance = req[r].compliance
      BY <1>2, <1>3 DEF SameAsk
    <3>2. /\ req[r].until > 0 => lock.until = req[r].until /\ lock.ret = r
          /\ req[r].hold = "on" => lock.hold # None
          /\ req[r].hold = "off" => lock.hold = None
          /\ req[r].hold \in {"none", "on", "off"}
      BY <1>0, <1>1 DEF AtStep, At, Request
    <3>3. req[r].until \in Nat /\ lock.until \in Nat
      <4>1. Dates \cup {0} \subseteq Nat
        BY DatesArePositive
      <4> QED
        BY <1>1, <4>1 DEF Request, Lock
    <3>4. req[r].until <= lock.until
      BY <3>2, <3>3
    <3> QED
      BY <3>1, <3>2, <3>4 DEF LockedAsAsked
  <2> QED
    BY <2>2, <2>3 DEF AsAsked
<1>10. Placed(x)' /\ TrueLock(v, lock)'
  BY <1>0, <1>1, <1>2, <1>3, PlacedStays, TrueLockStays DEF stores
<1>11. lockCache' \in CacheType
  <2>1. req[r].vid \in Requests \cup {First, "latest"}
    BY <1>1 DEF Request
  <2> QED
    BY <1>1, <2>1, Kinds DEF CacheType
<1>12. Unraced(x, v)' /\ x.pc \notin Changing /\ faults' \in Nat
  BY <1>1, <1>2, Kinds DEF Unraced, Changing
<1> QED
  BY <1>1, <1>2, <1>7, <1>8, <1>9, <1>10, <1>11, <1>12, QuietStep DEF stores

(* What an earlier request was told is still so in the lock that a later   *)
(* one writes over the lock it read.                                       *)
LEMMA StillAsAsked ==
  ASSUME IInv, NEW r \in Requests, req[r].pc = "putlock",
         NEW q \in Writers(req[r].node), q \in req[r].prior, r \in Writers(req[r].node),
         NEW n \in NodesOf(req[r].node), Follows(req[r], n.lock), LockedAsAsked(q, n.lock)
  PROVE  LockedAsAsked(q, req[r].lock)
<1>0. PICK v, old, lock : v = req[r].node /\ old = n.lock /\ lock = req[r].lock
  OBVIOUS
<1>1. /\ req[r] \in Request /\ AtStep(r, req[r]) /\ TrueLock(v, lock)
      /\ TrueLock(v, old) /\ old \in Lock /\ lock \in Lock
      /\ q \in Requests /\ req[q] \in Request /\ req[q].node = v
      /\ LockedAsAsked(q, old) /\ Follows(req[r], old)
  <2>1. n \in lockNodes /\ n.version = v
    BY <1>0 DEF NodesOf
  <2>2. q \in Requests /\ req[q].node = v
    BY <1>0 DEF Writers
  <2> QED
    BY <1>0, <2>1, <2>2, RequestFacts, NodeFacts DEF Request
<1>2. /\ old.until \in Nat /\ lock.until \in Nat /\ req[r].until \in Nat
      /\ req[q].until \in Nat
  <2>1. Dates \cup {0} \subseteq Nat
    BY DatesArePositive
  <2> QED
    BY <1>1, <2>1 DEF Request, Lock
<1>3. /\ req[q].until <= old.until
      /\ req[q].until > 0 /\ req[q].compliance => old.ret = q
  BY <1>1 DEF LockedAsAsked
<1>4. /\ req[q].until <= lock.until
      /\ req[q].until > 0 /\ req[q].compliance => lock.ret = q
  <2>1. CASE req[r].until = 0
    <3>1. lock.ret = old.ret /\ lock.until = old.until
      BY <1>0, <1>1, <2>1 DEF Follows
    <3> QED
      BY <1>3, <3>1
  <2>2. CASE req[r].until # 0
    <3>1. MayRetain(req[r], old) /\ lock.until = req[r].until
      BY <1>0, <1>1, <1>2, <2>2 DEF Follows, AtStep
    <3>2. req[q].until <= lock.until
      <4>1. CASE old.ret = None
        BY <1>1, <1>2, <1>3, <4>1 DEF TrueLock
      <4>2. CASE old.ret # None
        BY <1>2, <1>3, <3>1, <4>2 DEF MayRetain
      <4> QED
        BY <4>1, <4>2
    <3>3. ~(req[q].until > 0 /\ req[q].compliance)
      <4> SUFFICES ASSUME req[q].until > 0, req[q].compliance PROVE FALSE
        OBVIOUS
      <4>1. old.ret = q /\ q # None
        BY <1>1, <1>3, IdsDiffer
      <4>2. old.compliance = req[q].compliance
        BY <1>1, <4>1 DEF TrueLock
      <4> QED
        BY <3>1, <4>1, <4>2 DEF MayRetain
    <3> QED
      BY <3>2, <3>3
  <2> QED
    BY <2>1, <2>2
<1>5. ASSUME req[q].hold # "none"
      PROVE  \/ (lock.hold # None) = (req[q].hold = "on")
             \/ \E p \in Writers(v) : /\ q \in req[p].prior
                                      /\ req[p].hold \notin {"none", req[q].hold}
  <2>1. \/ (old.hold # None) = (req[q].hold = "on")
        \/ \E p \in Writers(v) : /\ q \in req[p].prior
                                 /\ req[p].hold \notin {"none", req[q].hold}
    BY <1>1, <1>5 DEF LockedAsAsked
  <2>2. CASE req[r].hold = "none"
    BY <1>0, <1>1, <2>1, <2>2 DEF Follows
  <2>3. CASE req[r].hold # "none" /\ req[r].hold # req[q].hold
    BY <1>0, <2>3
  <2>4. CASE req[r].hold # "none" /\ req[r].hold = req[q].hold
    <3>1. /\ req[r].hold \in {"on", "off"}
          /\ req[r].hold = "on" => lock.hold # None
          /\ req[r].hold = "off" => lock.hold = None
      BY <1>0, <1>1, <2>4 DEF AtStep, Request
    <3> QED
      BY <2>4, <3>1
  <2> QED
    BY <2>2, <2>3, <2>4
<1> QED
  BY <1>0, <1>1, <1>4, <1>5 DEF LockedAsAsked

LEMMA PutLockKeeps ==
  ASSUME IInv, NEW r \in Requests, PutLock(r)
  PROVE  IInv'
<1>0. PICK v, id, lock, new :
        /\ v = req[r].node /\ lock = req[r].lock
        /\ id = IF req[r].id = None THEN r ELSE req[r].id
        /\ new = [id |-> id, version |-> v, lock |-> lock]
  OBVIOUS
<1>1. /\ At(r, "putlock") /\ UNCHANGED <<versions, retObjs, holdObjs, lockCache>>
      /\ lockNodes' = {n \in lockNodes : n.id # id} \cup {new}
      /\ req[r] \in Request /\ AtStep(r, req[r]) /\ req[r].prior \subseteq Finished
      /\ req[r].pc = "putlock" /\ Active(r) /\ req[r].res # "ok"
      /\ req[r].op \in {"put", "retain", "hold"}
      /\ TrueLock(v, lock) /\ HoldEnforced(v, lock) /\ Placed(req[r])
      /\ v # None /\ lock \in Lock /\ v \in Requests \cup {First}
      /\ id \in Requests
  <2>1. /\ At(r, "putlock") /\ UNCHANGED <<versions, retObjs, holdObjs, lockCache>>
        /\ lockNodes' = {n \in lockNodes : n.id # id} \cup {new}
    BY <1>0 DEF PutLock
  <2>2. /\ req[r] \in Request /\ AtStep(r, req[r]) /\ req[r].prior \subseteq Finished
        /\ req[r].pc = "putlock" /\ TrueLock(v, lock) /\ HoldEnforced(v, lock)
        /\ Placed(req[r])
    BY <1>0, <2>1, RequestFacts DEF At, Changing
  <2>3. /\ v # None /\ Active(r) /\ req[r].res # "ok" /\ lock \in Lock
        /\ v \in Requests \cup {First, None} /\ id \in Requests
    BY <1>0, <2>2 DEF AtStep, Active, Request
  <2>4. req[r].op \in {"put", "retain", "hold"}
    BY <2>2 DEF AtStep, Request
  <2> QED
    BY <2>1, <2>2, <2>3, <2>4
<1>2. PICK x : /\ req' = [req EXCEPT ![r] = x] /\ faults' \in Nat
               /\ x = Done(r, "error") \/ x = To(r, "cache")
  BY Kinds DEF PutLock, Replied, Step, Fault
<1>3. /\ May(r, x) /\ SameAsk(x, req[r]) /\ x.node = v /\ x.id = req[r].id
      /\ x.pc \in {"cache", "done"} /\ x.res # "ok" /\ x.lock = lock
  <2>1. CASE x = Done(r, "error")
    BY <1>0, <1>1, <2>1, DoneIsOk
  <2>2. CASE x = To(r, "cache")
    <3>1. x \in Request
      BY <1>1, <2>2, FieldTypes DEF To
    <3>2. /\ SameAsk(x, req[r]) /\ x.node = v /\ x.id = req[r].id
          /\ x.pc = "cache" /\ x.res = req[r].res /\ x.lock = lock
      BY <1>0, <1>1, <2>2 DEF To, Request, SameAsk
    <3>3. AtStep(r, x)
      BY <1>0, <1>1, <3>2 DEF AtStep, SameAsk
    <3> QED
      BY <1>0, <1>1, <3>1, <3>2, <3>3 DEF May, SameAsk, At
  <2> QED
    BY <1>2, <2>1, <2>2
<1>4. /\ Frame /\ req'[r] = x /\ \A q \in Requests \ {r} : req'[q] = req[q]
      /\ \A q \in Requests : AtStep(q, req'[q]) /\ req'[q].prior \subseteq Finished'
  BY <1>2, <1>3, OneChanges
<1>5. \A n \in lockNodes : n.id = id => n.version = v /\ id = req[r].id
  <2> SUFFICES ASSUME NEW n \in lockNodes, n.id = id
               PROVE  n.version = v /\ id = req[r].id
    OBVIOUS
  <2>1. MadeFor(id, n.version)
    BY NodeFacts
  <2>2. id # r
    <3>1. CASE id = r
      BY <1>1, <2>1, <3>1 DEF MadeFor
    <3> QED
      BY <3>1
  <2>3. id = req[r].id /\ req[r].id # None
    BY <1>0, <2>2
  <2>4. MadeFor(id, v)
    BY <1>0, <1>1, <2>3 DEF Placed
  <2> QED
    BY <2>1, <2>3, <2>4 DEF MadeFor
<1>6. MadeFor(id, v)'
  <2>1. CASE req[r].id = None
    <3>1. id = r
      BY <1>0, <2>1
    <3> QED
      BY <1>1, <1>3, <1>4, <3>1 DEF MadeFor, Writes, SameAsk
  <2>2. CASE req[r].id # None
    <3>1. MadeFor(id, v)
      BY <1>0, <1>1, <2>2 DEF Placed
    <3> QED
      BY <1>1, <1>4, <3>1, MadeForStays
  <2> QED
    BY <2>1, <2>2
<1>7. /\ new.id = id /\ new.version = v /\ new.lock = lock
      /\ v \in ToSet(versions)'
  BY <1>0, <1>1 DEF Placed
<1>8. TypeOK'
  <2>1. \A n \in lockNodes' \ lockNodes :
          n.id \in Requests /\ n.version \in ToSet(versions)' /\ n.lock \in Lock
    BY <1>1, <1>7
  <2>2. \A m, n \in lockNodes' : m.id = n.id => m = n
    <3>1. \A m, n \in lockNodes : m.id = n.id => m = n
      BY DEF IInv, TypeOK
    <3> QED
      BY <1>1, <1>7, <3>1
  <2>3. lockCache' \in CacheType
    BY <1>1, Kinds
  <2> QED
    BY <1>1, <1>2, <1>3, <2>1, <2>2, <2>3, OneTyped
<1>9. /\ \A n \in lockNodes : HoldEnforced(n.version, n.lock)'
      /\ \A q \in Requests \ {r} :
           req[q].pc \in Changing => HoldEnforced(req[q].node, req[q].lock)'
      /\ HoldEnforced(v, lock)'
  BY <1>1, <1>2, <1>3, HoldsKept
<1>10. ASSUME NEW q \in Requests
       PROVE  /\ Placed(req[q])' /\ TrueLock(req[q].node, req[q].lock)'
              /\ req'[q].pc \in Changing => HoldEnforced(req[q].node, req[q].lock)'
  <2>1. CASE q = r
    <3>1. Placed(x)'
      BY <1>0, <1>1, <1>2, <1>3, PlacedStays
    <3>2. TrueLock(v, lock)'
      BY <1>1, <1>4, TrueLockStays
    <3> QED
      BY <1>3, <1>4, <1>9, <2>1, <3>1, <3>2 DEF Changing
  <2>2. CASE q # r
    <3>1. req'[q] = req[q] /\ Placed(req[q]) /\ TrueLock(req[q].node, req[q].lock)
          /\ req[q] \in Request /\ AtStep(q, req[q])
      BY <1>4, <2>2, RequestFacts
    <3>2. req[q].id \in Requests \cup {None} /\ req[q].lock \in Lock
          /\ (req[q].node = None => req[q].id = None /\ req[q].lock = NoLock)
      BY <3>1 DEF Request, AtStep
    <3>3. req[q].id # None => MadeFor(req[q].id, req[q].node)'
      BY <1>4, <3>1, <3>2, MadeForStays DEF Placed
    <3>4. Placed(req[q])'
      BY <1>1, <3>1, <3>3 DEF Placed
    <3>5. TrueLock(req[q].node, req[q].lock)'
      BY <1>1, <1>4, <3>1, <3>2, TrueLockStays
    <3> QED
      BY <1>9, <2>2, <3>1, <3>4, <3>5
  <2> QED
    BY <2>1, <2>2
<1>11. ASSUME NEW n \in lockNodes'
       PROVE  /\ MadeFor(n.id, n.version)' /\ TrueLock(n.version, n.lock)'
              /\ HoldEnforced(n.version, n.lock)'
  <2>1. CASE n = new
    BY <1>1, <1>4, <1>6, <1>7, <1>9, <2>1, TrueLockStays
  <2>2. CASE n \in lockNodes
    BY <1>1, <1>4, <1>9, <2>2, NodeFacts, MadeForStays, TrueLockStays
  <2> QED
    BY <1>1, <2>1, <2>2
<1>12. ASSUME NEW w \in Requests \cup {First}, w # v PROVE Kept(w)'
  <2>1. w # None /\ NodesOf(w)' = NodesOf(w)
    BY <1>1, <1>5, <1>7, <1>12, IdsDiffer DEF NodesOf
  <2> SUFFICES ASSUME ~Raced(w)'
               PROVE  /\ \A m, n \in NodesOf(w)' : m = n
                      /\ \A q \in Writers(w)' :
                           Unraced(req[q], w)' /\ (Acked(q)' => AsAsked(q, w)')
    BY DEF Kept
  <2>2. ~Raced(w)
    BY <1>4, <2>1, WritersStay
  <2>3. /\ \A m, n \in NodesOf(w) : m = n
        /\ \A q \in Writers(w) : Unraced(req[q], w) /\ (Acked(q) => AsAsked(q, w))
    BY <2>2 DEF IInv, Kept
  <2>4. ASSUME NEW q \in Writers(w)'
        PROVE  Unraced(req[q], w)' /\ (Acked(q)' => AsAsked(q, w)')
    <3>1. q \in Requests /\ q # r /\ req'[q] = req[q] /\ q \in Writers(w)
      BY <1>3, <1>4, <1>12 DEF Writers, Writes
    <3>2. Unraced(req[q], w)'
      BY <2>1, <2>3, <3>1 DEF Unraced
    <3>3. ASSUME Acked(q)' PROVE AsAsked(q, w)'
      <4>1. NodesOf(w) # {} /\ \A n \in NodesOf(w) : LockedAsAsked(q, n.lock)
        BY <2>3, <3>1, <3>3 DEF Acked, AsAsked
      <4>2. \A n \in NodesOf(w) : LockedAsAsked(q, n.lock)'
        BY <1>4, <2>1, <3>1, <4>1, LockedStays
      <4> QED
        BY <2>1, <4>1, <4>2 DEF AsAsked
    <3> QED
      BY <3>2, <3>3
  <2> QED
    BY <2>1, <2>3, <2>4
<1>13. Kept(v)'
  <2> SUFFICES ASSUME ~Raced(v)'
               PROVE  /\ \A m, n \in NodesOf(v)' : m = n
                      /\ \A q \in Writers(v)' :
                           Unraced(req[q], v)' /\ (Acked(q)' => AsAsked(q, v)')
    BY DEF Kept
  <2>1. ~Raced(v)
    BY <1>1, <1>4, WritersStay
  <2>2. /\ r \in Writers(v) /\ Unraced(req[r], v)
        /\ \A m, n \in NodesOf(v) : m = n
    BY <1>0, <1>1, <2>1, UnracedChange DEF Changing
  <2>3. \A n \in NodesOf(v) : n.id = id /\ Follows(req[r], n.lock)
    BY <1>0, <1>1, <2>2 DEF Unraced, Changing
  <2>4. NodesOf(v)' = {new}
    BY <1>1, <1>7, <2>3 DEF NodesOf
  <2>5. ASSUME NEW q \in Writers(v)'
        PROVE  Unraced(req[q], v)' /\ (Acked(q)' => AsAsked(q, v)')
    <3>1. CASE q = r
      BY <1>3, <1>4, <1>7, <2>4, <3>1 DEF Unraced, Changing, Acked
    <3>2. CASE q # r
      <4>1. q \in Requests /\ req'[q] = req[q] /\ q \in Writers(v)
        BY <1>4, <3>2 DEF Writers, Writes
      <4>2. At(q, "done") /\ q \in req[r].prior
        BY <1>1, <2>1, <2>2, <3>2, <4>1, ActiveRace
      <4>3. Unraced(req[q], v)'
        BY <4>1, <4>2 DEF Unraced, Changing, At
      <4>4. ASSUME Acked(q)' PROVE AsAsked(q, v)'
        <5>1. AsAsked(q, v)
          BY <1>1, <2>1, <4>1, <4>4 DEF IInv, Kept, Acked
        <5>2. PICK n \in NodesOf(v) : LockedAsAsked(q, n.lock) /\ Follows(req[r], n.lock)
          BY <2>3, <5>1 DEF AsAsked
        <5>3. LockedAsAsked(q, lock)
          BY <1>0, <1>1, <2>2, <4>1, <4>2, <5>2, StillAsAsked
        <5>4. LockedAsAsked(q, lock)'
          BY <1>1, <1>4, <4>1, <5>3, LockedStays
        <5> QED
          BY <1>7, <2>4, <5>4 DEF AsAsked
      <4> QED
        BY <4>3, <4>4
    <3> QED
      BY <3>1, <3>2
  <2> QED
    BY <2>4, <2>5
<1>14. \A w \in Requests \cup {First} : Kept(w)'
  BY <1>12, <1>13
<1> QED
  BY <1>4, <1>8, <1>10, <1>11, <1>14 DEF IInv

---------------------------------------------------------------------------
(* The steps of no request.                                                *)

LEMMA CacheStepKeeps ==
  ASSUME IInv, UNCHANGED <<stores, req, faults>>, lockCache' \in CacheType
  PROVE  IInv'
<1> USE DEF stores, NodesOf, Writers, Writes, Overlap, Raced, Acked
<1>1. TypeOK'
  BY DEF IInv, TypeOK, CacheType
<1>2. \A v, lock : /\ TrueLock(v, lock)' <=> TrueLock(v, lock)
                   /\ HoldEnforced(v, lock)' <=> HoldEnforced(v, lock)
  BY DEF TrueLock, HoldEnforced, Resetting
<1>3. \A v : Kept(v) => Kept(v)'
  BY DEF Kept, Unraced, AsAsked, LockedAsAsked
<1>4. \A q \in Requests :
        /\ AtStep(q, req[q])' /\ Placed(req[q])' /\ (req[q].prior \subseteq Finished)'
        /\ TrueLock(req[q].node, req[q].lock)'
        /\ req'[q].pc \in Changing => HoldEnforced(req[q].node, req[q].lock)'
  BY <1>2, RequestFacts DEF Placed, MadeFor, Finished
<1>5. \A n \in lockNodes' :
        /\ MadeFor(n.id, n.version)'
        /\ TrueLock(n.version, n.lock)' /\ HoldEnforced(n.version, n.lock)'
  BY <1>2, NodeFacts DEF MadeFor
<1> QED
  BY <1>1, <1>3, <1>4, <1>5 DEF IInv

LEMMA ExpireKeeps ==
  ASSUME IInv, Expire
  PROVE  IInv'
<1>1. PICK v \in DOMAIN lockCache : lockCache' = [lockCache EXCEPT ![v] = None]
  BY DEF Expire
<1>2. lockCache' \in CacheType
  BY <1>1, Kinds DEF CacheType
<1> QED
  BY <1>2, CacheStepKeeps DEF Expire

(* A crash ends every request that was on its way, with nothing undone.    *)
LEMMA CrashKeeps ==
  ASSUME IInv, Crash
  PROVE  IInv'
<1>1. /\ req' = [r \in Requests |-> IF Active(r) THEN Done(r, "crashed") ELSE req[r]]
      /\ UNCHANGED stores /\ faults' \in Nat /\ lockCache' \in CacheType
  BY Kinds DEF Crash, CacheType
<1>2. ASSUME NEW q \in Requests
      PROVE  /\ req'[q] \in Request /\ AtStep(q, req'[q]) /\ SameAsk(req'[q], req[q])
             /\ req'[q].node = req[q].node /\ req'[q].id = req[q].id
             /\ req'[q].lock = req[q].lock
             /\ req'[q].pc \in {"idle", "done"}
             /\ req[q].pc = "done" => req'[q].pc = "done"
             /\ req[q].pc = "cache" => req'[q].pc = "done"
             /\ req'[q].res = "ok" => req'[q] = req[q]
  <2>1. CASE Active(q)
    <3>1. req'[q] = Done(q, "crashed")
      BY <1>1, <2>1
    <3> QED
      BY <2>1, <3>1, DoneIsOk DEF May, Active
  <2>2. CASE ~Active(q)
    <3>1. req'[q] = req[q]
      BY <1>1, <2>2
    <3> QED
      BY <2>2, <3>1, RequestFacts DEF Active, SameAsk
  <2> QED
    BY <2>1, <2>2
<1>3. Frame
  BY <1>2 DEF Frame, SameAsk
<1>4. TypeOK'
  <2>1. req' \in [Requests -> Request]
    BY <1>1, <1>2
  <2>2. /\ retObjs' \subseteq {r \in Requests : req'[r].op \in {"put", "retain"}}
        /\ holdObjs' \subseteq {r \in Requests : req'[r].op \in {"put", "hold"}}
    BY <1>1, <1>2 DEF IInv, TypeOK, SameAsk, stores
  <2> QED
    BY <1>1, <2>1, <2>2 DEF IInv, TypeOK, CacheType, stores
<1>5. ASSUME NEW v, v # None, NEW lock, HoldEnforced(v, lock)
      PROVE  HoldEnforced(v, lock)'
  <2>1. \A q \in Writers(v) : Acked(q)' => Acked(q)
    BY <1>2 DEF Writers, Acked
  <2> QED
    BY <1>1, <1>3, <1>5, <2>1, HoldEnforcedStays DEF stores
<1>6. ASSUME NEW q \in Requests
      PROVE  /\ Placed(req[q])' /\ TrueLock(req[q].node, req[q].lock)'
             /\ req'[q].prior \subseteq Finished' /\ req'[q].pc \notin Changing
  <2>1. /\ Placed(req[q]) /\ TrueLock(req[q].node, req[q].lock)
        /\ req[q] \in Request /\ AtStep(q, req[q]) /\ req[q].prior \subseteq Finished
    BY RequestFacts
  <2>2. req[q].id \in Requests \cup {None} /\ req[q].lock \in Lock
        /\ (req[q].node = None => req[q].id = None /\ req[q].lock = NoLock)
    BY <2>1 DEF Request, AtStep
  <2>3. \A i, v : i = req[q].id /\ v = req[q].node /\ i # None => MadeFor(i, v)'
    BY <1>3, <2>1, <2>2, MadeForStays DEF Placed
  <2>4. Placed(req[q])'
    BY <1>1, <1>2, <2>1, <2>3 DEF Placed, stores
  <2>5. TrueLock(req[q].node, req[q].lock)'
    <3>1. \A v, lock : v = req[q].node /\ lock = req[q].lock => TrueLock(v, lock)'
      BY <1>1, <1>3, <2>1, <2>2, TrueLockStays DEF stores
    <3> QED
      BY <1>2, <3>1
  <2>6. Finished \subseteq Finished'
    BY <1>2 DEF Finished, At
  <2> QED
    BY <1>2, <2>1, <2>4, <2>5, <2>6 DEF SameAsk, Changing
<1>7. ASSUME NEW n \in lockNodes
      PROVE  /\ MadeFor(n.id, n.version)' /\ TrueLock(n.version, n.lock)'
             /\ HoldEnforced(n.version, n.lock)'
  BY <1>1, <1>3, <1>5, NodeFacts, MadeForStays, TrueLockStays DEF stores
<1>8. ASSUME NEW v \in Requests \cup {First} PROVE Kept(v)'
  <2> SUFFICES ASSUME ~Raced(v)'
               PROVE  /\ \A m, n \in NodesOf(v)' : m = n
                      /\ \A q \in Writers(v)' :
                           Unraced(req[q], v)' /\ (Acked(q)' => AsAsked(q, v)')
    BY DEF Kept
  <2>1. v # None /\ NodesOf(v)' = NodesOf(v)
    BY <1>1, IdsDiffer DEF NodesOf, stores
  <2>2. ~Raced(v)
    BY <1>3, <2>1, WritersStay
  <2>3. /\ \A m, n \in NodesOf(v) : m = n
        /\ \A q \in Writers(v) : Acked(q) => AsAsked(q, v)
    BY <2>2 DEF IInv, Kept
  <2>4. ASSUME NEW q \in Writers(v)'
        PROVE  Unraced(req[q], v)' /\ (Acked(q)' => AsAsked(q, v)')
    <3>1. q \in Requests /\ q \in Writers(v)
      BY <1>2 DEF Writers, Writes, SameAsk
    <3>2. Unraced(req[q], v)'
      BY <1>2, <3>1 DEF Unraced, Changing
    <3>3. ASSUME Acked(q)' PROVE AsAsked(q, v)'
      <4>1. NodesOf(v) # {} /\ \A n \in NodesOf(v) : LockedAsAsked(q, n.lock)
        BY <1>2, <2>3, <3>1, <3>3 DEF Acked, AsAsked
      <4>2. \A n \in NodesOf(v) : LockedAsAsked(q, n.lock)'
        BY <1>3, <2>1, <3>1, <4>1, LockedStays
      <4> QED
        BY <2>1, <4>1, <4>2 DEF AsAsked
    <3> QED
      BY <3>2, <3>3
  <2> QED
    BY <2>1, <2>3, <2>4
<1> QED
  BY <1>1, <1>2, <1>4, <1>6, <1>7, <1>8 DEF IInv, stores

---------------------------------------------------------------------------
LEMMA InitHolds == Init => IInv
<1> SUFFICES ASSUME Init PROVE IInv
  OBVIOUS
<1>1. /\ versions = <<First>> /\ lockNodes = {} /\ retObjs = {} /\ holdObjs = {}
      /\ req = [r \in Requests |-> Idle] /\ faults = 0
      /\ lockCache = [v \in Requests \cup {First, "latest"} |-> None]
  BY DEF Init
<1>2. Idle \in Request /\ Idle.res = "none"
  BY DEF Idle, Request, Lock, NoLock
<1>3. /\ Idle.pc = "idle" /\ Idle.op = "none" /\ Idle.node = None /\ Idle.id = None
      /\ Idle.lock = NoLock /\ Idle.until = 0 /\ Idle.hold = "none" /\ Idle.prior = {}
  BY DEF Idle
<1> HIDE DEF Idle
<1>4. versions \in Seq(Requests \cup {First}) /\ versions # <<>>
  BY <1>1
<1>5. TypeOK
  BY <1>1, <1>2, <1>4 DEF TypeOK
<1>6. ASSUME NEW r \in Requests
      PROVE  /\ AtStep(r, req[r]) /\ Placed(req[r]) /\ req[r].prior \subseteq Finished
             /\ TrueLock(req[r].node, req[r].lock) /\ req[r].pc \notin Changing
  <2>1. req[r] = Idle
    BY <1>1
  <2>2. AtStep(r, Idle)
    BY <1>2, <1>3 DEF AtStep
  <2>3. TrueLock(None, NoLock)
    BY DEF TrueLock, NoLock
  <2> QED
    BY <1>3, <2>1, <2>2, <2>3 DEF Placed, Changing
<1>7. \A v \in Requests \cup {First} : Kept(v)
  <2>1. \A v \in Requests \cup {First} : Writers(v) = {} /\ NodesOf(v) = {}
    BY <1>1, <1>3 DEF Writers, Writes, NodesOf
  <2> QED
    BY <2>1 DEF Kept
<1> QED
  BY <1>1, <1>5, <1>6, <1>7 DEF IInv

LEMMA StepKeeps == IInv /\ [Next]_vars => IInv'
<1> SUFFICES ASSUME IInv, [Next]_vars PROVE IInv'
  OBVIOUS
<1>1. CASE UNCHANGED vars
  <2>1. UNCHANGED <<stores, req, faults>> /\ lockCache' \in CacheType
    BY <1>1, Kinds DEF vars
  <2> QED
    BY <2>1, CacheStepKeeps
<1>2. ASSUME NEW r \in Requests, BeginStep(r) PROVE IInv'
  BY <1>2, BeginStepKeeps
<1>3. ASSUME NEW r \in Requests, RequestStep(r) PROVE IInv'
  BY <1>3, AddVersionKeeps, FindVersionKeeps, GetLockKeeps, PutRetentionObjectKeeps,
     ChangeHoldKeeps, PutLockKeeps, CacheLockKeeps DEF RequestStep
<1>4. ASSUME NEW r \in Requests, CallFails(r) PROVE IInv'
  BY <1>4, CallFailsKeeps
<1>5. CASE Expire
  BY <1>5, ExpireKeeps
<1>6. CASE Crash
  BY <1>6, CrashKeeps
<1> QED
  BY <1>1, <1>2, <1>3, <1>4, <1>5, <1>6 DEF Next

(* The inductive invariant of the lock of a version.                       *)
THEOREM InvariantHolds == Spec => []IInv
<1> QED
  BY InitHolds, StepKeeps, PTL DEF Spec

(* Types: locks are data.LockInfo, a lock node lies below a version and is *)
(* one node, lock objects are of the requests that asked for them.         *)
THEOREM TypeCorrect == Spec => []TypeOK
<1>1. IInv => TypeOK
  BY DEF IInv
<1> QED
  BY <1>1, InvariantHolds, PTL

(* PutLockInfo (system_object.go:36-105): a lock that was acknowledged is  *)
(* lost only when two requests changed the version's lock at the same      *)
(* time; no failed call, lost reply, crash or expired cache entry does it. *)
THEOREM LocksKept == Spec => []LocksLostOnlyByRace
<1>1. IInv => LocksLostOnlyByRace
  <2> SUFFICES ASSUME IInv, NEW v \in ToSet(versions), ~Raced(v),
                      NEW r \in Writers(v), Acked(r)
               PROVE  /\ Cardinality(NodesOf(v)) = 1
                      /\ \A n \in NodesOf(v) : LockedAsAsked(r, n.lock)
    BY DEF LocksLostOnlyByRace
  <2>1. v \in Requests \cup {First}
    BY Kinds
  <2>2. (\A m, n \in NodesOf(v) : m = n) /\ AsAsked(r, v)
    BY <2>1 DEF IInv, Kept
  <2>3. PICK n : NodesOf(v) = {n}
    BY <2>2 DEF AsAsked
  <2>4. Cardinality(NodesOf(v)) = 1
    BY <2>3, FS_Singleton
  <2> QED
    BY <2>2, <2>4 DEF AsAsked
<1> QED
  BY <1>1, InvariantHolds, PTL

(* PutLockInfo and putLockObject (system_object.go:36-133): what a lock    *)
(* node says of a version is enforced by lock objects in FrostFS, unless a *)
(* request that resets the legal hold was cut short or raced another.      *)
THEOREM ReportedHolds == Spec => []ReportedIsEnforced
<1>1. IInv => ReportedIsEnforced
  BY NodeFacts DEF ReportedIsEnforced, TrueLock, HoldEnforced, Resetting
<1> QED
  BY <1>1, InvariantHolds, PTL
---------------------------------------------------------------------------
(* The lock cache, when requests come one at a time *)

(* What a step never changes of a request that has begun.                  *)
GoesOn(x, y) ==
  /\ x.op = y.op /\ x.vid = y.vid /\ x.prior = y.prior
  /\ y.node # None => x.node = y.node
  /\ x.pc # "idle"

(* A step of all requests after which every one that began goes on, and    *)
(* what has failed stays so.                                               *)
AllGoOn ==
  \A q \in Requests : ~At(q, "idle") =>
    /\ GoesOn(req'[q], req[q])
    /\ req[q].res \in {"error", "crashed"} => req'[q].res \in {"error", "crashed"}

LEMMA SerialBefore ==
  ASSUME AllGoOn, Serial'
  PROVE  Serial
<1> SUFFICES ASSUME NEW q \in Requests, NEW r \in Requests,
                    ~At(q, "idle"), ~At(r, "idle"), q # r
             PROVE  ~Overlap(q, r)
  BY DEF Serial
<1>1. GoesOn(req'[q], req[q]) /\ GoesOn(req'[r], req[r])
  BY DEF AllGoOn
<1>2. ~At(q, "idle")' /\ ~At(r, "idle")'
  BY <1>1 DEF GoesOn, At
<1>3. ~Overlap(q, r)'
  BY <1>2 DEF Serial
<1> QED
  BY <1>1, <1>3 DEF Overlap, GoesOn

LEMMA OneActive ==
  ASSUME IInv, Serial, NEW r \in Requests, Active(r), NEW q \in Requests, q # r
  PROVE  ~Active(q)
<1>1. req[q].prior \subseteq Finished /\ req[r].prior \subseteq Finished
  BY RequestFacts
<1> QED
  BY <1>1 DEF Serial, Overlap, Active, At, Finished

(* The names under which locks are cached, and what they mean.             *)
LEMMA Names ==
  ASSUME IInv
  PROVE  /\ DOMAIN lockCache = Requests \cup {First, "latest"}
         /\ \A v \in DOMAIN lockCache : Meant(v) \in Requests \cup {First}
         /\ \A v \in Requests \cup {First} : Meant(v) = v /\ v # None
<1>1. lockCache \in CacheType /\ Latest \in Requests \cup {First}
  BY Kinds
<1>2. \A v \in Requests \cup {First} : v # "latest" /\ v # None
  BY LatestIsNoVersion, IdsDiffer
<1> QED
  BY <1>1, <1>2 DEF CacheType, Meant

LEMMA AliasedStays ==
  ASSUME IInv, AllGoOn, NEW v \in DOMAIN lockCache, Meant(v)' = Meant(v), Aliased(v)
  PROVE  Aliased(v)'
<1>1. PICK q \in Requests :
        /\ Writes(q) /\ Meant(v) \in {q, req[q].node}
        /\ req[q].vid # v \/ req[q].res \in {"error", "crashed"}
  BY DEF Aliased
<1>2. Meant(v) # None
  BY Names
<1>3. ~At(q, "idle")
  BY <1>1, RequestFacts DEF Writes, At, AtStep
<1>4. /\ GoesOn(req'[q], req[q])
      /\ req[q].res \in {"error", "crashed"} => req'[q].res \in {"error", "crashed"}
  BY <1>3 DEF AllGoOn
<1>5. Writes(q)' /\ Meant(v)' \in {q, req'[q].node}
  BY <1>1, <1>2, <1>4 DEF Writes, GoesOn
<1> QED
  BY <1>1, <1>4, <1>5 DEF Aliased, GoesOn

(* A step of the one active request.                                       *)
OneGoesOn(r, x) ==
  /\ Active(r) /\ req' = [req EXCEPT ![r] = x] /\ GoesOn(x, req[r])
  /\ x.pc # "done" => x.res = "none"

LEMMA OneOfAll ==
  ASSUME IInv, FreshInv, NEW r \in Requests, NEW x, OneGoesOn(r, x)
  PROVE  /\ AllGoOn
         /\ req'[r] = x /\ \A q \in Requests \ {r} : req'[q] = req[q]
<1>1. req'[r] = x /\ \A q \in Requests \ {r} : req'[q] = req[q]
  BY DEF OneGoesOn, IInv, TypeOK
<1>2. req[r].res = "none"
  BY DEF FreshInv, OneGoesOn
<1> QED
  BY <1>1, <1>2 DEF AllGoOn, OneGoesOn, GoesOn, At

(* What such a step must show for FreshInv to go on.                       *)
LEMMA FreshStep ==
  ASSUME IInv, FreshInv, NEW r \in Requests, NEW x, OneGoesOn(r, x),
         versions' = versions \/ (versions' = Append(versions, r) /\ x.op = "put"),
         DOMAIN lockCache' = DOMAIN lockCache,
         Serial =>
           /\ x.pc \in Changing \cup {"getlock", "cache"} => x.node = Meant(x.vid)'
           /\ x.pc = "cache" => x.lock \in Locks(x.node)'
           /\ \A v \in DOMAIN lockCache : CachedRight(v)'
  PROVE  FreshInv'
<1>1. AllGoOn /\ req'[r] = x /\ \A q \in Requests \ {r} : req'[q] = req[q]
  BY OneOfAll
<1>2. \A q \in Requests : req'[q].op = req[q].op /\ req'[q].vid = req[q].vid
  BY <1>1 DEF OneGoesOn, GoesOn
<1>3. \A q \in Requests : /\ req'[q].op = "put" => req'[q].vid = q
                          /\ Active(q)' => req'[q].res = "none"
  BY <1>1, <1>2 DEF FreshInv, OneGoesOn, Active
<1>4. ASSUME NEW v \in ToSet(versions)' \ {First} PROVE req'[v].op = "put"
  <2>1. v \in Requests
    <3>1. versions' \in Seq(Requests \cup {First})
      BY VersionsGrow
    <3> QED
      BY <3>1 DEF ToSet
  <2>2. CASE v \in ToSet(versions)
    BY <1>2, <2>1, <2>2 DEF FreshInv
  <2>3. CASE v \notin ToSet(versions)
    <3>1. versions \in Seq(Requests \cup {First})
      BY DEF IInv, TypeOK
    <3>2. versions' = Append(versions, r) /\ x.op = "put"
      BY <2>3
    <3>3. v = r
      BY <2>3, <3>1, <3>2, Appended
    <3> QED
      BY <1>1, <3>2, <3>3
  <2> QED
    BY <2>2, <2>3
<1>5. ASSUME Serial' PROVE /\ \A q \in Requests : MeansIt(q)'
                           /\ \A v \in DOMAIN lockCache' : CachedRight(v)'
  <2>1. Serial
    BY <1>1, <1>5, SerialBefore
  <2>2. ASSUME NEW q \in Requests, q # r PROVE MeansIt(q)'
    <3>1. ~Active(q) /\ req'[q] = req[q]
      BY <1>1, <2>1, <2>2, OneActive DEF OneGoesOn
    <3> QED
      BY <3>1 DEF MeansIt, Changing, Active, At
  <2>3. MeansIt(r)'
    BY <1>1, <2>1 DEF MeansIt, At
  <2> QED
    BY <2>1, <2>2, <2>3
<1> QED
  BY <1>3, <1>4, <1>5 DEF FreshInv

(* A step that concerns neither the entry v of the cache nor the lock it   *)
(* is about.                                                               *)
LEMMA CachedStays ==
  ASSUME IInv, FreshInv, Serial, NEW r \in Requests, NEW x, OneGoesOn(r, x),
         NEW v \in DOMAIN lockCache, ~(At(r, "cache") /\ req[r].vid = v),
         lockCache'[v] = lockCache[v], Meant(v)' = Meant(v),
         Locks(Meant(v))' = Locks(Meant(v))
  PROVE  CachedRight(v)'
<1>1. AllGoOn
  BY OneOfAll
<1>2. CachedRight(v)
  BY DEF FreshInv
<1>3. ASSUME NEW q \in Requests, At(q, "cache"), req[q].vid = v PROVE FALSE
  <2>1. Active(q) /\ Active(r)
    BY <1>3 DEF Active, At, OneGoesOn
  <2>2. q = r
    BY <2>1, OneActive
  <2> QED
    BY <1>3, <2>2
<1>4. CASE Aliased(v)
  BY <1>1, <1>4, AliasedStays DEF CachedRight
<1> QED
  BY <1>2, <1>3, <1>4 DEF CachedRight

LEMMA QuietFresh ==
  ASSUME IInv, FreshInv, NEW r \in Requests, NEW x, OneGoesOn(r, x), ~At(r, "cache"),
         UNCHANGED <<versions, lockNodes, lockCache>>,
         Serial =>
           /\ x.pc \in Changing \cup {"getlock", "cache"} => x.node = Meant(x.vid)
           /\ x.pc = "cache" => x.lock \in Locks(x.node)
  PROVE  FreshInv'
<1>1. \A v : Meant(v)' = Meant(v) /\ Locks(v)' = Locks(v)
  BY DEF Meant, Latest, Locks, NodesOf
<1>2. ASSUME NEW v PROVE Locks(Meant(v))' = Locks(Meant(v))
  BY DEF Meant, Latest, Locks, NodesOf
<1>3. Serial => \A v \in DOMAIN lockCache : CachedRight(v)'
  BY <1>1, <1>2, CachedStays
<1> QED
  BY <1>1, <1>3, FreshStep

LEMMA FreshByCallFails ==
  ASSUME IInv, FreshInv, NEW r \in Requests, CallFails(r)
  PROVE  FreshInv'
<1>1. PICK x : x = Done(r, "error")
  OBVIOUS
<1>2. /\ Active(r) /\ ~At(r, "cache") /\ req' = [req EXCEPT ![r] = x]
      /\ UNCHANGED <<stores, lockCache>>
  BY <1>1 DEF CallFails, Fault, Active, At
<1>3. SameAsk(x, req[r]) /\ x.pc = "done" /\ x.node = req[r].node
  BY <1>1, <1>2, DoneIsOk
<1>4. OneGoesOn(r, x)
  BY <1>2, <1>3 DEF OneGoesOn, GoesOn, SameAsk
<1> QED
  BY <1>2, <1>3, <1>4, QuietFresh DEF stores, Changing

LEMMA FreshByFindVersion ==
  ASSUME IInv, FreshInv, NEW r \in Requests, FindVersion(r)
  PROVE  FreshInv'
<1>1. PICK x : x = [req[r] EXCEPT !.pc = "getlock",
                      !.node = IF req[r].vid = "latest" THEN Latest ELSE req[r].vid]
  OBVIOUS
<1>2. /\ Active(r) /\ At(r, "find") /\ req' = [req EXCEPT ![r] = x]
      /\ UNCHANGED <<stores, lockCache>>
  BY <1>1 DEF FindVersion, Step, Active, At
<1>3. req[r] \in Request /\ req[r].node = None /\ req[r].res = "none"
  BY <1>2, RequestFacts DEF AtStep, At, FreshInv
<1>4. /\ x.op = req[r].op /\ x.vid = req[r].vid /\ x.prior = req[r].prior
      /\ x.pc = "getlock" /\ x.res = "none" /\ x.node = Meant(x.vid)
  BY <1>1, <1>3 DEF Request, Meant
<1>5. OneGoesOn(r, x)
  BY <1>2, <1>3, <1>4 DEF OneGoesOn, GoesOn
<1> QED
  BY <1>2, <1>4, <1>5, QuietFresh DEF stores, At

LEMMA FreshByGetLock ==
  ASSUME IInv, FreshInv, NEW r \in Requests, GetLock(r)
  PROVE  FreshInv'
<1>1. /\ Active(r) /\ At(r, "getlock") /\ ~At(r, "cache")
      /\ UNCHANGED <<stores, lockCache>>
  BY DEF GetLock, Active, At
<1>2. /\ req[r] \in Request /\ req[r].node # None /\ req[r].lock = NoLock
      /\ req[r].res = "none"
  BY <1>1, RequestFacts DEF AtStep, At, FreshInv
<1>3. PICK y : /\ req' = [req EXCEPT ![r] = AfterGetLock(y)] /\ y \in Request
               /\ SameAsk(y, req[r]) /\ y.pc = "getlock" /\ y.node = req[r].node
               /\ y.res = req[r].res /\ y.lock \in Locks(req[r].node)
  <2>1. CASE NodesOf(req[r].node) = {}
    BY <1>1, <1>2, <2>1 DEF GetLock, Step, SameAsk, At, Locks
  <2>2. CASE NodesOf(req[r].node) # {}
    <3>1. PICK n \in NodesOf(req[r].node) :
            req' = [req EXCEPT ![r] = AfterGetLock([req[r] EXCEPT !.id = n.id,
                                                                  !.lock = n.lock])]
      BY <2>2 DEF GetLock, Step
    <3>2. PICK y : y = [req[r] EXCEPT !.id = n.id, !.lock = n.lock]
      OBVIOUS
    <3>3. n.id \in Requests /\ n.lock \in Lock /\ n.lock \in Locks(req[r].node)
      BY <2>2, NodeFacts DEF NodesOf, Locks
    <3>4. [req[r] EXCEPT !.id = n.id] \in Request
      BY <1>2, <3>3, FieldTypes
    <3>5. [[req[r] EXCEPT !.id = n.id] EXCEPT !.lock = n.lock] \in Request
      BY <3>3, <3>4, FieldTypes
    <3>6. y \in Request
      BY <3>2, <3>5
    <3>7. /\ SameAsk(y, req[r]) /\ y.pc = "getlock" /\ y.node = req[r].node
          /\ y.res = req[r].res /\ y.lock = n.lock
      BY <1>1, <1>2, <3>2 DEF Request, SameAsk, At
    <3> QED
      BY <3>1, <3>2, <3>3, <3>6, <3>7
  <2> QED
    BY <2>1, <2>2
<1>4. PICK x : x = AfterGetLock(y)
  OBVIOUS
<1>5. /\ SameAsk(x, y) /\ x.node = y.node /\ x.lock = y.lock
      /\ x.pc \in Changing \cup {"cache", "done"}
  BY <1>1, <1>3, <1>4, AfterGetLockIsOk
<1>6. x.pc # "done" => x.res = "none"
  BY <1>2, <1>3, <1>4 DEF AfterGetLock, AfterRetention, Request
<1>7. OneGoesOn(r, x)
  BY <1>1, <1>3, <1>4, <1>5, <1>6 DEF OneGoesOn, GoesOn, SameAsk, Changing
<1>8. Serial => x.node = Meant(x.vid) /\ x.lock \in Locks(x.node)
  BY <1>1, <1>3, <1>5 DEF FreshInv, MeansIt, At, SameAsk
<1> QED
  BY <1>1, <1>7, <1>8, QuietFresh DEF stores

(* Putting a lock object changes neither the lock node nor the cache.      *)
LEMMA FreshByLockObject ==
  ASSUME IInv, FreshInv, NEW r \in Requests,
         PutRetentionObject(r) \/ ChangeHold(r)
  PROVE  FreshInv'
<1>1. /\ Active(r) /\ req[r].pc \in {"retention", "hold"} /\ ~At(r, "cache")
      /\ UNCHANGED <<versions, lockNodes, lockCache>>
  BY DEF PutRetentionObject, ChangeHold, Active, At
<1>2. req[r] \in Request /\ req[r].res = "none"
  BY <1>1, RequestFacts DEF FreshInv
<1>3. PICK x : /\ req' = [req EXCEPT ![r] = x]
               /\ \/ x = Done(r, "error")
                  \/ \E lock : LET y == [req[r] EXCEPT !.lock = lock]
                               IN \/ x = AfterRetention(y)
                                  \/ x = [y EXCEPT !.pc = "putlock"]
  <2>1. CASE PutRetentionObject(r)
    <3>1. PICK lock : lock = Retained(req[r], r)
      OBVIOUS
    <3>2. Replied(r, AfterRetention([req[r] EXCEPT !.lock = lock]))
      BY <2>1, <3>1 DEF PutRetentionObject
    <3> QED
      BY <3>2 DEF Replied, Step, Fault
  <2>2. CASE ChangeHold(r)
    <3>1. PICK id : Replied(r, [req[r] EXCEPT !.pc = "putlock", !.lock.hold = id])
      BY <2>2 DEF ChangeHold
    <3>2. PICK lock : lock = [req[r].lock EXCEPT !.hold = id]
      OBVIOUS
    <3>3. [req[r] EXCEPT !.pc = "putlock", !.lock.hold = id]
            = [[req[r] EXCEPT !.lock = lock] EXCEPT !.pc = "putlock"]
      BY <1>2, <3>2 DEF Request
    <3> QED
      BY <3>1, <3>3 DEF Replied, Step, Fault
  <2> QED
    BY <2>1, <2>2
<1>4. /\ SameAsk(x, req[r]) /\ x.node = req[r].node
      /\ x.pc \in {"hold", "putlock", "done"}
      /\ x.pc # "done" => x.res = "none"
  <2>1. CASE x = Done(r, "error")
    BY <1>1, <2>1, DoneIsOk
  <2>2. ASSUME NEW lock, NEW y, y = [req[r] EXCEPT !.lock = lock],
               \/ x = AfterRetention(y)
               \/ x = [y EXCEPT !.pc = "putlock"]
        PROVE  /\ SameAsk(x, req[r]) /\ x.node = req[r].node
               /\ x.pc \in {"hold", "putlock"} /\ x.res = "none"
    <3>1. /\ SameAsk(y, req[r]) /\ y.node = req[r].node /\ y.res = "none"
          /\ DOMAIN y = DOMAIN req[r] /\ "pc" \in DOMAIN y
      BY <1>2, <2>2 DEF SameAsk, Request
    <3>2. PICK p \in {"hold", "putlock"} : x = [y EXCEPT !.pc = p]
      BY <2>2 DEF AfterRetention
    <3> QED
      BY <3>1, <3>2 DEF SameAsk
  <2> QED
    BY <1>3, <2>1, <2>2
<1>5. OneGoesOn(r, x)
  BY <1>1, <1>3, <1>4 DEF OneGoesOn, GoesOn, SameAsk
<1>6. Serial => x.node = Meant(x.vid)
  BY <1>1, <1>4 DEF FreshInv, MeansIt, At, SameAsk, Changing
<1> QED
  BY <1>1, <1>4, <1>5, <1>6, QuietFresh

(* A new version is the latest, and its PUT names it by its id.            *)
LEMMA FreshByAddVersion ==
  ASSUME IInv, FreshInv, NEW r \in Requests, AddVersion(r)
  PROVE  FreshInv'
<1>1. /\ Active(r) /\ At(r, "add") /\ ~At(r, "cache")
      /\ versions' = Append(versions, r) /\ UNCHANGED <<lockNodes, lockCache>>
  BY DEF AddVersion, Active, At
<1>2. /\ req[r] \in Request /\ req[r].op = "put" /\ req[r].vid = r
      /\ req[r].node = None /\ req[r].res = "none"
  BY <1>1, RequestFacts DEF AtStep, At, FreshInv
<1>3. PICK x : /\ req' = [req EXCEPT ![r] = x]
               /\ \/ \E e \in {"ok", "error"} : x = Done(r, e)
                  \/ x = [req[r] EXCEPT !.pc = "getlock", !.node = r]
  BY DEF AddVersion, Replied, Step, Fault
<1>4. /\ SameAsk(x, req[r]) /\ x.pc \in {"getlock", "done"}
      /\ x.pc # "done" => x.res = "none" /\ x.node = r
  <2>1. ASSUME NEW e \in {"ok", "error"}, x = Done(r, e)
        PROVE  SameAsk(x, req[r]) /\ x.pc = "done"
    BY <1>1, <2>1, DoneIsOk
  <2>2. CASE x = [req[r] EXCEPT !.pc = "getlock", !.node = r]
    BY <1>2, <2>2 DEF SameAsk, Request
  <2> QED
    BY <1>3, <2>1, <2>2
<1>5. OneGoesOn(r, x)
  BY <1>1, <1>2, <1>3, <1>4 DEF OneGoesOn, GoesOn, SameAsk
<1>6. Latest' = r
  <2>1. versions \in Seq(Requests \cup {First})
    BY DEF IInv, TypeOK
  <2>2. Len(Append(versions, r)) = Len(versions) + 1
        /\ Append(versions, r)[Len(versions) + 1] = r
    BY <2>1
  <2> QED
    BY <1>1, <2>2 DEF Latest, Last
<1>7. req'[r] = x /\ r # "latest"
  BY <1>5, OneOfAll, LatestIsNoVersion
<1>8. CachedRight("latest")'
  <2>1. Writes(r)' /\ req'[r].vid # "latest" /\ Meant("latest")' = r
    BY <1>2, <1>4, <1>6, <1>7 DEF Writes, SameAsk, Meant
  <2> QED
    BY <2>1 DEF CachedRight, Aliased
<1>9. ASSUME Serial, NEW v \in DOMAIN lockCache PROVE CachedRight(v)'
  <2>1. CASE v # "latest"
    <3>1. Meant(v) = v /\ Meant(v)' = v
      BY <2>1 DEF Meant
    <3>2. Locks(Meant(v))' = Locks(Meant(v))
      BY <1>1, <2>1 DEF Meant, Locks, NodesOf
    <3> QED
      BY <1>1, <1>5, <1>9, <3>1, <3>2, CachedStays
  <2> QED
    BY <1>8, <2>1
<1>10. x.pc \in Changing \cup {"getlock", "cache"} => x.node = Meant(x.vid)'
  BY <1>2, <1>4, <1>7 DEF Meant, SameAsk, Changing
<1> QED
  BY <1>1, <1>2, <1>4, <1>5, <1>9, <1>10, FreshStep DEF SameAsk

LEMMA FreshByPutLock ==
  ASSUME IInv, FreshInv, NEW r \in Requests, PutLock(r)
  PROVE  FreshInv'
<1>0. PICK w, id : /\ w = req[r].node
                   /\ id = IF req[r].id = None THEN r ELSE req[r].id
  OBVIOUS
<1>1. /\ Active(r) /\ At(r, "putlock") /\ ~At(r, "cache")
      /\ lockNodes' = {n \in lockNodes : n.id # id} \cup
           {[id |-> id, version |-> w, lock |-> req[r].lock]}
      /\ UNCHANGED <<versions, lockCache>>
  BY <1>0 DEF PutLock, Active, At
<1>2. /\ req[r] \in Request /\ w # None /\ req[r].op \notin {"none", "get"}
      /\ Placed(req[r]) /\ req[r].res = "none"
  BY <1>0, <1>1, RequestFacts DEF AtStep, At, FreshInv
<1>3. PICK x : /\ req' = [req EXCEPT ![r] = x]
               /\ x = Done(r, "error") \/ x = To(r, "cache")
  BY DEF PutLock, Replied, Step, Fault
<1>4. /\ SameAsk(x, req[r]) /\ x.node = w /\ x.lock = req[r].lock
      /\ \/ x.pc = "done" /\ x.res = "error"
         \/ x.pc = "cache" /\ x.res = "none"
  <2>1. CASE x = Done(r, "error")
    BY <1>0, <1>1, <2>1, DoneIsOk
  <2>2. CASE x = To(r, "cache")
    BY <1>0, <1>2, <2>2 DEF SameAsk, Request, To
  <2> QED
    BY <1>3, <2>1, <2>2
<1>5. OneGoesOn(r, x)
  BY <1>0, <1>1, <1>3, <1>4 DEF OneGoesOn, GoesOn, SameAsk
<1>6. req'[r] = x
  BY <1>5, OneOfAll
<1>7. Writes(r)'
  BY <1>2, <1>4, <1>6 DEF Writes, SameAsk, Request
<1>8. \A v : Meant(v)' = Meant(v)
  BY <1>1 DEF Meant, Latest
<1>9. ASSUME NEW v, v # w PROVE NodesOf(v)' = NodesOf(v)
  <2>1. ASSUME NEW n \in lockNodes, n.id = id PROVE n.version = w
    <3>1. MadeFor(n.id, n.version)
      BY NodeFacts
    <3>2. CASE req[r].id = None
      BY <1>0, <1>1, <2>1, <3>1, <3>2 DEF MadeFor
    <3>3. CASE req[r].id # None
      BY <1>0, <1>2, <2>1, <3>1, <3>3 DEF MadeFor, Placed
    <3> QED
      BY <3>2, <3>3
  <2> QED
    BY <1>1, <1>9, <2>1 DEF NodesOf
<1>10. ASSUME Serial, NEW v \in DOMAIN lockCache PROVE CachedRight(v)'
  <2>1. CASE Meant(v) = w
    <3>1. Meant(v)' \in {r, req'[r].node}
      BY <1>4, <1>6, <1>8, <2>1
    <3>2. CASE req[r].vid = v /\ x.pc = "cache"
      BY <1>4, <1>6, <1>7, <3>2 DEF CachedRight, At, SameAsk
    <3>3. CASE req[r].vid # v \/ x.res = "error"
      <4>1. Aliased(v)'
        BY <1>4, <1>6, <1>7, <3>1, <3>3 DEF Aliased, SameAsk
      <4> QED
        BY <4>1 DEF CachedRight
    <3> QED
      BY <1>4, <3>2, <3>3
  <2>2. CASE Meant(v) # w
    <3>1. PICK m : m = Meant(v)
      OBVIOUS
    <3>2. Locks(m)' = Locks(m)
      BY <1>9, <2>2, <3>1 DEF Locks
    <3>3. Locks(Meant(v))' = Locks(Meant(v))
      BY <1>8, <3>1, <3>2 DEF Locks, NodesOf
    <3> QED
      BY <1>1, <1>5, <1>8, <1>10, <3>3, CachedStays
  <2> QED
    BY <2>1, <2>2
<1>11. x.lock \in Locks(x.node)'
  <2>1. PICK n : n = [id |-> id, version |-> w, lock |-> req[r].lock]
    OBVIOUS
  <2>2. n \in lockNodes' /\ n.version = w /\ n.lock = x.lock
    BY <1>1, <1>4, <2>1
  <2> QED
    BY <1>4, <2>2 DEF Locks, NodesOf
<1>12. Serial => x.node = Meant(x.vid)'
  BY <1>0, <1>1, <1>4, <1>8 DEF FreshInv, MeansIt, At, SameAsk, Changing
<1> QED
  BY <1>1, <1>5, <1>10, <1>11, <1>12, FreshStep

LEMMA FreshByCacheLock ==
  ASSUME IInv, FreshInv, NEW r \in Requests, CacheLock(r)
  PROVE  FreshInv'
<1>1. PICK x : x = Done(r, "ok")
  OBVIOUS
<1>2. /\ Active(r) /\ At(r, "cache") /\ req' = [req EXCEPT ![r] = x]
      /\ lockCache' = [lockCache EXCEPT ![req[r].vid] = req[r].lock]
      /\ UNCHANGED stores
  BY <1>1 DEF CacheLock, Step, Active, At
<1>3. SameAsk(x, req[r]) /\ x.pc = "done" /\ x.node = req[r].node
  BY <1>1, <1>2, DoneIsOk
<1>4. OneGoesOn(r, x)
  BY <1>2, <1>3 DEF OneGoesOn, GoesOn, SameAsk
<1>5. ASSUME Serial, NEW v \in DOMAIN lockCache PROVE CachedRight(v)'
  <2>1. Meant(v)' = Meant(v) /\ Locks(Meant(v))' = Locks(Meant(v))
    BY <1>2 DEF Meant, Latest, Locks, NodesOf, stores
  <2>2. CASE v = req[r].vid
    <3>1. lockCache'[v] = req[r].lock /\ req[r].lock \in Locks(Meant(v))
      BY <1>2, <1>5, <2>2 DEF FreshInv, MeansIt, At
    <3> QED
      BY <2>1, <3>1 DEF CachedRight
  <2>3. CASE v # req[r].vid
    <3>1. lockCache'[v] = lockCache[v]
      BY <1>2, <2>3
    <3> QED
      BY <1>4, <1>5, <2>1, <2>3, <3>1, CachedStays
  <2> QED
    BY <2>2, <2>3
<1> QED
  BY <1>2, <1>3, <1>4, <1>5, FreshStep DEF stores, Changing

(* A change of the requests, or of the cache, that leaves no lock other    *)
(* than it was and nobody at the cache who was not there.                  *)
LEMMA OthersFresh ==
  ASSUME IInv, FreshInv, AllGoOn, UNCHANGED stores,
         DOMAIN lockCache' = DOMAIN lockCache,
         \A v \in DOMAIN lockCache :
           lockCache'[v] = None \/ (lockCache'[v] = lockCache[v] /\
             \A q \in Requests : At(q, "cache") => req'[q] = req[q]),
         \A q \in Requests :
           /\ req'[q].op = "put" => req'[q].vid = q
           /\ Active(q)' => req'[q].res = "none"
           /\ \/ req'[q] = req[q]
              \/ req'[q].pc \in {"add", "find", "done"}
  PROVE  FreshInv'
<1>1. /\ \A v : Meant(v)' = Meant(v) /\ Locks(v)' = Locks(v)
      /\ \A v : Locks(Meant(v))' = Locks(Meant(v))
  BY DEF Meant, Latest, Locks, NodesOf, stores
<1>2. \A q \in Requests : /\ req'[q].op = "put" => req'[q].vid = q
                          /\ Active(q)' => req'[q].res = "none"
  OBVIOUS
<1>3. ASSUME NEW v \in ToSet(versions)' \ {First} PROVE req'[v].op = "put"
  <2>1. v \in ToSet(versions) /\ v \in Requests /\ req[v].op = "put"
    BY <1>3, Kinds DEF stores, FreshInv, ToSet
  <2>2. ~At(v, "idle")
    BY <2>1, RequestFacts DEF At, AtStep
  <2> QED
    BY <2>1, <2>2 DEF AllGoOn, GoesOn
<1>4. ASSUME Serial' PROVE /\ \A q \in Requests : MeansIt(q)'
                           /\ \A v \in DOMAIN lockCache' : CachedRight(v)'
  <2>1. /\ \A q \in Requests : MeansIt(q)
        /\ \A v \in DOMAIN lockCache : CachedRight(v)
    BY <1>4, SerialBefore DEF FreshInv
  <2>2. ASSUME NEW q \in Requests PROVE MeansIt(q)'
    <3>1. CASE req'[q] = req[q]
      BY <1>1, <2>1, <3>1 DEF MeansIt, At
    <3>2. CASE req'[q].pc \in {"add", "find", "done"}
      BY <3>2 DEF MeansIt, At, Changing
    <3> QED
      BY <3>1, <3>2
  <2>3. ASSUME NEW v \in DOMAIN lockCache PROVE CachedRight(v)'
    <3>1. CASE lockCache'[v] = None
      BY <3>1 DEF CachedRight
    <3>2. CASE lockCache'[v] # None
      <4>1. CASE Aliased(v)
        BY <1>1, <4>1, AliasedStays DEF CachedRight
      <4>2. ASSUME NEW q \in Requests, At(q, "cache"), Writes(q), req[q].vid = v
            PROVE  CachedRight(v)'
        <5>1. At(q, "cache")' /\ Writes(q)' /\ req'[q].vid = v
          BY <3>2, <4>2 DEF At, Writes
        <5> QED
          BY <5>1 DEF CachedRight
      <4>3. CASE lockCache[v] \in Locks(Meant(v)) \cup {None}
        BY <1>1, <3>2, <4>3 DEF CachedRight
      <4> QED
        BY <2>1, <4>1, <4>2, <4>3 DEF CachedRight
    <3> QED
      BY <3>1, <3>2
  <2> QED
    BY <2>2, <2>3
<1> QED
  BY <1>2, <1>3, <1>4 DEF FreshInv

LEMMA FreshByBegin ==
  ASSUME IInv, FreshInv, NEW r \in Requests, BeginStep(r)
  PROVE  FreshInv'
<1>1. PICK asked, p :
        /\ Begin(r, asked, p) /\ asked \in Request /\ p \in {"add", "find", "done"}
        /\ asked.op = "put" => asked.vid = r
        /\ asked.res = "none" \/ p = "done"
  <2>1. Idle \in Request
    BY DEF Idle, Request, Lock, NoLock
  <2>2. Named \subseteq Requests \cup {First, "latest"} /\ Dates \subseteq Nat \ {0}
    BY Kinds, DatesArePositive DEF Named
  <2>3. CASE BeginPut(r)
    <3>1. PICK d \in Dates \cup {0}, c \in BOOLEAN, h \in {"none", "on"} :
            Begin(r, [Idle EXCEPT !.op = "put", !.vid = r, !.until = d,
                                  !.compliance = c, !.hold = h], "add")
      BY <2>3 DEF BeginPut
    <3>2. PICK asked : asked = [Idle EXCEPT !.op = "put", !.vid = r, !.until = d,
                                            !.compliance = c, !.hold = h]
      OBVIOUS
    <3>3. asked \in Request /\ asked.vid = r /\ asked.res = "none"
      BY <2>2, <3>2 DEF Idle, Request, Lock, NoLock
    <3> QED
      BY <3>1, <3>2, <3>3
  <2>4. CASE BeginRetain(r)
    <3>1. PICK v \in Named, d \in Dates, c \in BOOLEAN, b \in BOOLEAN :
            Begin(r, [Idle EXCEPT !.op = "retain", !.vid = v, !.until = d,
                                  !.compliance = c, !.bypass = b], "find")
      BY <2>4 DEF BeginRetain
    <3>2. PICK asked : asked = [Idle EXCEPT !.op = "retain", !.vid = v, !.until = d,
                                            !.compliance = c, !.bypass = b]
      OBVIOUS
    <3>3. asked \in Request /\ asked.op = "retain" /\ asked.res = "none"
      BY <2>2, <3>2 DEF Idle, Request, Lock, NoLock
    <3> QED
      BY <3>1, <3>2, <3>3
  <2>5. CASE BeginHold(r)
    <3>1. PICK v \in Named, h \in {"on", "off"} :
            Begin(r, [Idle EXCEPT !.op = "hold", !.vid = v, !.hold = h], "find")
      BY <2>5 DEF BeginHold
    <3>2. PICK asked : asked = [Idle EXCEPT !.op = "hold", !.vid = v, !.hold = h]
      OBVIOUS
    <3>3. asked \in Request /\ asked.op = "hold" /\ asked.res = "none"
      BY <2>2, <3>2 DEF Idle, Request, Lock, NoLock
    <3> QED
      BY <3>1, <3>2, <3>3
  <2>6. CASE BeginGet(r)
    <3>1. PICK v \in Named :
            \/ Begin(r, [[Idle EXCEPT !.op = "get", !.vid = v] EXCEPT !.res = "ok"], "done")
            \/ Begin(r, [Idle EXCEPT !.op = "get", !.vid = v], "find")
      BY <2>6 DEF BeginGet
    <3>2. PICK asked : asked = [Idle EXCEPT !.op = "get", !.vid = v]
      OBVIOUS
    <3>3. asked \in Request /\ asked.op = "get" /\ asked.res = "none"
      BY <2>2, <3>2 DEF Idle, Request, Lock, NoLock
    <3>4. PICK hit : hit = [asked EXCEPT !.res = "ok"]
      OBVIOUS
    <3>5. hit \in Request /\ hit.op = "get"
      BY <3>3, <3>4 DEF Request
    <3>6. Begin(r, hit, "done") \/ Begin(r, asked, "find")
      BY <3>1, <3>2, <3>4
    <3> QED
      BY <3>3, <3>5, <3>6
  <2> QED
    BY <2>3, <2>4, <2>5, <2>6 DEF BeginStep
<1>2. PICK x : x = [asked EXCEPT !.pc = p, !.prior = Finished]
  OBVIOUS
<1>3. /\ At(r, "idle") /\ req' = [req EXCEPT ![r] = x] /\ UNCHANGED <<stores, lockCache>>
  BY <1>1, <1>2 DEF Begin, Step
<1>4. /\ x.pc = p /\ x.op = asked.op /\ x.vid = asked.vid /\ x.res = asked.res
  BY <1>1, <1>2 DEF Request
<1>5. req'[r] = x /\ \A q \in Requests \ {r} : req'[q] = req[q]
  BY <1>3 DEF IInv, TypeOK
<1>6. AllGoOn
  BY <1>3, <1>5 DEF AllGoOn, GoesOn, At
<1>7. \A v \in DOMAIN lockCache :
        /\ lockCache'[v] = lockCache[v]
        /\ \A q \in Requests : At(q, "cache") => req'[q] = req[q]
  BY <1>3, <1>5 DEF At
<1>8. ASSUME NEW q \in Requests
      PROVE  /\ req'[q].op = "put" => req'[q].vid = q
             /\ Active(q)' => req'[q].res = "none"
             /\ \/ req'[q] = req[q]
                \/ req'[q].pc \in {"add", "find", "done"}
  BY <1>1, <1>4, <1>5 DEF FreshInv, Active
<1> QED
  BY <1>3, <1>6, <1>7, <1>8, OthersFresh

LEMMA FreshByExpire ==
  ASSUME IInv, FreshInv, Expire
  PROVE  FreshInv'
<1>1. /\ DOMAIN lockCache' = DOMAIN lockCache
      /\ \A v \in DOMAIN lockCache : lockCache'[v] \in {None, lockCache[v]}
      /\ UNCHANGED stores /\ req' = req
  BY DEF Expire
<1>2. AllGoOn
  BY <1>1 DEF AllGoOn, GoesOn, At
<1>3. \A q \in Requests : /\ req'[q].op = "put" => req'[q].vid = q
                          /\ Active(q)' => req'[q].res = "none"
  BY <1>1 DEF FreshInv, Active
<1> QED
  BY <1>1, <1>2, <1>3, OthersFresh

LEMMA FreshByCrash ==
  ASSUME IInv, FreshInv, Crash
  PROVE  FreshInv'
<1>1. /\ req' = [r \in Requests |-> IF Active(r) THEN Done(r, "crashed") ELSE req[r]]
      /\ lockCache' = [v \in DOMAIN lockCache |-> None] /\ UNCHANGED stores
  BY DEF Crash
<1>2. ASSUME NEW q \in Requests
      PROVE  /\ ~At(q, "idle") => GoesOn(req'[q], req[q])
             /\ req[q].res \in {"error", "crashed"} =>
                  req'[q].res \in {"error", "crashed"}
             /\ req'[q].op = "put" => req'[q].vid = q
             /\ Active(q)' => req'[q].res = "none"
             /\ \/ req'[q] = req[q]
                \/ req'[q].pc = "done"
  <2>1. CASE Active(q)
    <3>1. /\ SameAsk(Done(q, "crashed"), req[q]) /\ Done(q, "crashed").pc = "done"
          /\ Done(q, "crashed").res = "crashed"
          /\ Done(q, "crashed").node = req[q].node
      BY <2>1, DoneIsOk
    <3>2. req'[q] = Done(q, "crashed")
      BY <1>1, <2>1
    <3>3. req[q].op = "put" => req[q].vid = q
      BY DEF FreshInv
    <3> QED
      BY <3>1, <3>2, <3>3 DEF GoesOn, SameAsk, Active
  <2>2. CASE ~Active(q)
    <3>1. req'[q] = req[q]
      BY <1>1, <2>2
    <3> QED
      BY <2>2, <3>1 DEF GoesOn, FreshInv, Active, At
  <2> QED
    BY <2>1, <2>2
<1>3. AllGoOn
  BY <1>2 DEF AllGoOn
<1>4. /\ DOMAIN lockCache' = DOMAIN lockCache
      /\ \A v \in DOMAIN lockCache : lockCache'[v] = None
  BY <1>1
<1> QED
  BY <1>1, <1>2, <1>3, <1>4, OthersFresh

LEMMA FreshByStep ==
  ASSUME IInv, FreshInv, [Next]_vars
  PROVE  FreshInv'
<1>1. CASE UNCHANGED vars
  <2>1. UNCHANGED stores /\ UNCHANGED lockCache /\ UNCHANGED req
    BY <1>1 DEF vars
  <2>2. AllGoOn
    BY <2>1 DEF AllGoOn, GoesOn, At
  <2>3. \A q \in Requests : /\ req'[q].op = "put" => req'[q].vid = q
                            /\ Active(q)' => req'[q].res = "none"
    BY <2>1 DEF FreshInv, Active
  <2> QED
    BY <2>1, <2>2, <2>3, OthersFresh
<1>2. ASSUME NEW r \in Requests, BeginStep(r) PROVE FreshInv'
  BY <1>2, FreshByBegin
<1>3. ASSUME NEW r \in Requests, RequestStep(r) PROVE FreshInv'
  BY <1>3, FreshByAddVersion, FreshByFindVersion, FreshByGetLock, FreshByLockObject,
     FreshByPutLock, FreshByCacheLock DEF RequestStep
<1>4. ASSUME NEW r \in Requests, CallFails(r) PROVE FreshInv'
  BY <1>4, FreshByCallFails
<1>5. CASE Expire
  BY <1>5, FreshByExpire
<1>6. CASE Crash
  BY <1>6, FreshByCrash
<1> QED
  BY <1>1, <1>2, <1>3, <1>4, <1>5, <1>6 DEF Next

(* While requests come one at a time, each handler works on the version    *)
(* its client named, and caches that version's lock.                       *)
THEOREM FreshInvariantHolds == Spec => []FreshInv
<1>1. Init => FreshInv
  <2> SUFFICES ASSUME Init PROVE FreshInv
    OBVIOUS
  <2>1. /\ versions = <<First>> /\ req = [r \in Requests |-> Idle]
        /\ lockCache = [v \in Requests \cup {First, "latest"} |-> None]
    BY DEF Init
  <2>2. /\ Idle.pc = "idle" /\ Idle.op = "none" /\ Idle.res = "none"
    BY DEF Idle
  <2>3. ToSet(versions) \subseteq {First}
    BY <2>1 DEF ToSet
  <2>4. \A v \in DOMAIN lockCache : CachedRight(v)
    BY <2>1 DEF CachedRight
  <2>5. \A r \in Requests : MeansIt(r)
    BY <2>1, <2>2 DEF MeansIt, At, Changing
  <2> QED
    BY <2>1, <2>2, <2>3, <2>4, <2>5 DEF FreshInv, Active
<1>2. IInv /\ FreshInv /\ [Next]_vars => FreshInv'
  BY FreshByStep
<1> QED
  BY <1>1, <1>2, InvariantHolds, PTL DEF Spec

(* GetLockInfo and PutLockInfo (system_object.go:190-235): of requests one *)
(* at a time, only a change under another name of the version or a failed  *)
(* one leaves a stale lock in the cache.                                   *)
THEOREM StaleLocksAreAliases == Spec => []StaleLockOnlyByAlias
<1>1. FreshInv => StaleLockOnlyByAlias
  <2> SUFFICES ASSUME FreshInv, \A r \in Requests : ~Active(r),
                      \A q, r \in Finished : q = r \/ ~Overlap(q, r),
                      NEW v \in DOMAIN lockCache
               PROVE  lockCache[v] \in Locks(Meant(v)) \cup {None} \/ Aliased(v)
    BY DEF StaleLockOnlyByAlias
  <2>1. \A q \in Requests : ~At(q, "idle") => q \in Finished
    BY DEF Active, At, Finished
  <2>2. Serial
    BY <2>1 DEF Serial
  <2>3. CachedRight(v)
    BY <2>2 DEF FreshInv
  <2> QED
    BY <2>3 DEF CachedRight, Active, At
<1> QED
  BY <1>1, FreshInvariantHolds, PTL
=============================================================================
