--------------------------- MODULE Tagging_proofs ---------------------------
(***************************************************************************)
(* Proofs about Tagging, for any requests, sets of tags, number of         *)
(* requests in flight and of failures.                                     *)
(***************************************************************************)
EXTENDS Tagging, TLAPS

---------------------------------------------------------------------------
(* What the invariant says of one thing *)

LEMMA RequestFacts ==
  ASSUME IInv, NEW r \in Requests
  PROVE  /\ req[r] \in Request /\ AtStep(r, req[r]) /\ Placed(req[r])
         /\ req[r].prior \subseteq Finished
BY DEF IInv, TypeOK

LEMMA TagFacts ==
  ASSUME IInv, NEW t \in tagNodes
  PROVE  /\ t \in TagNode /\ TagPlaced(t) /\ t.node \in Ids
         /\ t.id \in Requests /\ t.by \in Requests /\ t.node # None
<1>1. t \in TagNode /\ TagPlaced(t) /\ t.node \in Ids
  BY DEF IInv, TypeOK, Ids
<1> QED
  BY <1>1 DEF TagNode, IInv, ConstantsDiffer

LEMMA NodeFacts ==
  ASSUME IInv
  PROVE  /\ \A n \in ToSet(nodes) : n \in Node /\ Pair(n.id, n.oid) /\ n.id \in Ids
         /\ Last(nodes) \in ToSet(nodes)
         /\ \A m, n \in ToSet(nodes) : m.id = n.id => m = n
         /\ Ids \subseteq Objects /\ None \notin Ids
<1>1. nodes \in Seq(Node) /\ Len(nodes) > 0 /\ (~versioned => Len(nodes) = 1)
  BY DEF IInv, TypeOK
<1>2. \A n \in ToSet(nodes) : n \in Node /\ Pair(n.id, n.oid) /\ n.id \in Ids
  BY <1>1 DEF ToSet, IInv, Ids
<1>3. Last(nodes) \in ToSet(nodes)
  BY <1>1 DEF Last, ToSet
<1>4. ASSUME NEW m \in ToSet(nodes), NEW n \in ToSet(nodes), m.id = n.id PROVE m = n
  <2>1. CASE versioned
    <3>1. m.oid = n.oid
      BY <1>2, <1>4, <2>1 DEF Pair
    <3>2. m \in Node /\ n \in Node
      BY <1>2
    <3> QED
      BY <1>4, <3>1, <3>2 DEF Node
  <2>2. CASE ~versioned
    <3>1. DOMAIN nodes = 1 .. 1
      BY <1>1, <2>2
    <3> QED
      BY <3>1 DEF ToSet
  <2> QED
    BY <2>1, <2>2
<1>5. Ids \subseteq Objects
  BY <1>2 DEF Ids, Node
<1>6. None \notin Ids
  BY <1>5 DEF IInv, ConstantsDiffer
<1> QED
  BY <1>2, <1>3, <1>4, <1>5, <1>6

LEMMA OidFacts ==
  ASSUME IInv, NEW n \in ToSet(nodes)
  PROVE  OidOf(n.id) = n.oid
<1>1. \A m \in ToSet(nodes) : m.id = n.id => m = n
  BY NodeFacts
<1> QED
  BY <1>1 DEF OidOf

(* The id of a version that is known has a node.                           *)
LEMMA PairFacts ==
  ASSUME IInv, NEW id, NEW oid, Pair(id, oid)
  PROVE  id \in Ids /\ oid \in Objects /\ id # None /\ oid # None
<1>1. PICK n \in ToSet(nodes) : Pair(n.id, oid)
  BY DEF IInv, Pair
<1>2. n.id = id
  BY <1>1 DEF Pair
<1>3. oid \in Objects
  BY DEF Pair, Known, Objects
<1> QED
  BY <1>2, <1>3, NodeFacts DEF IInv, ConstantsDiffer

LEMMA PlaceFacts ==
  ASSUME IInv, NEW r \in Requests, req[r].node # None
  PROVE  /\ req[r].node \in Ids /\ req[r].oid \in Known /\ req[r].oid \in Objects
         /\ Pair(req[r].node, req[r].oid)
<1>1. Pair(req[r].node, req[r].oid)
  BY RequestFacts DEF Placed
<1> QED
  BY <1>1, PairFacts DEF Pair

(* A record like y, but that it is done.                                   *)
LEMMA DoneIs ==
  ASSUME NEW y \in Request, NEW e \in {"ok", "error", "missing", "crashed"}
  PROVE  /\ Done(y, e) \in Request
         /\ Done(y, e).pc = "done" /\ Done(y, e).res = e
         /\ Done(y, e).op = y.op /\ Done(y, e).vid = y.vid /\ Done(y, e).tags = y.tags
         /\ Done(y, e).node = y.node /\ Done(y, e).oid = y.oid /\ Done(y, e).below = y.below
         /\ Done(y, e).got = y.got /\ Done(y, e).alias = y.alias /\ Done(y, e).prior = y.prior
<1>1. PICK z : z = [y EXCEPT !.pc = "done"]
  OBVIOUS
<1>2. z \in Request
  BY <1>1 DEF Request
<1>3. Done(y, e) = [z EXCEPT !.res = e]
  BY <1>1 DEF Done, Request
<1>4. Done(y, e) \in Request
  BY <1>2, <1>3 DEF Request
<1> QED
  BY <1>1, <1>2, <1>3, <1>4 DEF Request

LEMMA DoneAtStep ==
  ASSUME NEW r, NEW y \in Request, AtStep(r, y), y.pc # "idle",
         NEW e \in {"ok", "error", "missing", "crashed"}
  PROVE  AtStep(r, Done(y, e))
<1>1. PICK z : z = Done(y, e)
  OBVIOUS
<1>2. /\ z.pc = "done" /\ z.res = e /\ z.op = y.op /\ z.tags = y.tags /\ z.node = y.node
      /\ z.oid = y.oid /\ z.below = y.below /\ z.got = y.got /\ (z.alias <=> y.alias)
  BY <1>1, DoneIs
<1>3. AtStep(r, z)
  BY <1>2 DEF AtStep
<1> QED
  BY <1>1, <1>3
---------------------------------------------------------------------------
(* What no step changes *)

Lasts ==
  /\ versioned' = versioned
  /\ \A q \in Requests :
       /\ req[q].node # None =>
            /\ req'[q].node = req[q].node /\ req'[q].oid = req[q].oid
            /\ req'[q].op = req[q].op /\ req'[q].tags = req[q].tags
            /\ (req'[q].alias <=> req[q].alias) /\ req'[q].prior = req[q].prior
       /\ At(q, "done") => req'[q] = req[q]

LEMMA KnownStays ==
  ASSUME Lasts
  PROVE  /\ Known \subseteq Known' /\ Finished \subseteq Finished'
         /\ \A id, oid : Pair(id, oid) => Pair(id, oid)'
<1>1. Known \subseteq Known' /\ Finished \subseteq Finished'
  BY DEF Lasts, Known, Finished, At
<1> QED
  BY <1>1 DEF Pair, Lasts

LEMMA PlacedStays ==
  ASSUME IInv, Lasts, NEW r, NEW x \in Request, AtStep(r, x), Placed(x)
  PROVE  Placed(x)'
<1>1. x.node # None => Pair(x.node, x.oid)'
  BY KnownStays DEF Placed
<1>2. x.vid \in Known' \cup {"latest"}
  BY KnownStays DEF Placed
<1>3. x.below # None => req'[x.below].node = x.node
  <2> SUFFICES ASSUME x.below # None PROVE req'[x.below].node = x.node
    OBVIOUS
  <2>1. x.node # None /\ req[x.below].node = x.node
    BY DEF AtStep, Placed
  <2>2. x.below \in Requests
    BY DEF Request
  <2> QED
    BY <2>1, <2>2 DEF Lasts
<1> QED
  BY <1>1, <1>2, <1>3 DEF Placed

LEMMA TagPlacedStays ==
  ASSUME IInv, Lasts, NEW t \in tagNodes
  PROVE  TagPlaced(t)'
BY TagFacts DEF Lasts, TagPlaced

LEMMA WritersStay ==
  ASSUME IInv, Lasts, NEW n \in Ids
  PROVE  Writers(n) \subseteq Writers(n)' /\ (Calm(n)' => Calm(n))
<1>1. Writers(n) \subseteq Writers(n)'
  BY NodeFacts DEF Lasts, Writers, Writes
<1>2. ASSUME Calm(n)', NEW q \in Writers(n), NEW r \in Writers(n), q # r
      PROVE  ~Overlap(q, r)
  <2>1. ~Overlap(q, r)'
    BY <1>1, <1>2 DEF Calm
  <2>2. /\ q \in Requests /\ req[q].node # None
        /\ r \in Requests /\ req[r].node # None
    BY NodeFacts DEF Writers
  <2> QED
    BY <2>1, <2>2 DEF Overlap, Lasts
<1> QED
  BY <1>1, <1>2 DEF Calm

(* Nothing about the tags below n changes.                                 *)
LEMMA KeptByOthers ==
  ASSUME IInv, Lasts, NEW n \in Ids, Writers(n)' = Writers(n),
         \A q \in Writers(n) : req'[q] = req[q],
         TagsBelow(n)' = TagsBelow(n), OidOf(n)' = OidOf(n)
  PROVE  Kept(n)'
<1> SUFFICES ASSUME Calm(n)' PROVE Kept(n)'
  BY DEF Kept
<1>1. Calm(n) /\ Kept(n)
  BY WritersStay DEF IInv
<1>2. \A t \in TagsBelow(n) : t.node = n /\ t.by \in Writers(n)
  <2> SUFFICES ASSUME NEW t \in TagsBelow(n) PROVE t.node = n /\ t.by \in Writers(n)
    OBVIOUS
  <2>1. t \in tagNodes /\ t.node = n
    BY DEF TagsBelow
  <2> QED
    BY <2>1, TagFacts DEF TagPlaced, Writers, Writes
<1>3. ASSUME NEW t \in TagsBelow(n) PROVE Fits(t)'
  <2>1. Fits(t) /\ t.node = n /\ req'[t.by] = req[t.by]
    BY <1>1, <1>2, <1>3 DEF Kept
  <2> QED
    BY <2>1 DEF Fits, Acked
<1>4. ASSUME NEW q \in Writers(n) PROVE /\ Active(q)' => Sees(q, req[q], n)'
                                        /\ Acked(q)' /\ Writers(n) \ {q} \subseteq req'[q].prior
                                             => Stands(q, req[q], n)'
  <2>1. /\ Active(q) => Sees(q, req[q], n)
        /\ Acked(q) /\ Writers(n) \ {q} \subseteq req[q].prior => Stands(q, req[q], n)
    BY <1>1 DEF Kept
  <2>2. PICK x : x = req[q]
    OBVIOUS
  <2> QED
    BY <2>1 DEF Sees, Stands, Active, Acked
<1> QED
  BY <1>1, <1>3, <1>4 DEF Kept
---------------------------------------------------------------------------
(* A step of one request *)

(* A request with record y goes on with record x.                          *)
GoesOn(x, y) ==
  /\ y.pc \notin {"idle", "done"} /\ x.pc # "idle"
  /\ x.op = y.op /\ x.vid = y.vid /\ x.tags = y.tags /\ x.prior = y.prior
  /\ y.node # None => x.node = y.node /\ x.oid = y.oid /\ (x.alias <=> y.alias)

(* x is y, or y cut short by a lost reply.                                 *)
Variant(x, y) ==
  /\ x \in Request
  /\ x = y \/ (x.pc = "done" /\ x.res = "error")
  /\ x.op = y.op /\ x.vid = y.vid /\ x.tags = y.tags /\ x.prior = y.prior
  /\ x.node = y.node /\ x.oid = y.oid /\ x.below = y.below /\ (x.alias <=> y.alias)

Moves(r, x) ==
  /\ req' \in [Requests -> Request] /\ faults' \in Nat
  /\ req'[r] = x /\ \A q \in Requests \ {r} : req'[q] = req[q]

LEMMA OneMoves ==
  ASSUME IInv, NEW r \in Requests, NEW y \in Request, AtStep(r, y), GoesOn(y, req[r]),
         Replied(r, y), versioned' = versioned
  PROVE  /\ Lasts /\ Active(r)
         /\ \E x : Variant(x, y) /\ AtStep(r, x) /\ GoesOn(x, req[r]) /\ Moves(r, x)
<1>1. req \in [Requests -> Request] /\ faults \in Nat
  BY DEF IInv, TypeOK
<1>2. PICK x : /\ x \in {y, Done(y, "error")}
               /\ req' = [req EXCEPT ![r] = x] /\ faults' \in Nat
  BY <1>1 DEF Replied, Step, Fault
<1>3. Variant(x, y) /\ AtStep(r, x)
  <2>1. CASE x = y
    BY <2>1 DEF Variant
  <2>2. CASE x = Done(y, "error")
    <3>1. AtStep(r, x)
      BY <2>2, DoneAtStep DEF GoesOn
    <3>2. Variant(x, y)
      BY <2>2, DoneIs DEF Variant
    <3> QED
      BY <3>1, <3>2
  <2> QED
    BY <1>2, <2>1, <2>2
<1>4. GoesOn(x, req[r])
  BY <1>3 DEF Variant, GoesOn
<1>5. Moves(r, x)
  BY <1>1, <1>2, <1>3 DEF Moves, Variant
<1>6. Lasts
  <2>1. \A q \in Requests \ {r} : req'[q] = req[q]
    BY <1>5 DEF Moves
  <2>2. req'[r] = x /\ ~At(r, "done")
    BY <1>4, <1>5 DEF Moves, GoesOn, At
  <2> QED
    BY <1>4, <2>1, <2>2 DEF Lasts, GoesOn
<1> QED
  BY <1>3, <1>4, <1>5, <1>6 DEF GoesOn, Active

(* While r changes the tags below n, and nobody else, the others that did  *)
(* are done, and were before r began.                                      *)
LEMMA OthersAreDone ==
  ASSUME IInv, NEW r \in Requests, NEW x, GoesOn(x, req[r]), Moves(r, x),
         NEW n, r \in Writers(n)', Calm(n)', NEW q \in Writers(n)', q # r
  PROVE  /\ q \in Writers(n) /\ q \in Requests /\ req'[q] = req[q]
         /\ At(q, "done") /\ r \notin req[q].prior
<1>1. q \in Requests /\ req'[q] = req[q] /\ req'[r].prior = req[r].prior
  BY DEF Writers, Moves, GoesOn
<1>2. q \in Writers(n)
  BY <1>1 DEF Writers, Writes
<1>3. r \notin Finished /\ req[q].prior \subseteq Finished /\ req[r].prior \subseteq Finished
  BY <1>1, RequestFacts DEF GoesOn, Finished
<1>4. ~Overlap(q, r)'
  BY DEF Calm
<1>5. q \in req[r].prior /\ r \notin req[q].prior
  BY <1>1, <1>3, <1>4 DEF Overlap
<1> QED
  BY <1>1, <1>2, <1>3, <1>5 DEF Finished, At

LEMMA KeptByTurn ==
  ASSUME IInv, NEW r \in Requests, NEW x, GoesOn(x, req[r]), Moves(r, x),
         NEW n, r \in Writers(n)',
         Calm(n)' => /\ \A s, t \in TagsBelow(n)' : s = t
                     /\ \A t \in TagsBelow(n)' : Fits(t)'
                     /\ x.pc # "done" => Sees(r, x, n)'
                     /\ x.res = "ok" => Stands(r, x, n)'
  PROVE  Kept(n)'
<1> SUFFICES ASSUME Calm(n)' PROVE Kept(n)'
  BY DEF Kept
<1>1. req'[r] = x
  BY DEF Moves
<1>2. (Active(r)' => Sees(r, req[r], n)') /\ (Acked(r)' => Stands(r, req[r], n)')
  BY <1>1 DEF Active, Acked, Sees, Stands
<1>3. ASSUME NEW q \in Writers(n)', q # r
      PROVE  ~Active(q)' /\ ~(Writers(n)' \ {q} \subseteq req'[q].prior)
  <2>1. At(q, "done") /\ req'[q] = req[q] /\ r \notin req'[q].prior
    BY <1>3, OthersAreDone
  <2>2. ~Active(q)'
    BY <2>1 DEF At, Active
  <2> QED
    BY <1>3, <2>1, <2>2
<1> QED
  BY <1>2, <1>3 DEF Kept

(* What a step of r with y must show for the node n that it works on.      *)
Turn(r, y, n) ==
  /\ \A s, t \in TagsBelow(n)' : s = t
  /\ \A t \in TagsBelow(n)' : t \in TagsBelow(n) \/ Fits(t)'
  /\ y.pc # "done" => Sees(r, y, n)'
  /\ y.res = "ok" => Stands(r, y, n)'

LEMMA KeptByStep ==
  ASSUME IInv, NEW r \in Requests, NEW y, NEW x, Lasts, Variant(x, y), GoesOn(x, req[r]),
         Moves(r, x), UNCHANGED nodes, NEW n \in Ids, y.node = n,
         r \in Writers(n)', Calm(n) => Turn(r, y, n)
  PROVE  Kept(n)'
<1> SUFFICES ASSUME Calm(n)'
             PROVE  /\ \A s, t \in TagsBelow(n)' : s = t
                    /\ \A t \in TagsBelow(n)' : Fits(t)'
                    /\ x.pc # "done" => Sees(r, x, n)'
                    /\ x.res = "ok" => Stands(r, x, n)'
  BY KeptByTurn
<1>1. Calm(n) /\ Turn(r, y, n) /\ Kept(n)
  BY WritersStay DEF IInv
<1>2. /\ \A s, t \in TagsBelow(n)' : s = t
      /\ x.pc # "done" => Sees(r, x, n)'
      /\ x.res = "ok" => Stands(r, x, n)'
  BY <1>1 DEF Turn, Variant
<1>3. ASSUME NEW t \in TagsBelow(n)', t \in TagsBelow(n) PROVE Fits(t)'
  <2>1. t \in tagNodes /\ t.node = n
    BY <1>3 DEF TagsBelow
  <2>2. Fits(t) /\ t.by \in Requests /\ req[t.by].node = n /\ n # None
    BY <1>1, <1>3, <2>1, TagFacts DEF Kept, TagPlaced
  <2>3. CASE t.of = OidOf(n) \/ req[t.by].alias
    BY <2>1, <2>2, <2>3 DEF Fits, OidOf, Lasts
  <2>4. ASSUME NEW q \in Writers(n), q # t.by, req[q].op = "put", ~Acked(q)
        PROVE  Fits(t)'
    <3>1. q \in Writers(n)' /\ q \in Requests /\ req'[q].op = "put"
      BY <2>4, <2>2, WritersStay DEF Lasts, Writers
    <3>2. CASE ~Acked(q)'
      BY <2>1, <2>4, <3>1, <3>2 DEF Fits
    <3>3. CASE Acked(q)'
      <4>1. q = r /\ x.res = "ok"
        BY <2>4, <3>1, <3>3 DEF Acked, Moves
      <4>2. t.by = r
        BY <1>2, <1>3, <4>1 DEF Stands
      <4> QED
        BY <2>4, <4>1, <4>2
    <3> QED
      BY <3>2, <3>3
  <2> QED
    BY <2>1, <2>2, <2>3, <2>4 DEF Fits
<1> QED
  BY <1>1, <1>2, <1>3 DEF Turn

LEMMA KnownAsBefore ==
  ASSUME IInv, NEW r \in Requests, NEW x, AtStep(r, x), Placed(x), Moves(r, x)
  PROVE  Known' \subseteq Known
<1> SUFFICES ASSUME NEW o \in Requests, req'[o].op = "put", req'[o].node # None
             PROVE  o \in Known
  BY DEF Known
<1>1. CASE o = r
  <2>1. x.oid = r /\ Pair(x.node, x.oid)
    BY <1>1 DEF Moves, AtStep, Placed
  <2> QED
    BY <1>1, <2>1 DEF Pair
<1>2. CASE o # r
  BY <1>2 DEF Moves, Known
<1> QED
  BY <1>1, <1>2

(* A step of a request that makes no version.                              *)
LEMMA TagStep ==
  ASSUME IInv, NEW r \in Requests, NEW y \in Request, AtStep(r, y), Placed(y),
         GoesOn(y, req[r]), Replied(r, y), UNCHANGED <<versioned, nodes>>,
         \A t \in tagNodes' :
           t \in tagNodes \/ (t \in TagNode /\ t.node \in Ids /\ TagPlaced(t)'),
         \A s, t \in tagNodes' : s.id = t.id => s = t,
         tagCache' \in [Objects -> TagSets \cup {None}],
         nodeCache' \in [Objects -> Objects \cup {None}],
         \A o \in Objects : /\ tagCache'[o] = tagCache[o] \/ o \in Known
                            /\ nodeCache'[o] = nodeCache[o] \/ Pair(nodeCache'[o], o),
         \A n \in Ids :
           IF y.node = n /\ y.op \in {"put", "tag", "untag"} THEN Calm(n) => Turn(r, y, n)
           ELSE TagsBelow(n)' = TagsBelow(n)
  PROVE  IInv'
<1>1. Lasts /\ Active(r)
  BY OneMoves
<1>2. PICK x : Variant(x, y) /\ AtStep(r, x) /\ GoesOn(x, req[r]) /\ Moves(r, x)
  BY OneMoves
<1>3. Placed(x)
  BY <1>2 DEF Variant, Placed
<1>4. Known' = Known /\ Finished \subseteq Finished' /\ Ids' = Ids
  BY <1>1, <1>2, <1>3, KnownAsBefore, KnownStays DEF Ids
<1>5. \A id, oid : Pair(id, oid)' <=> Pair(id, oid)
  BY <1>4 DEF Pair
<1>6. TypeOK'
  <2>1. versioned' \in BOOLEAN /\ nodes' \in Seq(Node) /\ nodes' # <<>>
        /\ (~versioned' => Len(nodes') = 1)
    BY DEF IInv, TypeOK
  <2>2. \A t \in tagNodes' : t \in TagNode /\ t.node \in Ids
    BY TagFacts
  <2>3. \A t \in tagNodes' : \E n \in ToSet(nodes)' : n.id = t.node
    BY <2>2 DEF Ids
  <2>4. req' \in [Requests -> Request] /\ faults' \in Nat
    BY <1>2 DEF Moves
  <2> QED
    BY <2>1, <2>2, <2>3, <2>4 DEF TypeOK
<1>7. /\ \A n \in ToSet(nodes)' : Pair(n.id, n.oid)'
      /\ \A o \in Known' : \E n \in ToSet(nodes)' : Pair(n.id, o)'
  BY <1>4, <1>5 DEF IInv
<1>8. ASSUME NEW q \in Requests
      PROVE  AtStep(q, req[q])' /\ Placed(req[q])' /\ req'[q].prior \subseteq Finished'
  <2>1. PICK z : z = req'[q]
    OBVIOUS
  <2>2. z \in Request /\ AtStep(q, z) /\ Placed(z) /\ z.prior \subseteq Finished
    <3>1. CASE q = r
      BY <1>2, <1>3, <2>1, <3>1, RequestFacts DEF Moves, Variant, GoesOn
    <3>2. CASE q # r
      BY <1>2, <2>1, <3>2, RequestFacts DEF Moves
    <3> QED
      BY <3>1, <3>2
  <2>3. Placed(z)'
    BY <1>1, <2>2, PlacedStays
  <2>4. AtStep(q, z)'
    BY <2>2 DEF AtStep
  <2> QED
    BY <1>4, <2>1, <2>2, <2>3, <2>4 DEF AtStep, Placed
<1>9. \A t \in tagNodes' : TagPlaced(t)'
  BY <1>1, TagPlacedStays
<1>10. \A o \in Objects : /\ tagCache'[o] # None => o \in Known'
                          /\ nodeCache'[o] # None => Pair(nodeCache[o], o)'
  <2> SUFFICES ASSUME NEW o \in Objects
               PROVE  /\ tagCache'[o] # None => o \in Known'
                      /\ nodeCache'[o] # None => Pair(nodeCache[o], o)'
    OBVIOUS
  <2>1. tagCache'[o] # None => o \in Known'
    BY <1>4 DEF IInv
  <2>2. nodeCache'[o] # None => Pair(nodeCache'[o], o)
    BY DEF IInv
  <2> QED
    BY <1>4, <2>1, <2>2 DEF Pair
<1>11. ASSUME NEW n \in Ids' PROVE Kept(n)'
  <2>1. n \in Ids /\ n # None
    BY <1>4, NodeFacts
  <2>2. CASE y.node = n /\ y.op \in {"put", "tag", "untag"}
    <3>1. r \in Writers(n)'
      BY <1>2, <2>2 DEF Writers, Writes, Moves, Variant
    <3> QED
      BY <1>1, <1>2, <2>1, <2>2, <3>1, KeptByStep
  <2>3. CASE ~(y.node = n /\ y.op \in {"put", "tag", "untag"})
    <3>1. r \notin Writers(n)' /\ r \notin Writers(n)
      BY <1>2, <2>1, <2>3 DEF Writers, Writes, Moves, Variant, GoesOn
    <3>2. Writers(n)' = Writers(n) /\ \A q \in Writers(n) : req'[q] = req[q]
      BY <1>2, <3>1 DEF Writers, Writes, Moves
    <3>3. OidOf(n)' = OidOf(n) /\ TagsBelow(n)' = TagsBelow(n)
      BY <2>1, <2>3 DEF OidOf
    <3> QED
      BY <1>1, <2>1, <3>2, <3>3, KeptByOthers
  <2> QED
    BY <2>2, <2>3
<1> QED
  BY <1>6, <1>7, <1>8, <1>9, <1>10, <1>11 DEF IInv, ConstantsDiffer

(* A step that leaves the tags as they are.                                *)
LEMMA QuietStep ==
  ASSUME IInv, NEW r \in Requests, NEW y \in Request, AtStep(r, y), Placed(y),
         GoesOn(y, req[r]), Replied(r, y), UNCHANGED stores,
         tagCache' \in [Objects -> TagSets \cup {None}],
         nodeCache' \in [Objects -> Objects \cup {None}],
         \A o \in Objects : /\ tagCache'[o] = tagCache[o] \/ o \in Known
                            /\ nodeCache'[o] = nodeCache[o] \/ Pair(nodeCache'[o], o),
         \A n \in Ids :
           y.node = n /\ y.op \in {"put", "tag", "untag"} /\ Calm(n) =>
             /\ y.pc # "done" => Sees(r, y, n)
             /\ y.res = "ok" => Stands(r, y, n)
  PROVE  IInv'
<1>1. UNCHANGED <<versioned, nodes, tagNodes>>
  BY DEF stores
<1>2. \A n : TagsBelow(n)' = TagsBelow(n) /\ OidOf(n)' = OidOf(n)
  BY <1>1 DEF TagsBelow, OidOf
<1>3. ASSUME NEW n \in Ids, y.node = n, y.op \in {"put", "tag", "untag"}, Calm(n)
      PROVE  Turn(r, y, n)
  <2>1. \A s, t \in TagsBelow(n) : s = t
    BY <1>3 DEF IInv, Kept
  <2>2. /\ y.pc # "done" => Sees(r, y, n)'
        /\ y.res = "ok" => Stands(r, y, n)'
    BY <1>2, <1>3 DEF Sees, Stands
  <2> QED
    BY <1>2, <2>1, <2>2 DEF Turn
<1>4. \A s, t \in tagNodes : s.id = t.id => s = t
  BY DEF IInv, TypeOK
<1> QED
  BY <1>1, <1>2, <1>3, <1>4, TagStep
---------------------------------------------------------------------------
(* The steps of a request, one by one *)

(* What the invariant says of a request that works on the tags of a node.  *)
LEMMA WriterFacts ==
  ASSUME IInv, NEW r \in Requests, Active(r), Writes(r), req[r].node # None,
         Calm(req[r].node)
  PROVE  /\ Sees(r, req[r], req[r].node)
         /\ \A s, t \in TagsBelow(req[r].node) : s = t
<1>1. PICK n : n = req[r].node
  OBVIOUS
<1>2. n \in Ids /\ r \in Writers(n)
  BY <1>1, PlaceFacts DEF Writers
<1> QED
  BY <1>1, <1>2 DEF IInv, Kept

(* A tag node that a request found is below the node it works on.          *)
LEMMA BelowFacts ==
  ASSUME IInv, NEW r \in Requests, NEW t \in tagNodes, t.id = req[r].below
  PROVE  t.node = req[r].node
<1>1. req[r].below # None
  BY TagFacts DEF IInv, ConstantsDiffer, Objects
<1> QED
  BY <1>1, TagFacts, RequestFacts DEF Placed, TagPlaced

LEMMA CachesAreTyped ==
  ASSUME IInv
  PROVE  /\ tagCache \in [Objects -> TagSets \cup {None}]
         /\ nodeCache \in [Objects -> Objects \cup {None}]
         /\ \A s, t \in tagNodes : s.id = t.id => s = t
BY DEF IInv, TypeOK

LEMMA FindOutdatedKeeps ==
  ASSUME IInv, NEW r \in Requests, FindOutdated(r)
  PROVE  IInv'
<1>1. /\ At(r, "findold") /\ Active(r) /\ req[r] \in Request /\ AtStep(r, req[r])
      /\ Placed(req[r]) /\ UNCHANGED <<stores, caches>>
  BY RequestFacts DEF FindOutdated, Active, At
<1>2. req[r].op = "put" /\ req[r].node # None /\ Writes(r)
  BY <1>1 DEF AtStep, At, Writes
<1>3. CASE TagsBelow(req[r].node) = {} /\ Step(r, [req[r] EXCEPT !.pc = "cacheobj"])
  <2>1. PICK y : y = [req[r] EXCEPT !.pc = "cacheobj"]
    OBVIOUS
  <2>2. y \in Request /\ AtStep(r, y) /\ Placed(y) /\ GoesOn(y, req[r]) /\ Replied(r, y)
    BY <1>1, <1>2, <1>3, <2>1 DEF Request, AtStep, Placed, GoesOn, Replied, At
  <2>3. ASSUME NEW n \in Ids, y.node = n, Calm(n)
        PROVE  Sees(r, y, n) /\ y.res # "ok"
    BY <1>1, <1>2, <1>3, <2>1, <2>3, WriterFacts DEF Sees, Request, AtStep, At
  <2> QED
    BY <1>1, <2>2, <2>3, CachesAreTyped, QuietStep DEF caches
<1>4. ASSUME NEW t \in TagsBelow(req[r].node),
             Step(r, [req[r] EXCEPT !.pc = "clear", !.below = t.id])
      PROVE  IInv'
  <2>1. PICK z : z = [req[r] EXCEPT !.pc = "clear"]
    OBVIOUS
  <2>2. PICK y : y = [z EXCEPT !.below = t.id]
    OBVIOUS
  <2>3. t \in tagNodes /\ t.node = req[r].node /\ t.id \in Requests /\ t.id # None
        /\ req[t.id].node = t.node
    BY TagFacts DEF TagsBelow, TagPlaced, IInv, ConstantsDiffer, Objects
  <2>4. z \in Request
    BY <1>1, <2>1 DEF Request
  <2>5. y \in Request /\ Step(r, y)
    <3>1. y = [req[r] EXCEPT !.pc = "clear", !.below = t.id]
      BY <1>1, <2>1, <2>2 DEF Request
    <3>2. y \in Request
      BY <2>2, <2>3, <2>4 DEF Request
    <3> QED
      BY <1>4, <3>1, <3>2
  <2>6. AtStep(r, y) /\ Placed(y) /\ GoesOn(y, req[r]) /\ Replied(r, y)
    BY <1>1, <1>2, <2>1, <2>2, <2>3, <2>4, <2>5 DEF Request, AtStep, Placed, GoesOn, Replied, At
  <2>7. ASSUME NEW n \in Ids, y.node = n, Calm(n)
        PROVE  Sees(r, y, n) /\ y.res # "ok"
    <3>1. y.node = req[r].node /\ y.pc = "clear" /\ y.below = t.id /\ y.oid = req[r].oid
          /\ (y.alias <=> req[r].alias) /\ y.res = req[r].res
      BY <1>1, <2>1, <2>2 DEF Request
    <3> QED
      BY <1>1, <1>2, <1>4, <2>7, <3>1, WriterFacts DEF Sees, AtStep, At
  <2> QED
    BY <1>1, <2>5, <2>6, <2>7, CachesAreTyped, QuietStep DEF caches
<1> QED
  BY <1>3, <1>4 DEF FindOutdated

(* The record y of r once it has removed the tag node that it found.       *)
HasRemoved(r, y) ==
  /\ y \in Request /\ AtStep(r, y) /\ Placed(y) /\ GoesOn(y, req[r]) /\ Replied(r, y)
  /\ y.pc \in {"cacheobj", "drop"}

LEMMA TagsRemoved ==
  ASSUME IInv, NEW r \in Requests, ClearOutdated(r) \/ RemoveTags(r)
  PROVE  \E y : HasRemoved(r, y)
<1>1. CASE ClearOutdated(r)
  <2>1. /\ At(r, "clear") /\ req[r] \in Request /\ AtStep(r, req[r]) /\ Placed(req[r])
    BY <1>1, RequestFacts DEF ClearOutdated
  <2>2. PICK z : z = [req[r] EXCEPT !.pc = "cacheobj"]
    OBVIOUS
  <2>3. PICK y : y = [z EXCEPT !.below = None]
    OBVIOUS
  <2>4. z \in Request
    BY <2>1, <2>2 DEF Request
  <2>5. y \in Request /\ Replied(r, y)
    <3>1. y = [req[r] EXCEPT !.pc = "cacheobj", !.below = None]
      BY <2>1, <2>2, <2>3 DEF Request
    <3>2. y \in Request
      BY <2>3, <2>4 DEF Request
    <3> QED
      BY <1>1, <3>1, <3>2 DEF ClearOutdated
  <2>6. /\ y.op = req[r].op /\ y.vid = req[r].vid /\ y.tags = req[r].tags /\ y.prior = req[r].prior
        /\ y.node = req[r].node /\ y.oid = req[r].oid /\ (y.alias <=> req[r].alias)
        /\ y.pc = "cacheobj" /\ y.below = None /\ y.res = req[r].res /\ y.got = req[r].got
    BY <2>1, <2>2, <2>3 DEF Request
  <2>7. AtStep(r, y) /\ Placed(y) /\ GoesOn(y, req[r])
    BY <2>1, <2>6 DEF AtStep, Placed, GoesOn, At
  <2> QED
    BY <2>5, <2>6, <2>7 DEF HasRemoved
<1>2. CASE RemoveTags(r)
  <2>1. /\ At(r, "remove") /\ req[r] \in Request /\ AtStep(r, req[r]) /\ Placed(req[r])
    BY <1>2, RequestFacts DEF RemoveTags
  <2>2. PICK y : y = [req[r] EXCEPT !.pc = "drop"]
    OBVIOUS
  <2>3. y \in Request /\ Replied(r, y)
    BY <1>2, <2>1, <2>2 DEF Request, RemoveTags
  <2>4. /\ y.op = req[r].op /\ y.vid = req[r].vid /\ y.tags = req[r].tags /\ y.prior = req[r].prior
        /\ y.node = req[r].node /\ y.oid = req[r].oid /\ (y.alias <=> req[r].alias)
        /\ y.pc = "drop" /\ y.below = req[r].below /\ y.res = req[r].res /\ y.got = req[r].got
    BY <2>1, <2>2 DEF Request
  <2>5. AtStep(r, y) /\ Placed(y) /\ GoesOn(y, req[r])
    BY <2>1, <2>4 DEF AtStep, Placed, GoesOn, At
  <2> QED
    BY <2>3, <2>4, <2>5 DEF HasRemoved
<1> QED
  BY <1>1, <1>2

LEMMA RemovedBelow ==
  ASSUME IInv, NEW r \in Requests, ClearOutdated(r) \/ RemoveTags(r)
  PROVE  /\ tagNodes' = {t \in tagNodes : t.id # req[r].below}
         /\ \A m : m # req[r].node => TagsBelow(m)' = TagsBelow(m)
<1>1. tagNodes' = {t \in tagNodes : t.id # req[r].below}
  BY DEF ClearOutdated, RemoveTags
<1>2. ASSUME NEW m, m # req[r].node PROVE TagsBelow(m)' = TagsBelow(m)
  <2>1. \A t \in tagNodes : t.id = req[r].below => t.node # m
    BY <1>2, BelowFacts
  <2> QED
    BY <1>1, <2>1 DEF TagsBelow
<1> QED
  BY <1>1, <1>2

LEMMA RemoveKeeps ==
  ASSUME IInv, NEW r \in Requests, ClearOutdated(r) \/ RemoveTags(r)
  PROVE  IInv'
<1>1. PICK y : HasRemoved(r, y)
  BY TagsRemoved
<1>2. PICK n : n = req[r].node
  OBVIOUS
<1>3. /\ req[r].pc \in {"clear", "remove"} /\ Active(r) /\ Writes(r) /\ n # None
      /\ UNCHANGED <<versioned, nodes, caches>>
  BY <1>2, RequestFacts DEF ClearOutdated, RemoveTags, Active, Writes, AtStep, At
<1>4. /\ y.node = n /\ y.oid = req[r].oid /\ (y.alias <=> req[r].alias) /\ y.res = "none"
      /\ y.op \in {"put", "tag", "untag"} /\ (y.pc = "drop" => y.tags = None)
  BY <1>1, <1>2, <1>3 DEF HasRemoved, GoesOn, AtStep, Writes
<1>5. ASSUME Calm(n) PROVE Turn(r, y, n)
  <2>1. Sees(r, req[r], n)
    BY <1>2, <1>3, <1>5, WriterFacts
  <2>2. TagsBelow(n)' = {}
    BY <1>3, <2>1, RemovedBelow DEF Sees, TagsBelow
  <2>3. Sees(r, y, n)'
    BY <1>1, <1>3, <1>4, <2>1, <2>2 DEF Sees, Stands, OidOf, HasRemoved
  <2> QED
    BY <1>4, <2>2, <2>3 DEF Turn
<1>6. \A t \in tagNodes' : t \in tagNodes
  BY RemovedBelow
<1>7. \A m \in Ids :
        IF y.node = m /\ y.op \in {"put", "tag", "untag"} THEN Calm(m) => Turn(r, y, m)
        ELSE TagsBelow(m)' = TagsBelow(m)
  BY <1>2, <1>4, <1>5, RemovedBelow
<1> QED
  BY <1>1, <1>3, <1>6, <1>7, CachesAreTyped, TagStep DEF HasRemoved, caches

LEMMA CacheObjectKeeps ==
  ASSUME IInv, NEW r \in Requests, CacheObject(r)
  PROVE  IInv'
<1>1. /\ At(r, "cacheobj") /\ Active(r) /\ req[r] \in Request /\ AtStep(r, req[r])
      /\ Placed(req[r]) /\ UNCHANGED <<stores, tagCache>>
      /\ nodeCache' = [nodeCache EXCEPT ![r] = req[r].node]
  BY RequestFacts DEF CacheObject, Active, At
<1>2. req[r].op = "put" /\ req[r].node # None /\ Writes(r) /\ req[r].oid = r
  BY <1>1 DEF AtStep, At, Writes
<1>3. Pair(req[r].node, r) /\ req[r].node \in Objects /\ r \in Objects
  BY <1>2, PlaceFacts, NodeFacts DEF Objects
<1>4. /\ nodeCache' \in [Objects -> Objects \cup {None}]
      /\ \A o \in Objects : nodeCache'[o] = nodeCache[o] \/ Pair(nodeCache'[o], o)
  BY <1>1, <1>3, CachesAreTyped
<1>5. PICK y : y = IF req[r].tags = None THEN Done(req[r], "ok")
                   ELSE [req[r] EXCEPT !.pc = "read"]
  OBVIOUS
<1>6. /\ y \in Request /\ AtStep(r, y) /\ y.node = req[r].node /\ y.oid = req[r].oid
      /\ (y.alias <=> req[r].alias) /\ y.tags = req[r].tags /\ y.below = req[r].below
      /\ y.vid = req[r].vid /\ y.op = req[r].op /\ y.prior = req[r].prior
      /\ IF req[r].tags = None THEN y.pc = "done" ELSE y.pc = "read" /\ y.res = "none"
  <2>1. CASE req[r].tags = None
    <3>1. y = Done(req[r], "ok")
      BY <1>5, <2>1
    <3>2. AtStep(r, y)
      BY <1>1, <3>1, DoneAtStep DEF At
    <3> QED
      BY <1>1, <2>1, <3>1, <3>2, DoneIs
  <2>2. CASE req[r].tags # None
    BY <1>1, <1>2, <1>5, <2>2 DEF Request, AtStep, At
  <2> QED
    BY <2>1, <2>2
<1>7. Placed(y) /\ GoesOn(y, req[r]) /\ Replied(r, y)
  BY <1>1, <1>5, <1>6 DEF Placed, GoesOn, CacheObject, Replied, At
<1>8. ASSUME NEW n \in Ids, y.node = n, Calm(n)
      PROVE  /\ y.pc # "done" => Sees(r, y, n)
             /\ y.res = "ok" => Stands(r, y, n)
  <2>1. Sees(r, req[r], n)
    BY <1>1, <1>2, <1>6, <1>8, WriterFacts
  <2>2. TagsBelow(n) = {}
    BY <1>1, <2>1 DEF Sees, At
  <2> QED
    BY <1>6, <2>1, <2>2 DEF Sees, Stands
<1> QED
  BY <1>1, <1>4, <1>6, <1>7, <1>8, CachesAreTyped, QuietStep

(* A cached answer, and any step of a GET that leaves its node alone.      *)
LEMMA CachedKeeps ==
  ASSUME IInv, NEW r \in Requests, Cached(r)
  PROVE  IInv'
<1>1. /\ At(r, "find") /\ req[r].op = "get" /\ req[r].vid # "latest"
      /\ req[r] \in Request /\ AtStep(r, req[r]) /\ Placed(req[r])
      /\ UNCHANGED <<stores, caches>>
  BY RequestFacts DEF Cached
<1>2. PICK d : d = Done(req[r], "ok")
  OBVIOUS
<1>3. d \in Request /\ AtStep(r, d) /\ d.pc = "done" /\ d.res = "ok"
      /\ d.op = req[r].op /\ d.vid = req[r].vid /\ d.tags = req[r].tags /\ d.node = req[r].node
      /\ d.oid = req[r].oid /\ d.below = req[r].below /\ (d.alias <=> req[r].alias)
      /\ d.prior = req[r].prior
  <2>1. AtStep(r, d)
    BY <1>1, <1>2, DoneAtStep DEF At
  <2> QED
    BY <1>1, <1>2, <2>1, DoneIs
<1>4. PICK y : y = [d EXCEPT !.got = tagCache[req[r].vid]]
  OBVIOUS
<1>5. tagCache[req[r].vid] \in TagSets \cup {None}
  BY <1>1, CachesAreTyped DEF Request
<1>6. /\ y \in Request /\ y.pc = "done" /\ y.res = "ok"
      /\ y.op = req[r].op /\ y.vid = req[r].vid /\ y.tags = req[r].tags /\ y.node = req[r].node
      /\ y.oid = req[r].oid /\ y.below = req[r].below /\ (y.alias <=> req[r].alias)
      /\ y.prior = req[r].prior
  BY <1>3, <1>4, <1>5 DEF Request
<1>7. AtStep(r, y) /\ Placed(y) /\ GoesOn(y, req[r])
  BY <1>1, <1>6 DEF AtStep, Placed, GoesOn, At
<1>8. Replied(r, y)
  BY <1>2, <1>4 DEF Cached, Replied
<1> QED
  BY <1>1, <1>6, <1>7, <1>8, CachesAreTyped, QuietStep DEF caches

LEMMA CacheTagsKeeps ==
  ASSUME IInv, NEW r \in Requests, CacheTags(r) \/ DropTags(r)
  PROVE  IInv'
<1>1. /\ req[r].pc \in {"cache", "drop"} /\ Active(r) /\ req[r] \in Request
      /\ AtStep(r, req[r]) /\ Placed(req[r]) /\ UNCHANGED <<stores, nodeCache>>
  BY RequestFacts DEF CacheTags, DropTags, Active, At
<1>2. /\ req[r].node # None /\ req[r].oid \in Known /\ req[r].oid \in Objects
  BY <1>1, PlaceFacts DEF AtStep
<1>3. /\ tagCache' \in [Objects -> TagSets \cup {None}]
      /\ \A o \in Objects : tagCache'[o] = tagCache[o] \/ o \in Known
  <2>1. PICK e \in TagSets \cup {None} : tagCache' = [tagCache EXCEPT ![req[r].oid] = e]
    BY <1>1 DEF CacheTags, DropTags, Request
  <2> QED
    BY <1>2, <2>1, CachesAreTyped
<1>4. PICK y : y = Done(req[r], "ok")
  OBVIOUS
<1>5. y \in Request /\ AtStep(r, y) /\ y.pc = "done" /\ y.res = "ok"
      /\ y.op = req[r].op /\ y.vid = req[r].vid /\ y.tags = req[r].tags /\ y.node = req[r].node
      /\ y.oid = req[r].oid /\ y.below = req[r].below /\ (y.alias <=> req[r].alias)
      /\ y.prior = req[r].prior
  <2>1. AtStep(r, y)
    BY <1>1, <1>4, DoneAtStep
  <2> QED
    BY <1>1, <1>4, <2>1, DoneIs
<1>6. Placed(y) /\ GoesOn(y, req[r]) /\ Replied(r, y)
  BY <1>1, <1>4, <1>5 DEF Placed, GoesOn, CacheTags, DropTags, Replied
<1>7. ASSUME NEW n \in Ids, y.node = n, y.op \in {"put", "tag", "untag"}, Calm(n)
      PROVE  Stands(r, y, n)
  <2>1. Sees(r, req[r], n)
    BY <1>1, <1>2, <1>5, <1>7, WriterFacts DEF Writes
  <2> QED
    BY <1>1, <1>5, <2>1 DEF Sees, Stands
<1> QED
  BY <1>1, <1>3, <1>5, <1>6, <1>7, CachesAreTyped, QuietStep

LEMMA CallFailsKeeps ==
  ASSUME IInv, NEW r \in Requests, CallFails(r)
  PROVE  IInv'
<1>1. PICK y : y = req[r]
  OBVIOUS
<1>2. /\ y \in Request /\ AtStep(r, y) /\ Placed(y) /\ Active(r) /\ UNCHANGED <<stores, caches>>
      /\ y.res = "none"
  BY <1>1, RequestFacts DEF CallFails, Active, AtStep
<1>3. GoesOn(y, req[r]) /\ Replied(r, y)
  BY <1>1, <1>2 DEF GoesOn, Replied, Active, CallFails
<1>4. ASSUME NEW n \in Ids, y.node = n, y.op \in {"put", "tag", "untag"}, Calm(n)
      PROVE  Sees(r, y, n)
  BY <1>1, <1>2, <1>4, WriterFacts, NodeFacts DEF Writes
<1> QED
  BY <1>2, <1>3, <1>4, CachesAreTyped, QuietStep DEF caches

(* The record y of r once its version is found, or is not there.           *)
HasFound(r, y) ==
  /\ y \in Request /\ AtStep(r, y) /\ Placed(y) /\ GoesOn(y, req[r]) /\ Replied(r, y)
  /\ \/ y.pc = "done" /\ (y.op = "get" \/ y.node = None)
     \/ y.pc = "read" /\ y.got = req[r].got /\ (y.alias <=> y.oid # OidOf(y.node))

LEMMA VersionFound ==
  ASSUME IInv, NEW r \in Requests, FindVersion(r)
  PROVE  \E y : HasFound(r, y)
<1>1. /\ At(r, "find") /\ req[r] \in Request /\ AtStep(r, req[r]) /\ Placed(req[r])
      /\ UNCHANGED <<stores, caches>>
  BY RequestFacts DEF FindVersion
<1>2. req[r].op \in {"tag", "get", "untag"} /\ req[r].node = None /\ req[r].below = None
  BY <1>1 DEF AtStep, At
<1>3. CASE Step(r, Done(req[r], "missing"))
  <2>1. PICK y : y = Done(req[r], "missing")
    OBVIOUS
  <2>2. /\ y \in Request /\ y.pc = "done" /\ y.res = "missing"
        /\ y.op = req[r].op /\ y.vid = req[r].vid /\ y.tags = req[r].tags /\ y.node = None
        /\ y.oid = req[r].oid /\ y.below = req[r].below /\ (y.alias <=> req[r].alias)
        /\ y.prior = req[r].prior
    BY <1>1, <1>2, <2>1, DoneIs
  <2>3. AtStep(r, y)
    BY <1>1, <2>1, DoneAtStep DEF At
  <2>4. Placed(y) /\ GoesOn(y, req[r]) /\ Replied(r, y)
    BY <1>1, <1>2, <1>3, <2>1, <2>2 DEF Placed, GoesOn, Replied, At
  <2> QED
    BY <2>2, <2>3, <2>4 DEF HasFound
<1>4. ASSUME NEW id, NEW oid, Pair(id, oid), req[r].op = "untag" => OidOf(id) = oid,
             NEW z, z = [req[r] EXCEPT !.node = id, !.oid = oid, !.alias = OidOf(id) # oid],
             \/ Step(r, [z EXCEPT !.pc = "read"])
             \/ req[r].op = "get" /\ Step(r, [Done(z, "ok") EXCEPT !.got = tagCache[oid]])
      PROVE  \E y : HasFound(r, y)
  <2>1. id \in Objects /\ id \in Ids /\ oid \in Objects /\ id # None /\ oid # None
    BY <1>4, PairFacts, NodeFacts
  <2>2. PICK a \in BOOLEAN : a <=> OidOf(id) # oid
    OBVIOUS
  <2>3. z = [req[r] EXCEPT !.node = id, !.oid = oid, !.alias = a]
    BY <1>4, <2>2
  <2>4. /\ z.node = id /\ z.oid = oid /\ (z.alias <=> OidOf(id) # oid)
        /\ z.op = req[r].op /\ z.vid = req[r].vid /\ z.tags = req[r].tags /\ z.pc = req[r].pc
        /\ z.below = req[r].below /\ z.got = req[r].got /\ z.res = req[r].res
        /\ z.prior = req[r].prior
    BY <1>1, <2>2, <2>3 DEF Request
  <2>5. z \in Request
    <3>1. PICK u : u = [req[r] EXCEPT !.node = id]
      OBVIOUS
    <3>2. u \in Request
      BY <1>1, <2>1, <3>1 DEF Request
    <3>3. PICK w : w = [u EXCEPT !.oid = oid]
      OBVIOUS
    <3>4. w \in Request
      BY <2>1, <3>2, <3>3 DEF Request
    <3>5. z = [w EXCEPT !.alias = a]
      BY <1>1, <2>3, <3>1, <3>3 DEF Request
    <3> QED
      BY <2>2, <3>4, <3>5 DEF Request
  <2>6. CASE Step(r, [z EXCEPT !.pc = "read"])
    <3>1. PICK y : y = [z EXCEPT !.pc = "read"]
      OBVIOUS
    <3>2. /\ y \in Request /\ y.pc = "read" /\ y.res = req[r].res
          /\ y.op = req[r].op /\ y.vid = req[r].vid /\ y.tags = req[r].tags /\ y.node = id
          /\ y.oid = oid /\ y.below = None /\ (y.alias <=> OidOf(id) # oid)
          /\ y.prior = req[r].prior /\ y.got = req[r].got
      BY <1>2, <2>4, <2>5, <3>1 DEF Request
    <3>3. AtStep(r, y) /\ GoesOn(y, req[r]) /\ Placed(y) /\ Replied(r, y)
      BY <1>1, <1>2, <1>4, <2>1, <2>6, <3>1, <3>2 DEF AtStep, GoesOn, Placed, Replied, At
    <3> QED
      BY <3>2, <3>3 DEF HasFound
  <2>7. CASE req[r].op = "get" /\ Step(r, [Done(z, "ok") EXCEPT !.got = tagCache[oid]])
    <3>1. PICK d : d = Done(z, "ok")
      OBVIOUS
    <3>2. /\ d \in Request /\ d.pc = "done" /\ d.res = "ok"
          /\ d.op = req[r].op /\ d.vid = req[r].vid /\ d.tags = req[r].tags /\ d.node = id
          /\ d.oid = oid /\ d.below = None /\ (d.alias <=> z.alias)
          /\ d.prior = req[r].prior
      BY <1>2, <2>4, <2>5, <3>1, DoneIs
    <3>3. PICK y : y = [d EXCEPT !.got = tagCache[oid]]
      OBVIOUS
    <3>4. tagCache[oid] \in TagSets \cup {None}
      BY <2>1, CachesAreTyped
    <3>5. /\ y \in Request /\ y.pc = "done" /\ y.res = "ok"
          /\ y.op = req[r].op /\ y.vid = req[r].vid /\ y.tags = req[r].tags /\ y.node = id
          /\ y.oid = oid /\ y.below = None /\ y.prior = req[r].prior
      BY <3>2, <3>3, <3>4 DEF Request
    <3>6. AtStep(r, y) /\ GoesOn(y, req[r]) /\ Placed(y)
      BY <1>1, <1>2, <1>4, <2>1, <2>7, <3>5 DEF AtStep, GoesOn, Placed, At
    <3>7. Replied(r, y)
      BY <2>7, <3>1, <3>3 DEF Replied
    <3> QED
      BY <2>7, <3>5, <3>6, <3>7 DEF HasFound
  <2> QED
    BY <1>4, <2>6, <2>7
<1>5. ASSUME req[r].vid # "latest", req[r].op # "untag", nodeCache[req[r].vid] # None
      PROVE  Pair(nodeCache[req[r].vid], req[r].vid)
  BY <1>1, <1>5 DEF Request, IInv
<1>6. ASSUME NEW n \in NodeOf(req[r].vid) PROVE Pair(n.id, n.oid) /\ OidOf(n.id) = n.oid
  <2>1. n \in ToSet(nodes)
    BY <1>6, NodeFacts DEF NodeOf
  <2> QED
    BY <2>1, NodeFacts, OidFacts
<1>7. CASE req[r].vid # "latest" /\ req[r].op # "untag" /\ nodeCache[req[r].vid] # None
  <2>1. PICK n : n = [id |-> nodeCache[req[r].vid], oid |-> req[r].vid]
    OBVIOUS
  <2>2. Pair(n.id, n.oid)
    BY <1>5, <1>7, <2>1
  <2>3. PICK z : z = [req[r] EXCEPT !.node = n.id, !.oid = n.oid, !.alias = OidOf(n.id) # n.oid]
    OBVIOUS
  <2>4. \/ Step(r, [z EXCEPT !.pc = "read"])
        \/ req[r].op = "get" /\ Step(r, [Done(z, "ok") EXCEPT !.got = tagCache[n.oid]])
    BY <1>7, <2>1, <2>3 DEF FindVersion
  <2> QED
    BY <1>4, <1>7, <2>2, <2>3, <2>4
<1>8. CASE ~(req[r].vid # "latest" /\ req[r].op # "untag" /\ nodeCache[req[r].vid] # None)
  <2>1. ASSUME NEW n \in NodeOf(req[r].vid),
               NEW z, z = [req[r] EXCEPT !.node = n.id, !.oid = n.oid, !.alias = OidOf(n.id) # n.oid],
               \/ Step(r, [z EXCEPT !.pc = "read"])
               \/ req[r].op = "get" /\ Step(r, [Done(z, "ok") EXCEPT !.got = tagCache[n.oid]])
        PROVE  \E y : HasFound(r, y)
    BY <1>4, <1>6, <2>1
  <2>2. \/ Step(r, Done(req[r], "missing"))
        \/ \E n \in NodeOf(req[r].vid) : \E z :
             /\ z = [req[r] EXCEPT !.node = n.id, !.oid = n.oid, !.alias = OidOf(n.id) # n.oid]
             /\ \/ Step(r, [z EXCEPT !.pc = "read"])
                \/ req[r].op = "get" /\ Step(r, [Done(z, "ok") EXCEPT !.got = tagCache[n.oid]])
    BY <1>8 DEF FindVersion
  <2> QED
    BY <1>3, <2>1, <2>2
<1> QED
  BY <1>7, <1>8

LEMMA FindVersionKeeps ==
  ASSUME IInv, NEW r \in Requests, FindVersion(r)
  PROVE  IInv'
<1>1. PICK y : HasFound(r, y)
  BY VersionFound
<1>2. UNCHANGED <<stores, caches>>
  BY DEF FindVersion
<1>3. ASSUME NEW n \in Ids, y.node = n, y.op \in {"put", "tag", "untag"}
      PROVE  y.pc # "done" /\ y.res # "ok" /\ Sees(r, y, n)
  <2>1. y.pc = "read" /\ (y.alias <=> y.oid # OidOf(n))
    BY <1>1, <1>3, NodeFacts DEF HasFound
  <2>2. y.op # "put"
    BY <1>1, RequestFacts DEF HasFound, GoesOn, FindVersion, AtStep, At
  <2>3. y.res = "none"
    BY <1>1, <2>1 DEF HasFound, AtStep
  <2> QED
    BY <2>1, <2>2, <2>3 DEF Sees
<1> QED
  BY <1>1, <1>2, <1>3, CachesAreTyped, QuietStep DEF HasFound, caches

(* The record y of r once it has read the tags.                            *)
HasRead(r, y) ==
  /\ y \in Request /\ AtStep(r, y) /\ Placed(y) /\ GoesOn(y, req[r]) /\ Step(r, y)
  /\ y.pc \in {"cache", "drop", "remove", "write"}
  /\ (y.pc = "cache" <=> y.op = "get") /\ (y.pc = "drop" <=> y.op = "untag" /\ y.below = None)
  /\ IF y.below = None THEN TagsBelow(y.node) = {} /\ y.got = req[r].got
     ELSE \E t \in TagsBelow(y.node) : y.below = t.id /\ y.got = t.tags

LEMMA TagsRead ==
  ASSUME IInv, NEW r \in Requests, ReadTags(r)
  PROVE  \E y : HasRead(r, y)
<1>1. /\ At(r, "read") /\ Active(r) /\ req[r] \in Request /\ AtStep(r, req[r])
      /\ Placed(req[r]) /\ UNCHANGED <<stores, caches>>
  BY RequestFacts DEF ReadTags, Active, At
<1>2. PICK n : n = req[r].node
  OBVIOUS
<1>3. n # None /\ req[r].below = None /\ req[r].op \notin {"none"}
  BY <1>1, <1>2 DEF AtStep, At
<1>4. ASSUME NEW z \in Request, Step(r, AfterRead(z)),
             z.pc = "read", z.op = req[r].op, z.vid = req[r].vid, z.tags = req[r].tags,
             z.node = n, z.oid = req[r].oid, z.res = req[r].res, z.alias <=> req[r].alias,
             z.prior = req[r].prior,
             IF z.below = None THEN TagsBelow(n) = {} /\ z.got = req[r].got
             ELSE \E t \in TagsBelow(n) : z.below = t.id /\ z.got = t.tags
      PROVE  \E y : HasRead(r, y)
  <2>1. PICK p : p = CASE z.op = "get" -> "cache"
                       [] z.op = "untag" -> IF z.below = None THEN "drop" ELSE "remove"
                       [] OTHER -> "write"
    OBVIOUS
  <2>2. p \in {"cache", "drop", "remove", "write"}
        /\ (p = "cache" <=> z.op = "get") /\ (p = "drop" <=> z.op = "untag" /\ z.below = None)
        /\ (p = "remove" <=> z.op = "untag" /\ z.below # None)
    BY <2>1
  <2>3. PICK y : y = [z EXCEPT !.pc = p]
    OBVIOUS
  <2>4. Step(r, y)
    BY <1>4, <2>1, <2>3 DEF AfterRead
  <2>5. /\ y \in Request /\ y.pc = p /\ y.op = z.op /\ y.vid = z.vid /\ y.tags = z.tags
        /\ y.node = z.node /\ y.oid = z.oid /\ y.below = z.below /\ y.res = z.res
        /\ (y.alias <=> z.alias) /\ y.prior = z.prior /\ y.got = z.got
    BY <1>4, <2>2, <2>3 DEF Request
  <2>6. AtStep(r, y) /\ GoesOn(y, req[r])
    BY <1>1, <1>2, <1>3, <1>4, <2>2, <2>5 DEF AtStep, GoesOn, At, Request
  <2>7. Placed(y)
    <3>1. ASSUME NEW t \in TagsBelow(n) PROVE req[t.id].node = n
      BY <3>1, TagFacts DEF TagsBelow, TagPlaced
    <3> QED
      BY <1>1, <1>2, <1>4, <2>5, <3>1 DEF Placed
  <2> QED
    BY <1>4, <2>2, <2>4, <2>5, <2>6, <2>7 DEF HasRead
<1>5. CASE TagsBelow(n) = {} /\ Step(r, AfterRead(req[r]))
  BY <1>1, <1>2, <1>3, <1>4, <1>5 DEF At
<1>6. ASSUME NEW t \in TagsBelow(n),
             Step(r, AfterRead([req[r] EXCEPT !.below = t.id, !.got = t.tags]))
      PROVE  \E y : HasRead(r, y)
  <2>1. t.id \in Requests /\ t.id # None /\ t.tags \in TagSets
    BY TagFacts DEF TagsBelow, TagNode, IInv, ConstantsDiffer, Objects
  <2>2. PICK u : u = [req[r] EXCEPT !.below = t.id]
    OBVIOUS
  <2>3. PICK z : z = [u EXCEPT !.got = t.tags]
    OBVIOUS
  <2>4. u \in Request
    BY <1>1, <2>1, <2>2 DEF Request
  <2>5. z = [req[r] EXCEPT !.below = t.id, !.got = t.tags]
    BY <1>1, <2>2, <2>3 DEF Request
  <2>6. z \in Request
    BY <2>1, <2>3, <2>4 DEF Request
  <2>7. z.pc = "read" /\ z.op = req[r].op /\ z.vid = req[r].vid /\ z.tags = req[r].tags
        /\ z.node = n /\ z.oid = req[r].oid /\ z.res = req[r].res /\ (z.alias <=> req[r].alias)
        /\ z.prior = req[r].prior /\ z.below = t.id /\ z.got = t.tags
    BY <1>1, <1>2, <2>5 DEF Request, At
  <2>8. Step(r, AfterRead(z))
    BY <1>6, <2>5
  <2> QED
    BY <1>4, <2>1, <2>6, <2>7, <2>8
<1> QED
  BY <1>2, <1>5, <1>6 DEF ReadTags

LEMMA ReadTagsKeeps ==
  ASSUME IInv, NEW r \in Requests, ReadTags(r)
  PROVE  IInv'
<1>1. PICK y : HasRead(r, y)
  BY TagsRead
<1>2. /\ At(r, "read") /\ Active(r) /\ AtStep(r, req[r]) /\ UNCHANGED <<stores, caches>>
  BY RequestFacts DEF ReadTags, Active, At
<1>3. PICK n : n = req[r].node
  OBVIOUS
<1>4. /\ n # None /\ y.node = n /\ y.oid = req[r].oid /\ (y.alias <=> req[r].alias)
      /\ y.op = req[r].op /\ y.res = "none"
  BY <1>1, <1>2, <1>3 DEF HasRead, GoesOn, AtStep, At
<1>5. ASSUME y.op \in {"put", "tag", "untag"}, Calm(n)
      PROVE  Sees(r, y, n)
  <2>1. Sees(r, req[r], n) /\ \A s, t \in TagsBelow(n) : s = t
    BY <1>2, <1>3, <1>4, <1>5, WriterFacts DEF Writes
  <2>2. \A t \in TagsBelow(n) : t.id = y.below
    BY <1>1, <1>4, <2>1 DEF HasRead
  <2>3. y.op = "put" => TagsBelow(n) = {}
    BY <1>2, <1>4, <2>1 DEF Sees, At
  <2>4. y.pc = "drop" => Stands(r, y, n)
    BY <1>1, <1>4 DEF Stands, HasRead, AtStep
  <2> QED
    BY <1>1, <1>4, <1>5, <2>1, <2>2, <2>3, <2>4 DEF Sees, HasRead, AtStep
<1> QED
  BY <1>1, <1>2, <1>4, <1>5, CachesAreTyped, QuietStep DEF HasRead, Replied, caches

(* The tag node that r writes or removes is below the node it works on.    *)
LEMMA WrittenBelow ==
  ASSUME IInv, NEW r \in Requests, NEW t \in tagNodes, At(r, "write"), t.id = Written(r)
  PROVE  t.node = req[r].node
<1>1. CASE req[r].below = None
  BY <1>1, TagFacts DEF Written, TagPlaced
<1>2. CASE req[r].below # None
  BY <1>2, BelowFacts DEF Written
<1> QED
  BY <1>1, <1>2

(* The record y of r once it has put the tags.                             *)
HasWritten(r, y) ==
  /\ y \in Request /\ AtStep(r, y) /\ Placed(y) /\ GoesOn(y, req[r]) /\ Replied(r, y)
  /\ y.pc = "cache"

LEMMA TagsWritten ==
  ASSUME IInv, NEW r \in Requests, WriteTags(r)
  PROVE  \E y : HasWritten(r, y)
<1>1. At(r, "write") /\ req[r] \in Request /\ AtStep(r, req[r]) /\ Placed(req[r])
  BY RequestFacts DEF WriteTags
<1>2. PICK z : z = [req[r] EXCEPT !.pc = "cache"]
  OBVIOUS
<1>3. PICK y : y = [z EXCEPT !.got = req[r].tags]
  OBVIOUS
<1>4. y \in Request /\ Replied(r, y)
  <2>1. z \in Request
    BY <1>1, <1>2 DEF Request
  <2>2. y = [req[r] EXCEPT !.pc = "cache", !.got = req[r].tags]
    BY <1>1, <1>2, <1>3 DEF Request
  <2>3. req[r].tags \in TagSets \cup {None}
    BY <1>1 DEF Request
  <2>4. y \in Request
    BY <1>3, <2>1, <2>3 DEF Request
  <2> QED
    BY <2>2, <2>4 DEF WriteTags
<1>5. /\ y.op = req[r].op /\ y.vid = req[r].vid /\ y.tags = req[r].tags /\ y.prior = req[r].prior
      /\ y.node = req[r].node /\ y.oid = req[r].oid /\ (y.alias <=> req[r].alias)
      /\ y.pc = "cache" /\ y.below = req[r].below /\ y.res = req[r].res /\ y.got = req[r].tags
  BY <1>1, <1>2, <1>3 DEF Request
<1>6. AtStep(r, y) /\ Placed(y) /\ GoesOn(y, req[r])
  BY <1>1, <1>5 DEF AtStep, Placed, GoesOn, At
<1> QED
  BY <1>4, <1>5, <1>6 DEF HasWritten

LEMMA WriteTagsKeeps ==
  ASSUME IInv, NEW r \in Requests, WriteTags(r)
  PROVE  IInv'
<1>1. /\ At(r, "write") /\ Active(r) /\ req[r] \in Request /\ AtStep(r, req[r])
      /\ Placed(req[r]) /\ UNCHANGED <<versioned, nodes, caches>>
  BY RequestFacts DEF WriteTags, Active, At
<1>2. PICK n : n = req[r].node
  OBVIOUS
<1>3. n # None /\ req[r].op \in {"put", "tag"} /\ req[r].tags # None
  BY <1>1, <1>2 DEF AtStep, At
<1>4. n \in Ids /\ n \in Objects /\ req[r].oid \in Objects
  BY <1>2, <1>3, PlaceFacts, NodeFacts
<1>5. PICK w : w = Written(r)
  OBVIOUS
<1>6. PICK T : T = [id |-> w, node |-> n, tags |-> req[r].tags, of |-> req[r].oid, by |-> r]
  OBVIOUS
<1>7. tagNodes' = {t \in tagNodes : t.id # w} \cup {T}
  BY <1>2, <1>5, <1>6 DEF WriteTags
<1>8. w \in Requests
  BY <1>1, <1>5 DEF Written, Request
<1>9. T \in TagNode
  BY <1>1, <1>3, <1>4, <1>6, <1>8 DEF TagNode, Request
<1>10. \A t \in tagNodes : t.id = w => t.node = n
  BY <1>1, <1>2, <1>5, WrittenBelow
<1>11. PICK y : HasWritten(r, y)
  BY TagsWritten
<1>12. /\ y.op = req[r].op /\ y.tags = req[r].tags /\ y.node = n /\ y.oid = req[r].oid
       /\ (y.alias <=> req[r].alias)
  BY <1>2, <1>3, <1>11 DEF HasWritten, GoesOn
<1>13. y \in Request /\ Replied(r, y) /\ AtStep(r, y) /\ Placed(y) /\ GoesOn(y, req[r])
  BY <1>11 DEF HasWritten
<1>14. y.pc = "cache" /\ y.res = "none"
  BY <1>11 DEF HasWritten, AtStep
<1>16. PICK x : Variant(x, y) /\ GoesOn(x, req[r]) /\ Moves(r, x)
  BY <1>1, <1>13, OneMoves
<1>17. Lasts
  BY <1>1, <1>13, OneMoves
<1>18. TagPlaced(T)'
  <2>1. req'[r] = x /\ x.node = n /\ x.op = req[r].op /\ x.tags = req[r].tags
        /\ x.oid = req[r].oid
    BY <1>12, <1>16 DEF Moves, Variant
  <2>2. req'[w].node = n
    <3>1. CASE req[r].below = None
      BY <1>5, <2>1, <3>1 DEF Written
    <3>2. CASE req[r].below # None
      <4>1. w = req[r].below /\ req[w].node = n
        BY <1>1, <1>2, <1>5, <3>2 DEF Written, Placed
      <4> QED
        BY <1>3, <1>8, <1>17, <4>1 DEF Lasts
    <3> QED
      BY <3>1, <3>2
  <2> QED
    BY <1>3, <1>6, <2>1, <2>2 DEF TagPlaced
<1>19. ASSUME NEW m, m # n PROVE TagsBelow(m)' = TagsBelow(m)
  BY <1>6, <1>7, <1>10, <1>19 DEF TagsBelow
<1>20. ASSUME Calm(n) PROVE Turn(r, y, n)
  <2>1. Sees(r, req[r], n)
    BY <1>1, <1>2, <1>3, <1>20, WriterFacts DEF Writes
  <2>2. ASSUME NEW t \in TagsBelow(n) PROVE t.id = w
    <3>1. t.id = req[r].below /\ t.id # None
      BY <1>1, <2>1, <2>2, TagFacts DEF Sees, At, TagsBelow, IInv, ConstantsDiffer, Objects
    <3> QED
      BY <1>5, <3>1 DEF Written
  <2>3. TagsBelow(n)' = {T}
    <3>1. T.node = n
      BY <1>6
    <3> QED
      BY <1>7, <2>2, <3>1 DEF TagsBelow
  <2>4. T.by = r /\ T.of = req[r].oid /\ T.node = n
    BY <1>6
  <2>5. Fits(T)'
    <3>1. (req'[r].alias <=> req[r].alias) /\ OidOf(n)' = OidOf(n)
      BY <1>1, <1>2, <1>3, <1>17 DEF Lasts, OidOf
    <3> QED
      BY <2>1, <2>4, <3>1 DEF Fits, Sees
  <2>6. Stands(r, y, n)'
    BY <1>3, <1>12, <2>3, <2>4 DEF Stands
  <2>7. Sees(r, y, n)'
    BY <1>1, <1>12, <1>14, <2>1, <2>6 DEF Sees, OidOf
  <2> QED
    BY <1>14, <2>3, <2>5, <2>7 DEF Turn
<1>21. \A t \in tagNodes' : t \in tagNodes \/ (t \in TagNode /\ t.node \in Ids /\ TagPlaced(t)')
  <2>1. T.node \in Ids
    BY <1>4, <1>6
  <2> QED
    BY <1>7, <1>9, <1>18, <2>1
<1>22. \A s, t \in tagNodes' : s.id = t.id => s = t
  <2>1. T.id = w
    BY <1>6
  <2> QED
    BY <1>7, <2>1, CachesAreTyped
<1>23. \A m \in Ids :
         IF y.node = m /\ y.op \in {"put", "tag", "untag"} THEN Calm(m) => Turn(r, y, m)
         ELSE TagsBelow(m)' = TagsBelow(m)
  BY <1>3, <1>12, <1>19, <1>20
<1> QED
  BY <1>1, <1>13, <1>21, <1>22, <1>23, CachesAreTyped, TagStep DEF caches

LEMMA Appended ==
  ASSUME NEW S, NEW s \in Seq(S), NEW e \in S
  PROVE  /\ Append(s, e) \in Seq(S) /\ Append(s, e) # <<>>
         /\ ToSet(Append(s, e)) = ToSet(s) \cup {e}
<1>1. /\ Append(s, e) \in Seq(S) /\ Append(s, e) # <<>>
      /\ Len(Append(s, e)) = Len(s) + 1 /\ Len(s) \in Nat
      /\ Append(s, e)[Len(s) + 1] = e
      /\ \A i \in 1 .. Len(s) : Append(s, e)[i] = s[i]
  OBVIOUS
<1>2. DOMAIN Append(s, e) = 1 .. Len(s) + 1 /\ DOMAIN s = 1 .. Len(s)
  BY <1>1
<1>3. 1 .. Len(s) + 1 = (1 .. Len(s)) \cup {Len(s) + 1}
  BY <1>1
<1>4. ToSet(Append(s, e)) = {Append(s, e)[i] : i \in 1 .. Len(s)} \cup {e}
  BY <1>1, <1>2, <1>3 DEF ToSet
<1> QED
  BY <1>1, <1>2, <1>4 DEF ToSet

(* A version is made: with versioning its node is new, without it the node *)
(* of the version before becomes its own.                                  *)
LEMMA AddedNode ==
  ASSUME IInv, NEW r \in Requests, req[r].node = None,
         versioned' = versioned, Known' = Known \cup {r},
         nodes' = IF versioned THEN Append(nodes, [id |-> r, oid |-> r])
                  ELSE [nodes EXCEPT ![1].oid = r],
         NEW id, id = IF versioned THEN r ELSE First
  PROVE  /\ nodes' \in Seq(Node) /\ nodes' # <<>> /\ (~versioned => Len(nodes') = 1)
         /\ \A n \in ToSet(nodes)' : Pair(n.id, n.oid)'
         /\ \A o \in Known' : \E n \in ToSet(nodes)' : Pair(n.id, o)'
         /\ Ids' = Ids \cup {id} /\ (versioned => id \notin Ids)
         /\ OidOf(id)' = r
         /\ \A n \in Ids \ {id} : OidOf(n)' = OidOf(n)
         /\ \A n \in ToSet(nodes)' : n \in ToSet(nodes) \/ n.oid = r
<1>1. nodes \in Seq(Node) /\ Len(nodes) > 0 /\ (~versioned => Len(nodes) = 1)
  BY DEF IInv, TypeOK
<1>2. PICK m : m = [id |-> IF versioned THEN r ELSE First, oid |-> r]
  OBVIOUS
<1>3. m \in Node /\ m.oid = r /\ m.id = IF versioned THEN r ELSE First
  BY <1>2 DEF Node, Objects
<1>4. CASE versioned
  <2>1. nodes' = Append(nodes, m)
    BY <1>2, <1>4
  <2>2. nodes' \in Seq(Node) /\ nodes' # <<>> /\ ToSet(nodes') = ToSet(nodes) \cup {m}
    BY <1>1, <1>3, <2>1, Appended
  <2>3. r \notin Known /\ r # First
    BY DEF Known, IInv, ConstantsDiffer
  <2>4. \A n \in ToSet(nodes) : n.id \in Known /\ n.id = n.oid /\ n.id # r
    BY <1>4, <2>3, NodeFacts DEF Pair
  <2>5. /\ \A n \in ToSet(nodes)' : n.oid \in Known' /\ n.id = n.oid
        /\ Ids' = Ids \cup {r} /\ r \notin Ids
    BY <1>3, <1>4, <2>2, <2>4 DEF Ids
  <2>6. \A o \in Known' : \E n \in ToSet(nodes)' : n.id = o
    <3>1. ASSUME NEW o \in Known PROVE \E n \in ToSet(nodes)' : n.id = o
      BY <1>4, <2>2, <3>1 DEF IInv, Pair
    <3> QED
      BY <1>3, <1>4, <2>2, <3>1
  <2>7. OidOf(r)' = r
    <3>1. \A n \in ToSet(nodes)' : n.id = r => n = m
      BY <2>2, <2>4
    <3> QED
      BY <1>3, <1>4, <2>2, <3>1 DEF OidOf
  <2>8. ASSUME NEW n \in Ids PROVE OidOf(n)' = OidOf(n)
    <3>1. PICK k \in ToSet(nodes) : k.id = n
      BY DEF Ids
    <3>2. \A l \in ToSet(nodes)' : l.id = n => l = k
      BY <1>3, <1>4, <2>2, <2>4, <3>1, NodeFacts
    <3>3. k \in ToSet(nodes)'
      BY <2>2
    <3>4. OidOf(n)' = k.oid
      BY <3>1, <3>2, <3>3 DEF OidOf
    <3> QED
      BY <3>1, <3>4, OidFacts
  <2>9. /\ \A n \in ToSet(nodes)' : Pair(n.id, n.oid)'
        /\ \A o \in Known' : \E n \in ToSet(nodes)' : Pair(n.id, o)'
    BY <1>4, <2>5, <2>6 DEF Pair
  <2>10. \A n \in ToSet(nodes)' : n \in ToSet(nodes) \/ n.oid = r
    BY <1>3, <2>2
  <2> QED
    BY <1>4, <2>2, <2>5, <2>7, <2>8, <2>9, <2>10
<1>5. CASE ~versioned
  <2>1. DOMAIN nodes = {1} /\ nodes[1] \in ToSet(nodes)
    <3>1. DOMAIN nodes = 1 .. 1
      BY <1>1, <1>5
    <3> QED
      BY <3>1 DEF ToSet
  <2>2. nodes[1] \in Node /\ nodes[1].id = First
    BY <1>5, <2>1, NodeFacts DEF Pair
  <2>3. [nodes[1] EXCEPT !.oid = r] = m
    BY <1>2, <1>5, <2>2 DEF Node
  <2>4. nodes' = [nodes EXCEPT ![1] = m]
    BY <1>5, <2>3
  <2>5. nodes' \in Seq(Node) /\ Len(nodes') = 1 /\ DOMAIN nodes' = {1} /\ nodes'[1] = m
    BY <1>1, <1>3, <1>5, <2>1, <2>4
  <2>6. ToSet(nodes)' = {m} /\ ToSet(nodes) = {nodes[1]}
    BY <2>1, <2>5 DEF ToSet
  <2>7. Ids' = {First} /\ Ids = {First} /\ m.id = First
    BY <1>3, <1>5, <2>2, <2>6 DEF Ids
  <2>8. OidOf(First)' = r
    BY <1>3, <2>6, <2>7 DEF OidOf
  <2>9. /\ \A n \in ToSet(nodes)' : Pair(n.id, n.oid)'
        /\ \A o \in Known' : \E n \in ToSet(nodes)' : Pair(n.id, o)'
    BY <1>3, <1>5, <2>6, <2>7 DEF Pair
  <2>10. nodes' # <<>>
    BY <2>5
  <2>11. \A n \in ToSet(nodes)' : n.oid = r
    BY <1>3, <2>6
  <2> QED
    BY <1>5, <2>5, <2>7, <2>8, <2>9, <2>10, <2>11
<1> QED
  BY <1>4, <1>5

(* The record y of r once its version is in the tree.                      *)
HasAdded(r, y) ==
  /\ y \in Request /\ AtStep(r, y) /\ GoesOn(y, req[r]) /\ Replied(r, y)
  /\ y.oid = r /\ y.node = (IF versioned THEN r ELSE First) /\ y.below = None
  /\ y.pc = (IF versioned THEN "cacheobj" ELSE "findold")

LEMMA VersionAdded ==
  ASSUME IInv, NEW r \in Requests, AddVersion(r)
  PROVE  \E y : HasAdded(r, y)
<1>1. At(r, "add") /\ req[r] \in Request /\ AtStep(r, req[r])
  BY RequestFacts DEF AddVersion
<1>2. req[r].op = "put" /\ req[r].node = None /\ req[r].oid = None /\ req[r].below = None
      /\ req[r].res = "none" /\ ~req[r].alias
  BY <1>1 DEF AtStep, At
<1>3. PICK id : id = IF versioned THEN r ELSE First
  OBVIOUS
<1>4. id \in Objects /\ id # None /\ r \in Objects /\ r # None
  BY <1>3 DEF Objects, IInv, ConstantsDiffer
<1>5. PICK y : /\ y = AfterAdd([req[r] EXCEPT !.oid = r, !.node = IF versioned THEN r ELSE First])
               /\ Replied(r, y)
  BY DEF AddVersion
<1>6. /\ y \in Request /\ y.op = "put" /\ y.node = id /\ y.oid = r /\ y.res = "none"
      /\ y.pc = (IF versioned THEN "cacheobj" ELSE "findold")
      /\ y.vid = req[r].vid /\ y.tags = req[r].tags /\ y.prior = req[r].prior
      /\ y.below = None /\ (y.alias <=> req[r].alias)
  <2>1. PICK u : u = [req[r] EXCEPT !.oid = r]
    OBVIOUS
  <2>2. u \in Request
    BY <1>1, <1>4, <2>1 DEF Request
  <2>3. PICK v : v = [u EXCEPT !.node = id]
    OBVIOUS
  <2>4. v \in Request
    BY <1>4, <2>2, <2>3 DEF Request
  <2>5. PICK p \in {"cacheobj", "findold"} : p = IF versioned THEN "cacheobj" ELSE "findold"
    OBVIOUS
  <2>6. v = [req[r] EXCEPT !.oid = r, !.node = IF versioned THEN r ELSE First]
    BY <1>1, <1>3, <2>1, <2>3 DEF Request
  <2>7. y = [v EXCEPT !.pc = p]
    BY <1>5, <2>5, <2>6 DEF AfterAdd
  <2>8. y \in Request
    BY <2>4, <2>5, <2>7 DEF Request
  <2> QED
    BY <1>1, <1>2, <2>1, <2>3, <2>5, <2>7, <2>8 DEF Request
<1>7. AtStep(r, y) /\ GoesOn(y, req[r])
  BY <1>1, <1>2, <1>4, <1>6 DEF AtStep, GoesOn, At
<1> QED
  BY <1>3, <1>5, <1>6, <1>7 DEF HasAdded

LEMMA KnownAdded ==
  ASSUME Lasts, NEW r \in Requests, NEW x, Moves(r, x), x.op = "put", x.node # None
  PROVE  Known' = Known \cup {r}
<1>1. Known \subseteq Known' /\ r \in Known'
  BY KnownStays DEF Known, Moves
<1>2. ASSUME NEW o \in Requests, o # r, req'[o].op = "put", req'[o].node # None
      PROVE  o \in Known
  BY <1>2 DEF Moves, Known
<1> QED
  BY <1>1, <1>2 DEF Known

LEMMA AddVersionKeeps ==
  ASSUME IInv, NEW r \in Requests, AddVersion(r)
  PROVE  IInv'
<1>1. /\ At(r, "add") /\ Active(r) /\ req[r] \in Request /\ AtStep(r, req[r])
      /\ Placed(req[r]) /\ UNCHANGED <<versioned, tagNodes, caches>>
  BY RequestFacts DEF AddVersion, Active, At
<1>2. req[r].op = "put" /\ req[r].node = None /\ req[r].oid = None /\ req[r].below = None
      /\ req[r].res = "none" /\ ~req[r].alias
  BY <1>1 DEF AtStep, At
<1>3. PICK id : id = IF versioned THEN r ELSE First
  OBVIOUS
<1>4. id \in Objects /\ id # None /\ r \in Objects /\ r # None /\ r # First
  BY <1>3 DEF Objects, IInv, ConstantsDiffer
<1>5. PICK y : HasAdded(r, y)
  BY VersionAdded
<1>6. /\ y \in Request /\ y.op = "put" /\ y.node = id /\ y.oid = r /\ y.res = "none"
      /\ y.pc = (IF versioned THEN "cacheobj" ELSE "findold")
      /\ y.vid = req[r].vid /\ y.tags = req[r].tags /\ y.prior = req[r].prior
      /\ y.below = None /\ ~y.alias
  BY <1>2, <1>3, <1>5 DEF HasAdded, GoesOn, AtStep
<1>7. AtStep(r, y) /\ GoesOn(y, req[r]) /\ Replied(r, y)
  BY <1>5 DEF HasAdded
<1>8. PICK x : Variant(x, y) /\ AtStep(r, x) /\ GoesOn(x, req[r]) /\ Moves(r, x)
  BY <1>1, <1>6, <1>7, OneMoves
<1>9. Lasts
  BY <1>1, <1>6, <1>7, OneMoves
<1>10. /\ req'[r] = x /\ x.op = "put" /\ x.node = id /\ x.oid = r /\ x.res # "ok"
       /\ ~x.alias /\ x.below = None /\ x.vid = req[r].vid /\ x.prior = req[r].prior
       /\ x.pc # "done" => x.pc = (IF versioned THEN "cacheobj" ELSE "findold")
       /\ x \in Request
  BY <1>2, <1>6, <1>8 DEF Variant, Moves
<1>11. Known' = Known \cup {r}
  BY <1>4, <1>8, <1>9, <1>10, KnownAdded
<1>12. /\ nodes' \in Seq(Node) /\ nodes' # <<>> /\ (~versioned => Len(nodes') = 1)
       /\ \A n \in ToSet(nodes)' : Pair(n.id, n.oid)'
       /\ \A o \in Known' : \E n \in ToSet(nodes)' : Pair(n.id, o)'
       /\ Ids' = Ids \cup {id} /\ (versioned => id \notin Ids)
       /\ OidOf(id)' = r
       /\ \A n \in Ids \ {id} : OidOf(n)' = OidOf(n)
  BY <1>1, <1>2, <1>3, <1>11, AddedNode DEF AddVersion
<1>13. Finished \subseteq Finished' /\ \A i, o : Pair(i, o) => Pair(i, o)'
  BY <1>9, KnownStays
<1>14. TypeOK'
  <2>1. \A t \in tagNodes' : \E n \in ToSet(nodes)' : n.id = t.node
    <3>1. \A t \in tagNodes' : t.node \in Ids'
      BY <1>1, <1>12, TagFacts
    <3> QED
      BY <3>1 DEF Ids
  <2>2. versioned' \in BOOLEAN /\ tagNodes' \subseteq TagNode
        /\ \A s, t \in tagNodes' : s.id = t.id => s = t
    BY <1>1 DEF IInv, TypeOK
  <2>3. /\ tagCache' \in [Objects -> TagSets \cup {None}]
        /\ nodeCache' \in [Objects -> Objects \cup {None}]
    BY <1>1, CachesAreTyped DEF caches
  <2>4. req' \in [Requests -> Request] /\ faults' \in Nat
    BY <1>8 DEF Moves
  <2> QED
    BY <1>1, <1>12, <2>1, <2>2, <2>3, <2>4 DEF TypeOK
<1>15. ASSUME NEW q \in Requests
       PROVE  AtStep(q, req[q])' /\ Placed(req[q])' /\ req'[q].prior \subseteq Finished'
  <2>1. CASE q = r
    <3>1. Placed(x)'
      BY <1>1, <1>3, <1>10, <1>11 DEF Placed, Pair
    <3>2. AtStep(r, x)' /\ x.prior \subseteq Finished'
      BY <1>1, <1>8, <1>10, <1>13, RequestFacts DEF AtStep
    <3> QED
      BY <1>10, <2>1, <3>1, <3>2 DEF AtStep, Placed
  <2>2. CASE q # r
    <3>1. PICK z : z = req[q]
      OBVIOUS
    <3>2. req'[q] = z /\ z \in Request /\ AtStep(q, z) /\ Placed(z) /\ z.prior \subseteq Finished
      BY <1>8, <2>2, <3>1, RequestFacts DEF Moves
    <3>3. Placed(z)'
      BY <1>9, <3>2, PlacedStays
    <3>4. AtStep(q, z)'
      BY <1>1, <3>2 DEF AtStep
    <3> QED
      BY <1>13, <3>2, <3>3, <3>4 DEF AtStep, Placed
  <2> QED
    BY <2>1, <2>2
<1>16. \A t \in tagNodes' : TagPlaced(t)'
  BY <1>1, <1>9, TagPlacedStays
<1>17. \A o \in Objects : /\ tagCache'[o] # None => o \in Known'
                          /\ nodeCache'[o] # None => Pair(nodeCache[o], o)'
  <2> SUFFICES ASSUME NEW o \in Objects
               PROVE  /\ tagCache'[o] # None => o \in Known'
                      /\ nodeCache'[o] # None => Pair(nodeCache[o], o)'
    OBVIOUS
  <2>1. tagCache'[o] # None => o \in Known'
    BY <1>1, <1>11 DEF IInv, caches
  <2>2. nodeCache' = nodeCache /\ (nodeCache[o] # None => Pair(nodeCache[o], o))
    BY <1>1 DEF IInv, caches
  <2> QED
    BY <1>1, <1>11, <2>1, <2>2 DEF Pair
<1>18. \A n : TagsBelow(n)' = TagsBelow(n)
  BY <1>1 DEF TagsBelow
<1>19. Kept(id)'
  <2>1. r \in Writers(id)'
    BY <1>10 DEF Writers, Writes
  <2>2. ASSUME Calm(id)'
        PROVE  /\ \A s, t \in TagsBelow(id)' : s = t
               /\ \A t \in TagsBelow(id)' : Fits(t)'
               /\ x.pc # "done" => Sees(r, x, id)'
    <3>1. CASE versioned
      <4>1. TagsBelow(id)' = {}
        BY <1>12, <1>18, <3>1, TagFacts DEF TagsBelow
      <4> QED
        BY <1>10, <1>12, <3>1, <4>1 DEF Sees
    <3>2. CASE ~versioned
      <4>1. id = First /\ id \in Ids
        BY <1>3, <3>2, PairFacts DEF Pair, Known
      <4>2. \A s, t \in TagsBelow(id) : s = t
        BY <2>2, <4>1, <1>9, WritersStay DEF IInv, Kept
      <4>3. ASSUME NEW t \in TagsBelow(id) PROVE Fits(t)'
        <5>1. t.node = id /\ t.by \in Requests /\ req[t.by].node # None
          BY <4>3, TagFacts DEF TagsBelow, TagPlaced
        <5>2. t.by # r /\ ~Acked(r)'
          BY <1>2, <1>10, <5>1 DEF Acked
        <5> QED
          BY <1>10, <2>1, <5>1, <5>2 DEF Fits
      <4> QED
        BY <1>10, <1>12, <1>18, <3>2, <4>2, <4>3 DEF Sees
    <3> QED
      BY <3>1, <3>2
  <2> QED
    BY <1>8, <1>10, <2>1, <2>2, KeptByTurn
<1>20. ASSUME NEW n \in Ids, n # id PROVE Kept(n)'
  <2>1. r \notin Writers(n)' /\ r \notin Writers(n)
    BY <1>2, <1>10, <1>20, NodeFacts DEF Writers
  <2>2. Writers(n)' = Writers(n) /\ \A q \in Writers(n) : req'[q] = req[q]
    BY <1>8, <2>1 DEF Writers, Writes, Moves
  <2>3. OidOf(n)' = OidOf(n)
    BY <1>12, <1>20
  <2> QED
    BY <1>9, <1>18, <2>2, <2>3, KeptByOthers
<1>21. \A n \in Ids' : Kept(n)'
  BY <1>12, <1>19, <1>20
<1> QED
  BY <1>12, <1>14, <1>15, <1>16, <1>17, <1>21 DEF IInv, ConstantsDiffer
---------------------------------------------------------------------------
(* The other steps *)

(* A step that leaves versions and tags as they are, and writes no cache.  *)
LEMMA StoresStay ==
  ASSUME IInv, UNCHANGED stores, Lasts, Known' \subseteq Known,
         req' \in [Requests -> Request], faults' \in Nat,
         \A q \in Requests :
           AtStep(q, req[q])' /\ Placed(req[q])' /\ req'[q].prior \subseteq Finished',
         tagCache' \in [Objects -> TagSets \cup {None}],
         nodeCache' \in [Objects -> Objects \cup {None}],
         \A o \in Objects : /\ tagCache'[o] \in {tagCache[o], None}
                            /\ nodeCache'[o] \in {nodeCache[o], None},
         \A n \in Ids : Kept(n)'
  PROVE  IInv'
<1>1. UNCHANGED <<versioned, nodes, tagNodes>> /\ Ids' = Ids
  BY DEF stores, Ids
<1>2. Known' = Known /\ \A i, o : Pair(i, o)' <=> Pair(i, o)
  BY <1>1, KnownStays DEF Pair
<1>3. TypeOK'
  BY <1>1 DEF IInv, TypeOK
<1>4. /\ \A n \in ToSet(nodes)' : Pair(n.id, n.oid)'
      /\ \A o \in Known' : \E n \in ToSet(nodes)' : Pair(n.id, o)'
  BY <1>1, <1>2 DEF IInv
<1>5. \A t \in tagNodes' : TagPlaced(t)'
  BY <1>1, TagPlacedStays
<1>6. ASSUME NEW o \in Objects
      PROVE  /\ tagCache'[o] # None => o \in Known'
             /\ nodeCache'[o] # None => Pair(nodeCache[o], o)'
  <2>1. tagCache[o] # None => o \in Known
    BY DEF IInv
  <2>2. nodeCache[o] # None => Pair(nodeCache[o], o)
    BY DEF IInv
  <2> QED
    BY <1>1, <1>2, <2>1, <2>2 DEF Pair
<1> QED
  BY <1>1, <1>3, <1>4, <1>5, <1>6 DEF IInv, ConstantsDiffer

(* The tags stay, and no request but such as are over, or work on none.    *)
LEMMA KeptAtRest ==
  ASSUME IInv, UNCHANGED stores, Lasts, NEW n \in Ids, Writers(n)' = Writers(n),
         \A q \in Writers(n) : /\ req'[q] = req[q] \/ At(q, "done")'
                               /\ Acked(q)' => req'[q] = req[q]
  PROVE  Kept(n)'
<1> SUFFICES ASSUME Calm(n)' PROVE Kept(n)'
  BY DEF Kept
<1>1. /\ TagsBelow(n)' = TagsBelow(n) /\ OidOf(n)' = OidOf(n)
      /\ Calm(n) /\ Kept(n) /\ n # None
  BY WritersStay, NodeFacts DEF stores, TagsBelow, OidOf, IInv
<1>2. ASSUME NEW t \in TagsBelow(n) PROVE Fits(t)'
  <2>1. t \in tagNodes /\ t.node = n /\ Fits(t)
    BY <1>1, <1>2 DEF TagsBelow, Kept
  <2>2. t.by \in Requests /\ req[t.by].node = n
    BY <2>1, TagFacts DEF TagPlaced
  <2>3. req'[t.by].alias <=> req[t.by].alias
    BY <1>1, <2>2 DEF Lasts
  <2>4. ASSUME NEW q \in Writers(n), req[q].op = "put", ~Acked(q)
        PROVE  req'[q].op = "put" /\ ~Acked(q)'
    BY <1>1, <2>4 DEF Lasts, Writers, Acked
  <2> QED
    BY <1>1, <2>1, <2>3, <2>4 DEF Fits
<1>3. ASSUME NEW q \in Writers(n)
      PROVE  /\ Active(q)' => Sees(q, req[q], n)'
             /\ Acked(q)' /\ Writers(n) \ {q} \subseteq req'[q].prior => Stands(q, req[q], n)'
  <2>1. /\ Active(q) => Sees(q, req[q], n)
        /\ Acked(q) /\ Writers(n) \ {q} \subseteq req[q].prior => Stands(q, req[q], n)
    BY <1>1 DEF Kept
  <2>2. Active(q)' \/ Acked(q)' => req'[q] = req[q]
    BY DEF Active, At
  <2> QED
    BY <1>1, <2>1, <2>2 DEF Sees, Stands, Active, Acked
<1> QED
  BY <1>1, <1>2, <1>3 DEF Kept

LEMMA BeginKeeps ==
  ASSUME IInv, NEW r \in Requests,
         NEW op \in {"put", "tag", "get", "untag"}, NEW vid \in Known \cup {"latest"},
         NEW tags \in TagSets \cup {None}, NEW p, Begin(r, op, vid, tags, p),
         p = (IF op = "put" THEN "add" ELSE "find"),
         op = "tag" => tags # None, op \in {"get", "untag"} => tags = None
  PROVE  IInv'
<1>1. At(r, "idle") /\ AtStep(r, req[r]) /\ UNCHANGED <<stores, caches, faults>>
      /\ req \in [Requests -> Request] /\ faults \in Nat
  BY RequestFacts DEF Begin, Step, IInv, TypeOK
<1>2. req[r].op = "none" /\ req[r].node = None
  BY <1>1 DEF AtStep, At
<1>3. PICK x : x = [Idle EXCEPT !.op = op, !.vid = vid, !.tags = tags, !.pc = p, !.prior = Finished]
  OBVIOUS
<1>4. /\ x.op = op /\ x.vid = vid /\ x.tags = tags /\ x.pc = p /\ x.prior = Finished
      /\ x.node = None /\ x.oid = None /\ x.below = None /\ x.got = None /\ x.res = "none"
      /\ ~x.alias
  BY <1>3 DEF Idle
<1>5. x \in Request
  <2>1. x = [op |-> op, vid |-> vid, tags |-> tags, pc |-> p, node |-> None, oid |-> None,
             below |-> None, got |-> None, res |-> "none", alias |-> FALSE, prior |-> Finished]
    BY <1>3 DEF Idle
  <2>2. vid \in Objects \cup {"latest"} /\ Finished \in SUBSET Requests
    BY DEF Known, Objects, Finished
  <2>3. p \in {"add", "find"}
    OBVIOUS
  <2> QED
    BY <2>1, <2>2, <2>3 DEF Request
<1>6. req' = [req EXCEPT ![r] = x]
  BY <1>3 DEF Begin, Step
<1>7. /\ req' \in [Requests -> Request] /\ req'[r] = x
      /\ \A q \in Requests \ {r} : req'[q] = req[q]
  BY <1>1, <1>5, <1>6
<1>8. Lasts
  BY <1>1, <1>2, <1>7 DEF Lasts, At, stores
<1>9. Known' \subseteq Known
  <2>1. ASSUME NEW o \in Requests, req'[o].op = "put", req'[o].node # None PROVE o \in Known
    BY <1>4, <1>7, <2>1 DEF Known
  <2> QED
    BY <2>1 DEF Known
<1>10. ASSUME NEW q \in Requests
       PROVE  AtStep(q, req[q])' /\ Placed(req[q])' /\ req'[q].prior \subseteq Finished'
  <2>1. PICK z : z = req'[q]
    OBVIOUS
  <2>2. z \in Request /\ AtStep(q, z) /\ Placed(z) /\ z.prior \subseteq Finished
    <3>1. CASE q = r
      <4>1. AtStep(r, x)
        BY <1>4 DEF AtStep
      <4>2. Placed(x)
        BY <1>4 DEF Placed
      <4> QED
        BY <1>4, <1>5, <1>7, <2>1, <3>1, <4>1, <4>2
    <3>2. CASE q # r
      BY <1>7, <2>1, <3>2, RequestFacts
    <3> QED
      BY <3>1, <3>2
  <2>3. Placed(z)' /\ Finished \subseteq Finished'
    BY <1>8, <2>2, PlacedStays, KnownStays
  <2>4. AtStep(q, z)'
    BY <1>1, <2>2 DEF AtStep, stores
  <2> QED
    BY <2>1, <2>2, <2>3, <2>4 DEF AtStep, Placed
<1>11. ASSUME NEW n \in Ids PROVE Kept(n)'
  <2>1. r \notin Writers(n)' /\ r \notin Writers(n)
    BY <1>2, <1>4, <1>7, NodeFacts DEF Writers
  <2>2. Writers(n)' = Writers(n) /\ \A q \in Writers(n) : req'[q] = req[q]
    BY <1>7, <2>1 DEF Writers, Writes
  <2> QED
    BY <1>1, <1>8, <2>2, KeptAtRest
<1> QED
  BY <1>1, <1>7, <1>8, <1>9, <1>10, <1>11, CachesAreTyped, StoresStay DEF caches

LEMMA BeginStepKeeps ==
  ASSUME IInv, NEW r \in Requests,
         BeginPut(r) \/ BeginTag(r) \/ BeginGet(r) \/ BeginUntag(r)
  PROVE  IInv'
<1>1. None \notin TagSets
  BY DEF IInv, ConstantsDiffer
<1>2. CASE BeginPut(r)
  <2>1. PICK tags \in TagSets \cup {None} : Begin(r, "put", "latest", tags, "add")
    BY <1>2 DEF BeginPut
  <2> QED
    BY <2>1, BeginKeeps
<1>3. CASE BeginTag(r)
  <2>1. PICK v \in Known \cup {"latest"}, tags \in TagSets : Begin(r, "tag", v, tags, "find")
    BY <1>3 DEF BeginTag
  <2> QED
    BY <1>1, <2>1, BeginKeeps
<1>4. CASE BeginGet(r)
  <2>1. PICK v \in Known \cup {"latest"} : Begin(r, "get", v, None, "find")
    BY <1>4 DEF BeginGet
  <2> QED
    BY <2>1, BeginKeeps
<1>5. CASE BeginUntag(r)
  <2>1. PICK v \in Known \cup {"latest"} : Begin(r, "untag", v, None, "find")
    BY <1>5 DEF BeginUntag
  <2> QED
    BY <2>1, BeginKeeps
<1> QED
  BY <1>2, <1>3, <1>4, <1>5

(* Nothing happens but to the caches.                                      *)
LEMMA OnlyCaches ==
  ASSUME IInv, UNCHANGED <<stores, req, faults>>,
         tagCache' \in [Objects -> TagSets \cup {None}],
         nodeCache' \in [Objects -> Objects \cup {None}],
         \A o \in Objects : /\ tagCache'[o] \in {tagCache[o], None}
                            /\ nodeCache'[o] \in {nodeCache[o], None}
  PROVE  IInv'
<1>1. Lasts /\ Known' = Known /\ Finished' = Finished
  BY DEF Lasts, stores, Known, Finished
<1>2. ASSUME NEW q \in Requests
      PROVE  AtStep(q, req[q])' /\ Placed(req[q])' /\ req'[q].prior \subseteq Finished'
  <2>1. versioned' = versioned /\ req' = req
    BY DEF stores
  <2> QED
    BY <1>1, <2>1, RequestFacts DEF AtStep, Placed, Pair
<1>3. ASSUME NEW n \in Ids PROVE Kept(n)'
  <2>1. Writers(n)' = Writers(n)
    BY DEF Writers, Writes
  <2> QED
    BY <1>1, <2>1, KeptAtRest
<1>4. req' \in [Requests -> Request] /\ faults' \in Nat
  BY DEF IInv, TypeOK
<1> QED
  BY <1>1, <1>2, <1>3, <1>4, StoresStay

LEMMA ExpireKeeps ==
  ASSUME IInv, Expire
  PROVE  IInv'
<1>1. PICK o \in Objects :
        \/ tagCache' = [tagCache EXCEPT ![o] = None] /\ UNCHANGED nodeCache
        \/ nodeCache' = [nodeCache EXCEPT ![o] = None] /\ UNCHANGED tagCache
  BY DEF Expire
<1>2. /\ tagCache' \in [Objects -> TagSets \cup {None}]
      /\ nodeCache' \in [Objects -> Objects \cup {None}]
      /\ \A q \in Objects : /\ tagCache'[q] \in {tagCache[q], None}
                            /\ nodeCache'[q] \in {nodeCache[q], None}
  BY <1>1, CachesAreTyped
<1> QED
  BY <1>2, OnlyCaches DEF Expire

LEMMA CrashKeeps ==
  ASSUME IInv, Crash
  PROVE  IInv'
<1>1. req \in [Requests -> Request] /\ faults \in Nat
  BY DEF IInv, TypeOK
<1>2. ASSUME NEW q \in Requests
      PROVE  /\ req'[q] \in Request /\ AtStep(q, req'[q])
             /\ req'[q].op = req[q].op /\ req'[q].vid = req[q].vid /\ req'[q].tags = req[q].tags
             /\ req'[q].node = req[q].node /\ req'[q].oid = req[q].oid
             /\ req'[q].below = req[q].below /\ (req'[q].alias <=> req[q].alias)
             /\ req'[q].prior = req[q].prior
             /\ IF Active(q) THEN req'[q].pc = "done" /\ req'[q].res = "crashed"
                ELSE req'[q] = req[q]
  <2>1. req'[q] = IF Active(q) THEN Done(req[q], "crashed") ELSE req[q]
    BY DEF Crash
  <2>2. req[q] \in Request /\ AtStep(q, req[q])
    BY RequestFacts
  <2>3. CASE Active(q)
    <3>1. AtStep(q, Done(req[q], "crashed"))
      BY <2>2, <2>3, DoneAtStep DEF Active
    <3> QED
      BY <2>1, <2>2, <2>3, <3>1, DoneIs
  <2>4. CASE ~Active(q)
    BY <2>1, <2>2, <2>4
  <2> QED
    BY <2>3, <2>4
<1>3. req' \in [Requests -> Request]
  <2>1. req' = [q \in Requests |-> IF Active(q) THEN Done(req[q], "crashed") ELSE req[q]]
    BY DEF Crash
  <2> QED
    BY <1>2, <2>1
<1>4. faults' \in Nat /\ UNCHANGED stores
  BY <1>1 DEF Crash
<1>5. Lasts
  BY <1>2, <1>4 DEF Lasts, stores, Active, At
<1>6. Known' = Known
  BY <1>2 DEF Known
<1>7. ASSUME NEW q \in Requests
      PROVE  AtStep(q, req[q])' /\ Placed(req[q])' /\ req'[q].prior \subseteq Finished'
  <2>1. PICK z : z = req'[q]
    OBVIOUS
  <2>2. z \in Request /\ AtStep(q, z) /\ z.prior \subseteq Finished
    BY <1>2, <2>1, RequestFacts
  <2>3. Placed(z)
    BY <1>2, <2>1, RequestFacts DEF Placed
  <2>4. Placed(z)' /\ Finished \subseteq Finished'
    BY <1>5, <2>2, <2>3, PlacedStays, KnownStays
  <2>5. AtStep(q, z)'
    BY <1>4, <2>2 DEF AtStep, stores
  <2> QED
    BY <2>1, <2>2, <2>4, <2>5 DEF AtStep, Placed
<1>8. ASSUME NEW n \in Ids PROVE Kept(n)'
  <2>1. Writers(n)' = Writers(n)
    BY <1>2 DEF Writers, Writes
  <2>2. \A q \in Writers(n) : /\ req'[q] = req[q] \/ At(q, "done")'
                              /\ Acked(q)' => req'[q] = req[q]
    BY <1>2 DEF Writers, At, Acked
  <2> QED
    BY <1>4, <1>5, <2>1, <2>2, KeptAtRest
<1>9. /\ tagCache' = [o \in Objects |-> None] /\ nodeCache' = [o \in Objects |-> None]
  BY DEF Crash
<1>10. /\ tagCache' \in [Objects -> TagSets \cup {None}]
       /\ nodeCache' \in [Objects -> Objects \cup {None}]
       /\ \A o \in Objects : tagCache'[o] = None /\ nodeCache'[o] = None
  BY <1>9
<1> QED
  BY <1>3, <1>4, <1>5, <1>6, <1>7, <1>8, <1>10, StoresStay

LEMMA InitHolds ==
  ASSUME ConstantsDiffer, Init
  PROVE  IInv
<1>1. \A r \in Requests : req[r] = Idle
  BY DEF Init
<1>2. First \in Objects /\ First \in Known /\ Known = {First}
  BY <1>1 DEF Known, Objects, Idle
<1>3. Idle \in Request
  BY DEF Idle, Request
<1>4. PICK m : m = [id |-> First, oid |-> First]
  OBVIOUS
<1>5. m \in Node /\ m.id = First /\ m.oid = First /\ nodes = <<m>>
  BY <1>2, <1>4 DEF Node, Init
<1>6. ToSet(nodes) = {m} /\ nodes \in Seq(Node) /\ nodes # <<>> /\ Len(nodes) = 1
  <2>1. Len(<<m>>) = 1 /\ <<m>>[1] = m /\ <<m>> \in Seq(Node)
    BY <1>5
  <2>2. DOMAIN <<m>> = {1}
    BY <2>1
  <2> QED
    BY <1>5, <2>1, <2>2 DEF ToSet
<1>7. Pair(First, First)
  BY <1>2 DEF Pair
<1>8. tagNodes = {} /\ \A o \in Objects : tagCache[o] = None /\ nodeCache[o] = None
  BY DEF Init
<1>9. TypeOK
  <2>1. versioned \in BOOLEAN /\ faults \in Nat /\ req \in [Requests -> Request]
    BY <1>3 DEF Init
  <2>2. /\ tagCache \in [Objects -> TagSets \cup {None}]
        /\ nodeCache \in [Objects -> Objects \cup {None}]
    BY DEF Init
  <2> QED
    BY <1>6, <1>8, <2>1, <2>2 DEF TypeOK
<1>10. \A n \in ToSet(nodes) : Pair(n.id, n.oid)
  BY <1>5, <1>6, <1>7
<1>11. \A o \in Known : \E n \in ToSet(nodes) : Pair(n.id, o)
  BY <1>2, <1>5, <1>6, <1>7
<1>12. ASSUME NEW r \in Requests
       PROVE  AtStep(r, req[r]) /\ Placed(req[r]) /\ req[r].prior \subseteq Finished
  <2>1. AtStep(r, Idle)
    BY DEF AtStep, Idle
  <2>2. Placed(Idle) /\ Idle.prior = {}
    BY DEF Placed, Idle
  <2> QED
    BY <1>1, <2>1, <2>2
<1>13. ASSUME NEW n \in Ids PROVE Kept(n)
  <2>1. TagsBelow(n) = {} /\ Writers(n) = {}
    BY <1>1, <1>8 DEF TagsBelow, Writers, Writes, Idle
  <2> QED
    BY <2>1 DEF Kept
<1> QED
  BY <1>8, <1>9, <1>10, <1>11, <1>12, <1>13 DEF IInv

LEMMA StepKeeps ==
  ASSUME IInv, [Next]_vars
  PROVE  IInv'
<1>1. CASE UNCHANGED vars
  BY <1>1, CachesAreTyped, OnlyCaches DEF vars, caches
<1>2. ASSUME NEW r \in Requests, RequestStep(r) PROVE IInv'
  BY <1>2, BeginStepKeeps, AddVersionKeeps, FindOutdatedKeeps, RemoveKeeps,
     CacheObjectKeeps, CachedKeeps, FindVersionKeeps, ReadTagsKeeps, WriteTagsKeeps,
     CacheTagsKeeps, CallFailsKeeps DEF RequestStep
<1>3. CASE Expire
  BY <1>3, ExpireKeeps
<1>4. CASE Crash
  BY <1>4, CrashKeeps
<1> QED
  BY <1>1, <1>2, <1>3, <1>4 DEF Next

---------------------------------------------------------------------------
(* The invariant, and what it says *)

(* At every call of the requests of api/layer/tagging.go what a request    *)
(* knows of its version is so, and where the changes below a version's     *)
(* node came one at a time its tags are the last request's.                *)
THEOREM InvariantHolds ==
  ASSUME ConstantsDiffer
  PROVE  Spec => []IInv
<1>1. Init => IInv
  BY InitHolds
<1>2. IInv /\ [Next]_vars => IInv'
  BY StepKeeps
<1> QED
  BY <1>1, <1>2, PTL DEF Spec

(* The stores, the caches and the requests of api/layer/tagging.go keep    *)
(* their form: tags lie below a version's node, one node has one id, and   *)
(* without versioning there is one version node.                           *)
THEOREM TypeCorrect ==
  ASSUME ConstantsDiffer
  PROVE  Spec => []TypeOK
<1>1. IInv => TypeOK
  BY DEF IInv
<1> QED
  BY <1>1, InvariantHolds, PTL

LEMMA NotInherited ==
  ASSUME IInv
  PROVE  NoInheritedTags
<1> SUFFICES ASSUME NEW t \in tagNodes, Calm(t.node), t.of # OidOf(t.node)
             PROVE  \/ req[t.by].alias
                    \/ \E q \in Writers(t.node) \ {t.by} : req[q].op = "put" /\ ~Acked(q)
  BY DEF NoInheritedTags
<1>1. t.node \in Ids /\ t \in TagsBelow(t.node)
  BY TagFacts DEF TagsBelow
<1>2. Fits(t)
  BY <1>1 DEF IInv, Kept
<1> QED
  BY <1>2 DEF Fits

(* Where the changes come one at a time, AddVersion's cleaning of the node *)
(* it moves (clearOutdatedVersionInfo) leaves a version no tags but its    *)
(* own.                                                                    *)
THEOREM TagsNotInherited ==
  ASSUME ConstantsDiffer
  PROVE  Spec => []NoInheritedTags
<1>1. IInv => NoInheritedTags
  BY NotInherited
<1> QED
  BY <1>1, InvariantHolds, PTL

LEMMA LastStand ==
  ASSUME IInv
  PROVE  LastTagsStand
<1> SUFFICES ASSUME NEW n \in Ids, Calm(n), NEW r \in Writers(n),
                    Acked(r), Writers(n) \ {r} \subseteq req[r].prior
             PROVE  {t.tags : t \in TagsBelow(n)} = {req[r].tags} \ {None}
  BY DEF LastTagsStand
<1>1. Stands(r, req[r], n)
  BY DEF IInv, Kept
<1>2. \A t \in TagsBelow(n) : t \in tagNodes /\ t.by = r
  BY <1>1 DEF Stands, TagsBelow
<1>3. \A t \in TagsBelow(n) : t.tags = req[r].tags
  BY <1>2, TagFacts DEF TagPlaced
<1>4. CASE req[r].tags = None
  BY <1>1, <1>4 DEF Stands
<1>5. CASE req[r].tags # None
  BY <1>1, <1>3, <1>5 DEF Stands
<1> QED
  BY <1>4, <1>5

(* Where the changes come one at a time, the last PutObjectTagging or PUT  *)
(* that is acknowledged has its tags in the tree, and none are there after *)
(* the last DeleteObjectTagging, whatever failed before it.                *)
THEOREM LastTagsLast ==
  ASSUME ConstantsDiffer
  PROVE  Spec => []LastTagsStand
<1>1. IInv => LastTagsStand
  BY LastStand
<1> QED
  BY <1>1, InvariantHolds, PTL

---------------------------------------------------------------------------
(* Requests one at a time: what is cached is right *)

(* A request that began goes on, and what has failed stays so.             *)
SmoothBefore ==
  \A q \in Requests : ~At(q, "idle") =>
    /\ ~At(q, "idle")' /\ req'[q].prior = req[q].prior
    /\ req[q].res \in {"error", "crashed"} => req'[q].res = req[q].res

LEMMA WasSmooth ==
  ASSUME IInv, SmoothBefore, Smooth'
  PROVE  Smooth
<1>1. ASSUME NEW q \in Requests, NEW r \in Requests, q # r, ~At(q, "idle"), ~At(r, "idle")
      PROVE  ~Overlap(q, r)
  <2>1. ~Overlap(q, r)'
    BY <1>1 DEF SmoothBefore, Smooth
  <2> QED
    BY <1>1, <2>1 DEF SmoothBefore, Overlap
<1>2. ASSUME NEW r \in Requests PROVE req[r].res \notin {"error", "crashed"}
  <2>1. CASE At(r, "idle")
    BY <2>1, RequestFacts DEF AtStep, At
  <2>2. CASE ~At(r, "idle")
    BY <2>2 DEF SmoothBefore, Smooth
  <2> QED
    BY <2>1, <2>2
<1> QED
  BY <1>1, <1>2 DEF Smooth

LEMMA OneActive ==
  ASSUME IInv, Smooth, NEW r \in Requests, Active(r), NEW q \in Requests, Active(q)
  PROVE  q = r
<1>1. req[q].prior \subseteq Finished /\ req[r].prior \subseteq Finished
  BY RequestFacts
<1> QED
  BY <1>1 DEF Smooth, Overlap, Active, At, Finished

LEMMA AllCalm ==
  ASSUME IInv, Smooth, NEW n
  PROVE  Calm(n)
<1>1. \A q \in Writers(n) : q \in Requests /\ ~At(q, "idle")
  BY RequestFacts DEF Writers, Writes, AtStep, At
<1> QED
  BY <1>1 DEF Smooth, Calm

(* Neither the tags below the version n nor what is cached for it change,  *)
(* but that it may be forgotten.                                           *)
LEMMA CachedStays ==
  ASSUME IInv, FreshInv, Smooth, Lasts, NEW n \in ToSet(nodes),
         tagCache'[n.oid] \in {tagCache[n.oid], None},
         TagsBelow(n.id)' = TagsBelow(n.id),
         \A q \in Writers(n.id) :
           req[q].oid = n.oid /\ req[q].pc \in {"cache", "drop"} => req'[q] = req[q]
  PROVE  CachedRight(n)'
<1>1. TagsOf(n.id)' = TagsOf(n.id)
  BY DEF TagsOf
<1>2. CASE tagCache[n.oid] \in TagsOf(n.id) \cup {None}
  BY <1>1, <1>2 DEF CachedRight
<1>3. ASSUME NEW q \in Writers(n.id),
             req[q].alias \/ (req[q].oid = n.oid /\ req[q].pc \in {"cache", "drop"})
      PROVE  CachedRight(n)'
  <2>1. n.id \in Ids /\ n.id # None
    BY NodeFacts
  <2>2. q \in Writers(n.id)' /\ (req'[q].alias <=> req[q].alias)
    BY <2>1, WritersStay DEF Lasts, Writers
  <2>3. req'[q].alias \/ (req'[q].oid = n.oid /\ req'[q].pc \in {"cache", "drop"})
    BY <1>3, <2>2
  <2> QED
    BY <2>2, <2>3 DEF CachedRight
<1> QED
  BY <1>2, <1>3 DEF FreshInv, CachedRight

(* What a step of r with y must show.                                      *)
LEMMA FreshStep ==
  ASSUME IInv, FreshInv, NEW r \in Requests, NEW y \in Request, AtStep(r, y),
         GoesOn(y, req[r]), Replied(r, y), versioned' = versioned,
         Smooth /\ Moves(r, y) /\ Works(r, req[r]) =>
           /\ y.pc # "done" => Works(r, y)'
           /\ \A n \in ToSet(nodes)' : CachedRight(n)'
  PROVE  FreshInv'
<1> SUFFICES ASSUME Smooth'
             PROVE  /\ \A q \in Requests : Active(q)' => Works(q, req[q])'
                    /\ \A n \in ToSet(nodes)' : CachedRight(n)'
  BY DEF FreshInv
<1>1. Active(r)
  BY OneMoves
<1>2. PICK x : Variant(x, y) /\ GoesOn(x, req[r]) /\ Moves(r, x)
  BY OneMoves
<1>3. x = y
  BY <1>2 DEF Smooth, Moves, Variant
<1>4. req'[r] = y /\ \A q \in Requests \ {r} : req'[q] = req[q]
  BY <1>2, <1>3 DEF Moves
<1>5. SmoothBefore
  BY <1>1, <1>4, RequestFacts DEF SmoothBefore, GoesOn, At, Active, AtStep
<1>6. Smooth
  BY <1>5, WasSmooth
<1>7. Works(r, req[r])
  BY <1>1, <1>6 DEF FreshInv
<1>8. /\ y.pc # "done" => Works(r, y)'
      /\ \A n \in ToSet(nodes)' : CachedRight(n)'
  BY <1>2, <1>3, <1>6, <1>7
<1>9. ASSUME NEW q \in Requests, Active(q)' PROVE Works(q, req[q])'
  <2>1. CASE q = r
    BY <1>4, <1>8, <1>9, <2>1 DEF Active, Works
  <2>2. CASE q # r
    <3>1. Active(q)
      BY <1>4, <1>9, <2>2 DEF Active
    <3> QED
      BY <1>1, <1>6, <2>2, <3>1, OneActive
  <2> QED
    BY <2>1, <2>2
<1> QED
  BY <1>8, <1>9

(* A step that leaves the tags and what is cached of them as they are.     *)
LEMMA QuietFresh ==
  ASSUME IInv, FreshInv, NEW r \in Requests, NEW y \in Request, AtStep(r, y),
         GoesOn(y, req[r]), Replied(r, y), UNCHANGED <<stores, tagCache>>,
         req[r].pc \notin {"cache", "drop"},
         Works(r, req[r]) /\ y.pc # "done" => Works(r, y)
  PROVE  FreshInv'
<1>1. UNCHANGED <<versioned, nodes, tagNodes, tagCache>>
  BY DEF stores
<1>2. Lasts
  BY <1>1, OneMoves
<1>3. \A n : TagsBelow(n)' = TagsBelow(n) /\ OidOf(n)' = OidOf(n)
  BY <1>1 DEF TagsBelow, OidOf
<1>4. ASSUME Works(r, y) PROVE Works(r, y)'
  BY <1>1, <1>3, <1>4 DEF Works, TagsOf
<1>5. ASSUME Smooth, Moves(r, y), NEW n \in ToSet(nodes)' PROVE CachedRight(n)'
  <2>1. \A q \in Writers(n.id) : req[q].pc \in {"cache", "drop"} => req'[q] = req[q]
    BY <1>5 DEF Moves, Writers
  <2> QED
    BY <1>1, <1>2, <1>3, <1>5, <2>1, CachedStays
<1> QED
  BY <1>1, <1>4, <1>5, FreshStep

LEMMA FindOutdatedFresh ==
  ASSUME IInv, FreshInv, NEW r \in Requests, FindOutdated(r)
  PROVE  FreshInv'
<1>1. /\ At(r, "findold") /\ req[r] \in Request /\ AtStep(r, req[r])
      /\ UNCHANGED <<stores, tagCache>>
  BY RequestFacts DEF FindOutdated, caches
<1>2. req[r].op = "put" /\ req[r].node # None
  BY <1>1 DEF AtStep, At
<1>3. CASE TagsBelow(req[r].node) = {} /\ Step(r, [req[r] EXCEPT !.pc = "cacheobj"])
  <2>1. PICK y : y = [req[r] EXCEPT !.pc = "cacheobj"]
    OBVIOUS
  <2>2. y \in Request /\ AtStep(r, y) /\ GoesOn(y, req[r]) /\ Replied(r, y)
    BY <1>1, <1>2, <1>3, <2>1 DEF Request, AtStep, GoesOn, Replied, At
  <2>3. Works(r, req[r]) => Works(r, y)
    BY <1>1, <1>2, <2>1 DEF Works, Request
  <2> QED
    BY <1>1, <2>2, <2>3, QuietFresh DEF At
<1>4. ASSUME NEW t \in TagsBelow(req[r].node),
             Step(r, [req[r] EXCEPT !.pc = "clear", !.below = t.id])
      PROVE  FreshInv'
  <2>1. PICK z : z = [req[r] EXCEPT !.pc = "clear"]
    OBVIOUS
  <2>2. PICK y : y = [z EXCEPT !.below = t.id]
    OBVIOUS
  <2>3. t.id \in Requests /\ t.id # None
    BY TagFacts DEF TagsBelow, IInv, ConstantsDiffer, Objects
  <2>4. z \in Request
    BY <1>1, <2>1 DEF Request
  <2>5. y \in Request /\ Step(r, y)
    <3>1. y = [req[r] EXCEPT !.pc = "clear", !.below = t.id]
      BY <1>1, <2>1, <2>2 DEF Request
    <3>2. y \in Request
      BY <2>2, <2>3, <2>4 DEF Request
    <3> QED
      BY <1>4, <3>1, <3>2
  <2>6. AtStep(r, y) /\ GoesOn(y, req[r]) /\ Replied(r, y)
    BY <1>1, <1>2, <2>1, <2>2, <2>3, <2>4, <2>5 DEF Request, AtStep, GoesOn, Replied, At
  <2>7. Works(r, req[r]) => Works(r, y)
    <3>1. /\ y.op = "put" /\ y.node = req[r].node /\ y.oid = req[r].oid
          /\ (y.alias <=> req[r].alias)
      BY <1>1, <1>2, <2>1, <2>2 DEF Request
    <3> QED
      BY <1>2, <3>1 DEF Works
  <2> QED
    BY <1>1, <2>5, <2>6, <2>7, QuietFresh DEF At
<1> QED
  BY <1>3, <1>4 DEF FindOutdated

LEMMA CacheObjectFresh ==
  ASSUME IInv, FreshInv, NEW r \in Requests, CacheObject(r)
  PROVE  FreshInv'
<1>1. /\ At(r, "cacheobj") /\ req[r] \in Request /\ AtStep(r, req[r])
      /\ UNCHANGED <<stores, tagCache>>
  BY RequestFacts DEF CacheObject
<1>2. req[r].op = "put" /\ req[r].node # None
  BY <1>1 DEF AtStep, At
<1>3. PICK y : y = IF req[r].tags = None THEN Done(req[r], "ok")
                   ELSE [req[r] EXCEPT !.pc = "read"]
  OBVIOUS
<1>4. /\ y \in Request /\ AtStep(r, y) /\ y.node = req[r].node /\ y.oid = req[r].oid
      /\ (y.alias <=> req[r].alias) /\ y.tags = req[r].tags
      /\ y.vid = req[r].vid /\ y.op = req[r].op /\ y.prior = req[r].prior
      /\ y.pc \in {"done", "read"}
  <2>1. CASE req[r].tags = None
    <3>1. y = Done(req[r], "ok")
      BY <1>3, <2>1
    <3>2. AtStep(r, y)
      BY <1>1, <3>1, DoneAtStep DEF At
    <3> QED
      BY <1>1, <3>1, <3>2, DoneIs
  <2>2. CASE req[r].tags # None
    BY <1>1, <1>2, <1>3, <2>2 DEF Request, AtStep, At
  <2> QED
    BY <2>1, <2>2
<1>5. GoesOn(y, req[r]) /\ Replied(r, y)
  BY <1>1, <1>3, <1>4 DEF GoesOn, CacheObject, Replied, At
<1>6. Works(r, req[r]) => Works(r, y)
  BY <1>2, <1>4 DEF Works
<1> QED
  BY <1>1, <1>4, <1>5, <1>6, QuietFresh DEF At

(* A request that is over leaves nothing to be cached.                     *)
LEMMA DoneFresh ==
  ASSUME IInv, FreshInv, NEW r \in Requests, NEW y \in Request, AtStep(r, y),
         GoesOn(y, req[r]), y.pc = "done", Replied(r, y), UNCHANGED <<stores, tagCache>>,
         req[r].pc \notin {"cache", "drop"}
  PROVE  FreshInv'
BY QuietFresh

LEMMA CachedFresh ==
  ASSUME IInv, FreshInv, NEW r \in Requests, Cached(r)
  PROVE  FreshInv'
<1>1. /\ At(r, "find") /\ req[r].vid # "latest" /\ req[r].op = "get"
      /\ req[r] \in Request /\ AtStep(r, req[r]) /\ UNCHANGED <<stores, tagCache>>
  BY RequestFacts DEF Cached, caches
<1>2. PICK d : d = Done(req[r], "ok")
  OBVIOUS
<1>3. /\ d \in Request /\ AtStep(r, d) /\ d.pc = "done" /\ d.op = req[r].op /\ d.vid = req[r].vid
      /\ d.tags = req[r].tags /\ d.node = req[r].node /\ d.oid = req[r].oid
      /\ (d.alias <=> req[r].alias) /\ d.prior = req[r].prior
  <2>1. AtStep(r, d)
    BY <1>1, <1>2, DoneAtStep DEF At
  <2> QED
    BY <1>1, <1>2, <2>1, DoneIs
<1>4. PICK y : y = [d EXCEPT !.got = tagCache[req[r].vid]]
  OBVIOUS
<1>5. tagCache[req[r].vid] \in TagSets \cup {None}
  BY <1>1, CachesAreTyped DEF Request
<1>6. y \in Request /\ y.pc = "done" /\ AtStep(r, y) /\ GoesOn(y, req[r])
  BY <1>1, <1>3, <1>4, <1>5 DEF Request, AtStep, GoesOn, At
<1>7. Replied(r, y)
  BY <1>2, <1>4 DEF Cached, Replied
<1> QED
  BY <1>1, <1>6, <1>7, DoneFresh DEF At

LEMMA CallFailsFresh ==
  ASSUME IInv, FreshInv, NEW r \in Requests, CallFails(r)
  PROVE  FreshInv'
<1>1. PICK y : y = req[r]
  OBVIOUS
<1>2. /\ y \in Request /\ AtStep(r, y) /\ UNCHANGED <<stores, tagCache>>
      /\ req[r].pc \notin {"cache", "drop", "idle", "done"}
  BY <1>1, RequestFacts DEF CallFails, caches
<1>3. GoesOn(y, req[r]) /\ Replied(r, y)
  BY <1>1, <1>2 DEF GoesOn, Replied, CallFails
<1> QED
  BY <1>1, <1>2, <1>3, QuietFresh

LEMMA FindVersionFresh ==
  ASSUME IInv, FreshInv, NEW r \in Requests, FindVersion(r)
  PROVE  FreshInv'
<1>1. PICK y : HasFound(r, y)
  BY VersionFound
<1>2. At(r, "find") /\ AtStep(r, req[r]) /\ UNCHANGED <<stores, tagCache>>
  BY RequestFacts DEF FindVersion, caches
<1>3. ASSUME Works(r, req[r]), y.pc # "done" PROVE Works(r, y)
  <2>1. y.pc = "read" /\ y.got = req[r].got /\ (y.alias <=> y.oid # OidOf(y.node))
    BY <1>1, <1>3 DEF HasFound
  <2>2. y.op = req[r].op /\ y.op # "put"
    BY <1>1, <1>2 DEF HasFound, GoesOn, AtStep, At
  <2>3. y.op = "get" => req[r].got = None
    BY <1>2, <1>3, <2>2 DEF Works, At
  <2> QED
    BY <2>1, <2>2, <2>3 DEF Works
<1> QED
  BY <1>1, <1>2, <1>3, QuietFresh DEF HasFound, At

LEMMA ReadTagsFresh ==
  ASSUME IInv, FreshInv, NEW r \in Requests, ReadTags(r)
  PROVE  FreshInv'
<1>1. PICK y : HasRead(r, y)
  BY TagsRead
<1>2. At(r, "read") /\ AtStep(r, req[r]) /\ UNCHANGED <<stores, tagCache>>
  BY RequestFacts DEF ReadTags, caches
<1>3. ASSUME Works(r, req[r]) PROVE Works(r, y)
  <2>1. /\ req[r].node # None /\ y.node = req[r].node /\ y.oid = req[r].oid
        /\ (y.alias <=> req[r].alias) /\ y.op = req[r].op
    BY <1>1, <1>2 DEF HasRead, GoesOn, AtStep, At
  <2>2. ASSUME y.op = "get" PROVE y.got = None \/ (y.pc = "cache" /\ y.got \in TagsOf(y.node))
    <3>1. req[r].got = None /\ y.pc = "cache"
      BY <1>1, <1>2, <1>3, <2>1, <2>2 DEF Works, At, HasRead
    <3>2. y.got = req[r].got \/ \E t \in TagsBelow(y.node) : y.got = t.tags
      BY <1>1 DEF HasRead
    <3> QED
      BY <3>1, <3>2 DEF TagsOf
  <2> QED
    BY <1>3, <2>1, <2>2 DEF Works
<1>4. Replied(r, y)
  BY <1>1 DEF HasRead, Replied
<1> QED
  BY <1>1, <1>2, <1>3, <1>4, QuietFresh DEF HasRead, At

(* What a request that works on the one version of a node knows of it.     *)
LEMMA WorkerFacts ==
  ASSUME IInv, Smooth, NEW r \in Requests, Active(r), Writes(r), req[r].node # None
  PROVE  /\ Sees(r, req[r], req[r].node)
         /\ \A n \in ToSet(nodes) : n.id = req[r].node =>
              r \in Writers(n.id) /\ (req[r].alias \/ req[r].oid = n.oid)
<1>1. Calm(req[r].node)
  BY AllCalm
<1>2. Sees(r, req[r], req[r].node)
  BY <1>1, WriterFacts
<1>3. \A n \in ToSet(nodes) : OidOf(n.id) = n.oid
  BY OidFacts
<1> QED
  BY <1>2, <1>3 DEF Sees, Writers

(* A version without tags in the cache.                                    *)
LEMMA RemoveFresh ==
  ASSUME IInv, FreshInv, NEW r \in Requests, ClearOutdated(r) \/ RemoveTags(r)
  PROVE  FreshInv'
<1>1. PICK y : HasRemoved(r, y)
  BY TagsRemoved
<1>2. /\ req[r].pc \in {"clear", "remove"} /\ Active(r) /\ Writes(r) /\ req[r].node # None
      /\ ~req[r].alias /\ req[r].op \in {"put", "untag"} /\ (req[r].op = "put" => req[r].oid = r)
      /\ UNCHANGED <<versioned, nodes, tagCache>>
  BY RequestFacts DEF ClearOutdated, RemoveTags, Active, Writes, AtStep, At, caches
<1>3. /\ y.node = req[r].node /\ y.oid = req[r].oid /\ (y.alias <=> req[r].alias)
      /\ y.op = req[r].op /\ (y.op = "untag" => y.pc = "drop")
  BY <1>1, <1>2 DEF HasRemoved, GoesOn, AtStep
<1>4. Lasts
  BY <1>1, <1>2, OneMoves DEF HasRemoved
<1>5. ASSUME Works(r, req[r]) PROVE Works(r, y)'
  BY <1>2, <1>3, <1>5 DEF Works, OidOf
<1>6. ASSUME Smooth, Moves(r, y), Works(r, req[r]), NEW n \in ToSet(nodes)'
      PROVE  CachedRight(n)'
  <2>1. n \in ToSet(nodes) /\ tagCache' = tagCache
    BY <1>2
  <2>2. CASE n.id # req[r].node
    <3>1. \A q \in Writers(n.id) : req'[q] = req[q]
      BY <1>6, <2>2 DEF Moves, Writers
    <3> QED
      BY <1>4, <1>6, <2>1, <2>2, <3>1, RemovedBelow, CachedStays
  <2>3. CASE n.id = req[r].node
    <3>1. req[r].oid = n.oid
      BY <1>2, <1>6, <2>1, <2>3, WorkerFacts
    <3>2. CASE req[r].op = "put"
      <4>1. tagCache'[n.oid] = None
        BY <1>2, <1>6, <2>1, <3>1, <3>2 DEF Works
      <4> QED
        BY <4>1 DEF CachedRight
    <3>3. CASE req[r].op = "untag"
      <4>1. req'[r] = y
        BY <1>6 DEF Moves
      <4>2. r \in Writers(n.id)'
        BY <1>3, <2>3, <3>3, <4>1 DEF Writers, Writes
      <4>3. req'[r].oid = n.oid /\ req'[r].pc = "drop"
        BY <1>3, <3>1, <3>3, <4>1
      <4> QED
        BY <4>2, <4>3 DEF CachedRight
    <3> QED
      BY <1>2, <3>2, <3>3
  <2> QED
    BY <2>2, <2>3
<1> QED
  BY <1>1, <1>2, <1>5, <1>6, FreshStep DEF HasRemoved

LEMMA WriteTagsFresh ==
  ASSUME IInv, FreshInv, NEW r \in Requests, WriteTags(r)
  PROVE  FreshInv'
<1>1. PICK y : HasWritten(r, y)
  BY TagsWritten
<1>2. /\ At(r, "write") /\ Active(r) /\ Writes(r) /\ req[r].node # None
      /\ req[r].op \in {"put", "tag"} /\ UNCHANGED <<versioned, nodes, tagCache>>
  BY RequestFacts DEF WriteTags, Active, Writes, AtStep, At, caches
<1>3. /\ y.node = req[r].node /\ y.oid = req[r].oid /\ (y.alias <=> req[r].alias)
      /\ y.op = req[r].op /\ y.pc = "cache"
  BY <1>1, <1>2 DEF HasWritten, GoesOn
<1>4. Lasts
  BY <1>1, <1>2, OneMoves DEF HasWritten
<1>5. ASSUME Works(r, req[r]) PROVE Works(r, y)'
  BY <1>2, <1>3, <1>5 DEF Works, OidOf
<1>6. ASSUME NEW m, m # req[r].node PROVE TagsBelow(m)' = TagsBelow(m)
  <2>1. PICK T : T = [id |-> Written(r), node |-> req[r].node, tags |-> req[r].tags,
                      of |-> req[r].oid, by |-> r]
    OBVIOUS
  <2>2. tagNodes' = {t \in tagNodes : t.id # Written(r)} \cup {T} /\ T.node # m
    BY <1>6, <2>1 DEF WriteTags
  <2>3. \A t \in tagNodes : t.id = Written(r) => t.node # m
    BY <1>2, <1>6, WrittenBelow
  <2> QED
    BY <2>2, <2>3 DEF TagsBelow
<1>7. ASSUME Smooth, Moves(r, y), NEW n \in ToSet(nodes)' PROVE CachedRight(n)'
  <2>1. n \in ToSet(nodes) /\ tagCache' = tagCache
    BY <1>2
  <2>2. CASE n.id # req[r].node
    <3>1. \A q \in Writers(n.id) : req'[q] = req[q]
      BY <1>7, <2>2 DEF Moves, Writers
    <3> QED
      BY <1>4, <1>6, <1>7, <2>1, <2>2, <3>1, CachedStays
  <2>3. CASE n.id = req[r].node
    <3>1. req[r].alias \/ req[r].oid = n.oid
      BY <1>2, <1>7, <2>1, <2>3, WorkerFacts
    <3>2. req'[r] = y
      BY <1>7 DEF Moves
    <3>3. r \in Writers(n.id)'
      BY <1>2, <1>3, <2>3, <3>2 DEF Writers, Writes
    <3>4. req'[r].alias \/ (req'[r].oid = n.oid /\ req'[r].pc \in {"cache", "drop"})
      BY <1>3, <3>1, <3>2
    <3> QED
      BY <3>3, <3>4 DEF CachedRight
  <2> QED
    BY <2>2, <2>3
<1> QED
  BY <1>1, <1>2, <1>5, <1>7, FreshStep DEF HasWritten

(* The tags that a request caches are those of its version.                *)
LEMMA GotIsRight ==
  ASSUME IInv, Smooth, NEW r \in Requests, At(r, "cache"), Works(r, req[r])
  PROVE  req[r].got \in TagsOf(req[r].node) \cup {None}
<1>1. Active(r) /\ AtStep(r, req[r]) /\ req[r].node # None
  BY RequestFacts DEF Active, AtStep, At
<1>2. CASE req[r].op = "get"
  BY <1>2 DEF Works
<1>3. CASE req[r].op # "get"
  <2>1. Writes(r) /\ req[r].got = req[r].tags
    BY <1>1, <1>3, RequestFacts DEF AtStep, At, Writes, Request
  <2>2. Stands(r, req[r], req[r].node)
    BY <1>1, <2>1, WorkerFacts DEF Sees, At
  <2>3. ASSUME NEW t \in TagsBelow(req[r].node) PROVE t.tags = req[r].tags
    BY <2>2, TagFacts DEF Stands, TagPlaced, TagsBelow
  <2> QED
    BY <2>1, <2>2, <2>3 DEF Stands, TagsOf
<1> QED
  BY <1>2, <1>3

LEMMA CacheTagsFresh ==
  ASSUME IInv, FreshInv, NEW r \in Requests, CacheTags(r) \/ DropTags(r)
  PROVE  FreshInv'
<1>1. /\ req[r].pc \in {"cache", "drop"} /\ Active(r) /\ req[r] \in Request
      /\ AtStep(r, req[r]) /\ UNCHANGED stores /\ req[r].node # None
  BY RequestFacts DEF CacheTags, DropTags, Active, At, AtStep
<1>2. req[r].oid \in Objects /\ Pair(req[r].node, req[r].oid)
  BY <1>1, PlaceFacts
<1>3. PICK y : y = Done(req[r], "ok")
  OBVIOUS
<1>4. y \in Request /\ AtStep(r, y) /\ y.pc = "done"
      /\ y.op = req[r].op /\ y.vid = req[r].vid /\ y.tags = req[r].tags /\ y.node = req[r].node
      /\ y.oid = req[r].oid /\ (y.alias <=> req[r].alias) /\ y.prior = req[r].prior
  <2>1. AtStep(r, y)
    BY <1>1, <1>3, DoneAtStep
  <2> QED
    BY <1>1, <1>3, <2>1, DoneIs
<1>5. GoesOn(y, req[r]) /\ Replied(r, y) /\ UNCHANGED <<versioned, nodes, tagNodes>>
  BY <1>1, <1>3, <1>4 DEF GoesOn, CacheTags, DropTags, Replied, stores
<1>6. Lasts
  BY <1>4, <1>5, OneMoves
<1>7. ASSUME Smooth, Works(r, req[r]), Moves(r, y), NEW n \in ToSet(nodes)'
      PROVE  CachedRight(n)'
  <2>1. n \in ToSet(nodes) /\ TagsBelow(n.id)' = TagsBelow(n.id) /\ n.oid \in Objects
    BY <1>5, NodeFacts DEF TagsBelow, Node
  <2>2. CASE n.oid # req[r].oid
    <3>1. tagCache'[n.oid] = tagCache[n.oid]
      BY <2>1, <2>2, CachesAreTyped DEF CacheTags, DropTags
    <3>2. ASSUME NEW q \in Writers(n.id), req[q].oid = n.oid, req[q].pc \in {"cache", "drop"}
          PROVE  req'[q] = req[q]
      BY <1>7, <2>2, <3>2 DEF Moves, Writers
    <3> QED
      BY <1>6, <1>7, <2>1, <3>1, <3>2, CachedStays
  <2>3. CASE n.oid = req[r].oid
    <3>1. n.id = req[r].node
      BY <1>2, <2>1, <2>3, NodeFacts DEF Pair
    <3>2. TagsOf(n.id)' = TagsOf(n.id)
      BY <2>1 DEF TagsOf
    <3>3. CASE CacheTags(r)
      <4>1. tagCache'[n.oid] = req[r].got /\ At(r, "cache")
        BY <1>2, <2>3, <3>3, CachesAreTyped DEF CacheTags
      <4>2. req[r].got \in TagsOf(n.id) \cup {None}
        BY <1>7, <3>1, <4>1, GotIsRight
      <4> QED
        BY <3>2, <4>1, <4>2 DEF CachedRight
    <3>4. CASE DropTags(r)
      <4>1. tagCache'[n.oid] = None
        BY <1>2, <2>3, <3>4, CachesAreTyped DEF DropTags
      <4> QED
        BY <4>1 DEF CachedRight
    <3> QED
      BY <3>3, <3>4
  <2> QED
    BY <2>2, <2>3
<1> QED
  BY <1>4, <1>5, <1>7, FreshStep

LEMMA AddVersionFresh ==
  ASSUME IInv, FreshInv, NEW r \in Requests, AddVersion(r)
  PROVE  FreshInv'
<1>1. PICK y : HasAdded(r, y)
  BY VersionAdded
<1>2. /\ At(r, "add") /\ AtStep(r, req[r]) /\ UNCHANGED <<versioned, tagNodes, tagCache>>
  BY RequestFacts DEF AddVersion, caches
<1>3. req[r].op = "put" /\ req[r].node = None
  BY <1>2 DEF AtStep, At
<1>4. PICK id : id = IF versioned THEN r ELSE First
  OBVIOUS
<1>5. y.op = "put" /\ ~y.alias /\ y.node = id /\ y.oid = r /\ id # None
  BY <1>1, <1>3, <1>4 DEF HasAdded, GoesOn, AtStep, IInv, ConstantsDiffer, Objects
<1>6. Lasts
  BY <1>1, <1>2, OneMoves DEF HasAdded
<1>7. ASSUME Smooth, Moves(r, y), Works(r, req[r])
      PROVE  Works(r, y)' /\ \A n \in ToSet(nodes)' : CachedRight(n)'
  <2>1. Known' = Known \cup {r}
    BY <1>5, <1>6, <1>7, KnownAdded
  <2>2. OidOf(id)' = r /\ \A n \in ToSet(nodes)' : n \in ToSet(nodes) \/ n.oid = r
    BY <1>2, <1>3, <1>4, <2>1, AddedNode DEF AddVersion
  <2>3. tagCache'[r] = None
    BY <1>2, <1>3, <1>7 DEF Works
  <2>4. Works(r, y)'
    BY <1>5, <2>2, <2>3 DEF Works
  <2>5. ASSUME NEW n \in ToSet(nodes)', n.oid = r PROVE CachedRight(n)'
    BY <2>3, <2>5 DEF CachedRight
  <2>6. ASSUME NEW n \in ToSet(nodes) PROVE CachedRight(n)'
    <3>1. tagCache' = tagCache /\ TagsBelow(n.id)' = TagsBelow(n.id)
      BY <1>2 DEF TagsBelow
    <3>2. \A q \in Writers(n.id) : req[q].pc \in {"cache", "drop"} => req'[q] = req[q]
      BY <1>2, <1>7 DEF Moves, Writers, At
    <3> QED
      BY <1>6, <1>7, <3>1, <3>2, CachedStays
  <2> QED
    BY <2>2, <2>4, <2>5, <2>6
<1> QED
  BY <1>1, <1>2, <1>7, FreshStep DEF HasAdded

(* Nothing happens but that a request begins and that tags are forgotten.  *)
LEMMA RestFresh ==
  ASSUME IInv, FreshInv, UNCHANGED stores,
         \A o \in Objects : tagCache'[o] \in {tagCache[o], None},
         \A q \in Requests :
           req'[q] = req[q] \/ (At(q, "idle") /\ Works(q, req[q])')
  PROVE  FreshInv'
<1> SUFFICES ASSUME Smooth'
             PROVE  /\ \A q \in Requests : Active(q)' => Works(q, req[q])'
                    /\ \A n \in ToSet(nodes)' : CachedRight(n)'
  BY DEF FreshInv
<1>1. UNCHANGED <<versioned, nodes, tagNodes>>
  BY DEF stores
<1>2. \A n : TagsBelow(n)' = TagsBelow(n) /\ OidOf(n)' = OidOf(n)
  BY <1>1 DEF TagsBelow, OidOf
<1>3. \A q \in Requests : ~At(q, "idle") => req'[q] = req[q]
  OBVIOUS
<1>4. Lasts
  BY <1>1, <1>3, RequestFacts DEF Lasts, AtStep, At
<1>5. Smooth
  BY <1>3, WasSmooth DEF SmoothBefore, At
<1>6. ASSUME NEW q \in Requests, Active(q)' PROVE Works(q, req[q])'
  <2>1. CASE req'[q] = req[q]
    <3>1. Works(q, req[q])
      BY <1>5, <1>6, <2>1 DEF Active, FreshInv
    <3>2. q \in Objects
      BY DEF Objects
    <3> QED
      BY <1>2, <2>1, <3>1, <3>2 DEF Works, TagsOf
  <2> QED
    BY <2>1
<1>7. ASSUME NEW n \in ToSet(nodes)' PROVE CachedRight(n)'
  <2>1. n \in ToSet(nodes) /\ n.oid \in Objects
    BY <1>1, NodeFacts DEF Node
  <2>2. \A q \in Writers(n.id) : req[q].pc \in {"cache", "drop"} => req'[q] = req[q]
    BY <1>3 DEF Writers, At
  <2> QED
    BY <1>2, <1>4, <1>5, <2>1, <2>2, CachedStays
<1> QED
  BY <1>6, <1>7

LEMMA BeginFresh ==
  ASSUME IInv, FreshInv, NEW r \in Requests,
         BeginPut(r) \/ BeginTag(r) \/ BeginGet(r) \/ BeginUntag(r)
  PROVE  FreshInv'
<1>1. PICK op, vid, tags, p : Begin(r, op, vid, tags, p)
  BY DEF BeginPut, BeginTag, BeginGet, BeginUntag
<1>2. /\ At(r, "idle") /\ UNCHANGED <<stores, tagCache>> /\ AtStep(r, req[r])
      /\ req \in [Requests -> Request]
  BY <1>1, RequestFacts DEF Begin, caches, IInv, TypeOK
<1>3. PICK x : x = [Idle EXCEPT !.op = op, !.vid = vid, !.tags = tags, !.pc = p, !.prior = Finished]
  OBVIOUS
<1>4. x.node = None /\ x.got = None
  BY <1>3 DEF Idle
<1>5. req'[r] = x /\ \A q \in Requests \ {r} : req'[q] = req[q]
  BY <1>1, <1>2, <1>3 DEF Begin, Step
<1>6. tagCache'[r] = None
  <2>1. r \notin Known /\ r \in Objects
    BY <1>2 DEF Known, AtStep, At, IInv, ConstantsDiffer, Objects
  <2> QED
    BY <1>2, <2>1 DEF IInv
<1>7. Works(r, req[r])'
  BY <1>4, <1>5, <1>6 DEF Works
<1> QED
  BY <1>2, <1>5, <1>7, RestFresh

LEMMA FreshKeeps ==
  ASSUME IInv, FreshInv, [Next]_vars
  PROVE  FreshInv'
<1>1. CASE UNCHANGED vars
  BY <1>1, RestFresh DEF vars, caches
<1>2. ASSUME NEW r \in Requests, RequestStep(r) PROVE FreshInv'
  BY <1>2, BeginFresh, AddVersionFresh, FindOutdatedFresh, RemoveFresh, CacheObjectFresh,
     CachedFresh, FindVersionFresh, ReadTagsFresh, WriteTagsFresh, CacheTagsFresh,
     CallFailsFresh DEF RequestStep
<1>3. CASE Expire
  <2>1. UNCHANGED <<stores, req>> /\ \A o \in Objects : tagCache'[o] \in {tagCache[o], None}
    BY <1>3, CachesAreTyped DEF Expire
  <2> QED
    BY <2>1, RestFresh
<1>4. CASE Crash
  <2>1. PICK r \in Requests : Active(r)
    BY <1>4 DEF Crash
  <2>2. req'[r] = Done(req[r], "crashed")
    BY <1>4, <2>1 DEF Crash
  <2>3. req'[r].res = "crashed"
    BY <2>2, RequestFacts, DoneIs
  <2> QED
    BY <2>3 DEF FreshInv, Smooth
<1> QED
  BY <1>1, <1>2, <1>3, <1>4 DEF Next

LEMMA FreshAtFirst ==
  ASSUME Init
  PROVE  FreshInv
<1>1. \A r \in Requests : ~Active(r)
  BY DEF Init, Idle, Active
<1>2. First \in Objects /\ \A o \in Objects : tagCache[o] = None
  BY DEF Init, Objects
<1>3. \A n \in ToSet(nodes) : n.oid = First
  <2>1. PICK m : m = [id |-> First, oid |-> First]
    OBVIOUS
  <2>2. nodes = <<m>> /\ m.oid = First
    BY <2>1 DEF Init
  <2>3. Len(<<m>>) = 1 /\ <<m>>[1] = m /\ DOMAIN <<m>> = {1}
    OBVIOUS
  <2> QED
    BY <2>2, <2>3 DEF ToSet
<1>4. \A n \in ToSet(nodes) : CachedRight(n)
  BY <1>2, <1>3 DEF CachedRight
<1> QED
  BY <1>1, <1>4 DEF FreshInv

(* What holds while the requests of api/layer/tagging.go come one at a     *)
(* time and none of them fails: what each is about to cache is right, and  *)
(* so is what the objects cache has for each version, but for a request    *)
(* that is about to replace it, or went by a stale entry of the cache.     *)
THEOREM FreshInvariantHolds ==
  ASSUME ConstantsDiffer
  PROVE  Spec => []FreshInv
<1>1. Init => FreshInv
  BY FreshAtFirst
<1>2. IInv /\ FreshInv /\ [Next]_vars => FreshInv'
  BY FreshKeeps
<1> QED
  BY <1>1, <1>2, InvariantHolds, PTL DEF Spec

LEMMA CachedIsFresh ==
  ASSUME IInv, FreshInv
  PROVE  StaleTagsOnlyByOverlapOrFailure
<1> SUFFICES ASSUME \A r \in Requests : ~Active(r) /\ req[r].res \notin {"error", "crashed"},
                    \A q, r \in Finished : q = r \/ ~Overlap(q, r),
                    NEW n \in ToSet(nodes)
             PROVE  \/ tagCache[n.oid] \in {t.tags : t \in TagsBelow(n.id)} \cup {None}
                    \/ \E r \in Writers(n.id) : req[r].alias
  BY DEF StaleTagsOnlyByOverlapOrFailure
<1>1. Smooth
  BY DEF Smooth, Active, At, Finished
<1>2. CachedRight(n)
  BY <1>1 DEF FreshInv
<1>3. \A r \in Writers(n.id) : req[r].pc \notin {"cache", "drop"}
  BY DEF Writers, Active
<1> QED
  BY <1>2, <1>3 DEF CachedRight, TagsOf

(* After requests that came one at a time and did not fail, the objects    *)
(* cache (api/cache/system.go) has for a version that is there its tags or *)
(* none, but if tags were put through an entry of a version it replaced.   *)
THEOREM CachedTagsFresh ==
  ASSUME ConstantsDiffer
  PROVE  Spec => []StaleTagsOnlyByOverlapOrFailure
<1>1. IInv /\ FreshInv => StaleTagsOnlyByOverlapOrFailure
  BY CachedIsFresh
<1> QED
  BY <1>1, InvariantHolds, FreshInvariantHolds, PTL

(* All three: tags stay with the version that they were put on, the last   *)
(* change acknowledged stands, and the cache tells the same, as far as the *)
(* requests of api/layer/tagging.go came one at a time.                    *)
THEOREM TagsKeptToVersions ==
  ASSUME ConstantsDiffer
  PROVE  Spec => []TagsAreOfTheirVersion
<1>1. IInv /\ FreshInv => TagsAreOfTheirVersion
  BY NotInherited, LastStand, CachedIsFresh DEF TagsAreOfTheirVersion
<1> QED
  BY <1>1, InvariantHolds, FreshInvariantHolds, PTL
=============================================================================
