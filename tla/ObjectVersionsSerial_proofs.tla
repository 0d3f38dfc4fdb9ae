-------------------- MODULE ObjectVersionsSerial_proofs --------------------
(***************************************************************************)
(* ObjectVersions implements VersionedKey, step by step, when requests     *)
(* come one at a time and nothing fails: for any number of requests and    *)
(* changes of the versioning state.                                        *)
(***************************************************************************)
EXTENDS MCObjectVersions, ObjectVersions_proofs

(* Requests come one at a time and nothing fails.                          *)
OneAtATime == Parallel <= 1 /\ MaxFaults = 0

Rests(x) == x.pc \in {"idle", "done"}

(* The request that runs, if any, read the settings that are in force.     *)
OnlyOne ==
  /\ faults = 0
  /\ \A q, r \in Requests : ~Rests(req[q]) /\ ~Rests(req[r]) => q = r
  /\ \A r \in Requests : ~Rests(req[r]) => req[r].mode = versioning

NodesWritten == \A n \in Nodes : Wrote(n)

(* DELETE x has deleted the object of node n, and is to take the node.     *)
Taking(x, n) == /\ x.op = "delete" /\ x.node = n
                /\ x.pc \in {"remove", "getnull", "move"}

(* The nodes are the versions of one register: one after another, with at  *)
(* most one null version, each with its object but the one that DELETE x   *)
(* is taking.                                                              *)
RegisterBut(x) ==
  /\ \A n \in Nodes : tree[n].ts <= clock
  /\ \A m, n \in Nodes : tree[m].ts = tree[n].ts => m = n
  /\ \A m, n \in NullNodes : m = n
  /\ \A n \in Nodes :
       tree[n].marker \/ tree[n].oid \in objects \/ Taking(x, n)

(* Request x is to mend the name cache, or the list cache.                 *)
Renames(x) == \/ x.op = "put" /\ ~Rests(x)
              \/ x.op = "delete" /\ x.pc \in {"clear", "cache"}
Relists(x) == /\ x.op \in {"put", "delete"}
              /\ x.pc \in {"clear", "lock", "cache", "clean"}

(* The caches are right, until then.                                       *)
CachesRightBut(x) ==
  /\ objCache \subseteq objects
  /\ names \in objects =>
       Renames(x) \/ \E n \in Latest : tree[n].oid = names
  /\ lists # {} => Relists(x) \/ lists = StoredOids

(* What the handler of request r knows at each of its steps, x its record. *)
PutKnows(r, x) ==
  x.op = "put" =>
    /\ x.pc \in {"getnull", "add", "move", "clear", "lock", "cache"} => r \in objects
    /\ x.pc \in {"clear", "lock", "cache"} => \E n \in Latest : tree[n].oid = r

ReplaceKnows(x) ==
  /\ x.pc = "add" /\ x.mode # "Enabled" => x.op = "put" /\ NullNodes = {}
  /\ x.pc = "move" => NullNodes = {x.node}

(* Target, of a record.                                                    *)
Sought(x) == IF x.vid = "latest" /\ x.mode = "Suspended" THEN "null" ELSE x.vid

DeleteKnows(x) ==
  x.op = "delete" =>
    /\ x.pc \in {"evict", "delete", "remove"} =>
         Named(Sought(x)) = {x.node} /\ tree[x.node].oid = x.oid
    /\ x.pc \in {"evict", "delete"} => ~tree[x.node].marker /\ x.oid \in objects
    /\ x.pc = "delete" => x.oid \notin objCache
    /\ x.pc = "remove" => Sought(x) = x.vid
    /\ x.pc = "getnull" => NullNodes = {x.node}
    /\ x.pc \in {"getnull", "move"} => Replaces(x)

HeadKnows(x) ==
  x.op = "head" =>
    /\ ~Rests(x) => x.ans = {}
    /\ x.pc \in {"head", "fill"} =>
         \E n \in Nodes : Named(x.vid) = {n} /\ tree[n].oid = x.oid
    /\ x.pc = "fill" => x.oid \in objects

ListKnows(x) ==
  x.op = "list" =>
    /\ x.pc = "find" => x.ans = {}
    /\ x.pc \in {"nodes", "fill"} =>
         x.todo \subseteq Nodes /\ x.ans = {tree[n].oid : n \in Nodes \ x.todo}
    /\ x.pc = "fill" => x.todo = {}

Knows(r, x) == /\ PutKnows(r, x) /\ ReplaceKnows(x) /\ DeleteKnows(x)
               /\ HeadKnows(x) /\ ListKnows(x)

(* The refinement is not inductive: that a step is one of VersionedKey's   *)
(* needs that the running request knows the node it is to work on, and     *)
(* that the caches are right whenever no request is to mend them.          *)
SerialInv ==
  /\ OnlyOne
  /\ NodesWritten
  /\ \A r \in Requests :
       (\A q \in Requests \ {r} : Rests(req[q])) =>
         RegisterBut(req[r]) /\ CachesRightBut(req[r])
  /\ \A r \in Requests : Knows(r, req[r])

Serial == OneAtATime /\ IInv /\ StoreInv /\ SerialInv

---------------------------------------------------------------------------
(* While a request runs it knows its part, and all others rest.            *)
LEMMA RunsAlone ==
  ASSUME SerialInv, NEW r \in Requests, Active(r)
  PROVE  /\ \A q \in Requests \ {r} : Rests(req[q])
         /\ RegisterBut(req[r]) /\ CachesRightBut(req[r]) /\ Knows(r, req[r])
         /\ req[r].mode = versioning /\ faults = 0
<1>1. ~Rests(req[r])
  BY DEF Active, Rests
<1>2. OnlyOne /\ Knows(r, req[r])
  BY DEF SerialInv
<1>3. \A q \in Requests \ {r} : Rests(req[q])
  BY <1>1, <1>2 DEF OnlyOne
<1>4. RegisterBut(req[r]) /\ CachesRightBut(req[r])
  BY <1>3 DEF SerialInv
<1> QED
  BY <1>1, <1>2, <1>3, <1>4 DEF OnlyOne

(* A request begins only when all rest.                                    *)
LEMMA AllRest ==
  ASSUME OneAtATime, SerialInv, CanBegin
  PROVE  \A q \in Requests : Rests(req[q])
<1> DEFINE A == {r \in Requests : Active(r)}
<1>1. SUFFICES ASSUME NEW q \in Requests, ~Rests(req[q]) PROVE FALSE
  OBVIOUS
<1>2. A = {q}
  BY <1>1 DEF Active, Rests, SerialInv, OnlyOne
<1>3. Cardinality(A) = 1
  BY <1>2, FS_Singleton
<1>4. Cardinality(A) < Parallel
  BY DEF CanBegin
<1> HIDE DEF A
<1> QED
  BY <1>3, <1>4, BoundsAreNaturals DEF OneAtATime

(* A request that rests knows nothing, and has nothing to mend.            *)
LEMMA RestingKnows ==
  ASSUME NEW r, NEW x, Rests(x)
  PROVE  /\ Knows(r, x)' /\ ~Renames(x) /\ ~Relists(x)
         /\ \A n : ~Taking(x, n)
<1>1. x.pc \in {"idle", "done"}
  BY DEF Rests
<1>2. ~Renames(x) /\ ~Relists(x) /\ \A n : ~Taking(x, n)
  BY <1>1 DEF Renames, Relists, Taking, Rests
<1>3. PutKnows(r, x)' /\ ReplaceKnows(x)'
  BY <1>1 DEF PutKnows, ReplaceKnows
<1>4. DeleteKnows(x)' /\ HeadKnows(x)' /\ ListKnows(x)'
  BY <1>1 DEF DeleteKnows, HeadKnows, ListKnows, Rests
<1> QED
  BY <1>2, <1>3, <1>4 DEF Knows

(* It is enough to look at the request that takes the step.                *)
LEMMA Assembled ==
  ASSUME IInv, SerialInv, NEW r \in Requests,
         \A q \in Requests \ {r} : Rests(req[q]),
         NEW x, req' = [req EXCEPT ![r] = x], faults' = faults,
         Rests(x) \/ x.mode = versioning',
         NodesWritten', RegisterBut(x)', CachesRightBut(x)', Knows(r, x)'
  PROVE  SerialInv'
<1>1. req'[r] = x /\ \A q \in Requests \ {r} : req'[q] = req[q]
  BY DEF IInv, TypeOK
<1>2. OnlyOne'
  BY <1>1 DEF OnlyOne, SerialInv
<1>3. ASSUME NEW q \in Requests
      PROVE  Knows(q, req[q])'
  <2> PICK y : y = req'[q]
    OBVIOUS
  <2>1. CASE q = r
    <3>1. Knows(q, y)'
      BY <1>1, <2>1
    <3> QED
      BY <3>1 DEF Knows, PutKnows, ReplaceKnows, DeleteKnows, HeadKnows, ListKnows, Rests
  <2>2. CASE q # r
    <3>1. Rests(y)
      BY <1>1, <2>2
    <3>2. Knows(q, y)'
      BY <3>1, RestingKnows
    <3> QED
      BY <3>2 DEF Knows, PutKnows, ReplaceKnows, DeleteKnows, HeadKnows, ListKnows, Rests
  <2> QED
    BY <2>1, <2>2
<1>4. ASSUME NEW q \in Requests, \A p \in Requests \ {q} : Rests(req[p])'
      PROVE  RegisterBut(req[q])' /\ CachesRightBut(req[q])'
  <2> PICK y : y = req'[q]
    OBVIOUS
  <2>1. CASE q = r
    <3>1. RegisterBut(y)' /\ CachesRightBut(y)'
      BY <1>1, <2>1
    <3> QED
      BY <3>1 DEF RegisterBut, CachesRightBut, Taking, Renames, Relists, Rests
  <2>2. CASE q # r
    <3>1. Rests(x)
      BY <1>1, <1>4, <2>2 DEF Rests
    <3>2. ~Renames(x) /\ ~Relists(x) /\ \A n : ~Taking(x, n)
      BY <3>1, RestingKnows
    <3>3. RegisterBut(y)' /\ CachesRightBut(y)'
      BY <3>2 DEF RegisterBut, CachesRightBut, Taking, Renames, Relists, Rests
    <3> QED
      BY <3>3 DEF RegisterBut, CachesRightBut, Taking, Renames, Relists, Rests
  <2> QED
    BY <2>1, <2>2
<1> QED
  BY <1>2, <1>3, <1>4 DEF SerialInv, Rests

(* Steps that leave the tree alone.                                        *)
LEMMA SameTree ==
  ASSUME UNCHANGED <<tree, clock>>
  PROVE  /\ Nodes' = Nodes /\ NullNodes' = NullNodes /\ Latest' = Latest
         /\ StoredOids' = StoredOids /\ StoredVersions' = StoredVersions
         /\ \A v : Named(v)' = Named(v)
BY DEF Nodes, NullNodes, Latest, StoredOids, StoredVersions, VersionOf, Named

(* Nothing fails: every reply arrives.                                     *)
LEMMA NothingFails ==
  ASSUME OneAtATime, SerialInv
  PROVE  /\ \A r : ~Fault(r) /\ ~CallFails(r)
         /\ ~Crash
         /\ \A r, x : Replied(r, x) \/ Step(r, x) =>
              req' = [req EXCEPT ![r] = x] /\ faults' = faults
<1>1. ~(faults < MaxFaults)
  BY DEF OneAtATime, SerialInv, OnlyOne
<1> QED
  BY <1>1 DEF Fault, CallFails, Crash, Replied, Step

(* A set whose members are all one has not two of them.                    *)
LEMMA AtMostOne ==
  ASSUME NEW S, \A m, n \in S : m = n
  PROVE  ~(Cardinality(S) > 1)
<1>1. CASE S = {}
  BY <1>1, FS_EmptySet
<1>2. CASE S # {}
  <2>1. PICK n \in S : TRUE
    BY <1>2
  <2>2. S = {n}
    BY <2>1
  <2> QED
    BY <2>2, FS_Singleton
<1> QED
  BY <1>1, <1>2

(* A version id names one node at most.                                    *)
LEMMA NamedOne ==
  ASSUME IInv, WrittenOnce, NEW x, RegisterBut(x), NEW v
  PROVE  /\ \A m, n \in Named(v) : m = n
         /\ ~(Cardinality(Named(v)) > 1)
         /\ \A n \in Named(v) : Named(v) = {n} /\ n \in Nodes
<1>1. \A n \in Nodes : tree[n].ts \in Nat /\ n \in Requests
  BY DEF IInv, TypeOK, Node
<1>2. \A m, n \in Named(v) : m = n
  <2>1. CASE v = "null"
    BY <2>1 DEF Named, RegisterBut
  <2>2. CASE v = "latest"
    <3>1. ASSUME NEW m \in Latest, NEW n \in Latest
          PROVE  m = n
      <4>1. /\ m \in Nodes /\ n \in Nodes
            /\ tree[m].ts <= tree[n].ts /\ tree[n].ts <= tree[m].ts
        BY <3>1 DEF Latest
      <4>2. tree[m].ts = tree[n].ts
        BY <1>1, <4>1
      <4> QED
        BY <4>1, <4>2 DEF RegisterBut
    <3> QED
      BY <2>2, <3>1 DEF Named
  <2>3. CASE v \notin {"null", "latest"}
    BY <2>3 DEF Named, WrittenOnce
  <2> QED
    BY <2>1, <2>2, <2>3
<1>3. Named(v) \subseteq Nodes
  <2>1. CASE v = "null"
    BY <2>1 DEF Named, NullNodes
  <2>2. CASE v = "latest"
    BY <2>2 DEF Named, Latest
  <2>3. CASE v \notin {"null", "latest"}
    BY <2>3 DEF Named
  <2> QED
    BY <2>1, <2>2, <2>3
<1>4. ~(Cardinality(Named(v)) > 1)
  BY <1>2, AtMostOne
<1> QED
  BY <1>2, <1>3, <1>4

(* What was written stays written.                                         *)
LEMMA NodesStayWritten ==
  ASSUME AnyStep, SerialInv, Nodes' \subseteq Nodes
  PROVE  NodesWritten'
<1>1. ASSUME NEW n \in Nodes'
      PROVE  Wrote(n)'
  <2>1. Wrote(n) /\ n \in Requests
    BY DEF SerialInv, NodesWritten, AnyStep, IInv, TypeOK
  <2>2. req[n].pc # "idle"
    BY <2>1 DEF Wrote
  <2> QED
    BY <2>1, <2>2, Steady
<1> QED
  BY <1>1 DEF NodesWritten

---------------------------------------------------------------------------
(* SerialInv is kept: steps that leave the stores alone                    *)

(* The step of a request that changes the caches at most.                  *)
LEMMA StoresStay ==
  ASSUME Serial, AnyStep, NEW r \in Requests,
         \A q \in Requests \ {r} : Rests(req[q]),
         NEW x, req' = [req EXCEPT ![r] = x], Rests(x) \/ x.mode = versioning,
         UNCHANGED <<versioning, stores, faults>>,
         \A n : Taking(req[r], n) => Taking(x, n),
         CachesRightBut(x)', Knows(r, x)'
  PROVE  SerialInv'
<1>1. RegisterBut(req[r])
  BY DEF Serial, SerialInv
<1>2. Nodes' = Nodes /\ NullNodes' = NullNodes /\ UNCHANGED <<tree, clock, objects>>
  BY SameTree DEF stores
<1>3. RegisterBut(x)'
  BY <1>1, <1>2 DEF RegisterBut
<1>4. NodesWritten'
  BY <1>2, NodesStayWritten DEF Serial
<1> QED
  BY <1>3, <1>4, Assembled DEF Serial

(* The step of a handler that changes neither stores nor caches.           *)
LEMMA LooksOnly ==
  ASSUME Serial, AnyStep, NEW r \in Requests, Active(r),
         NEW x, req' = [req EXCEPT ![r] = x], SameAsk(x, req[r]),
         UNCHANGED <<versioning, stores, caches, faults>>,
         \A n : Taking(req[r], n) => Taking(x, n),
         Renames(req[r]) => Renames(x), Relists(req[r]) => Relists(x),
         Knows(r, x)
  PROVE  SerialInv'
<1>1. /\ \A q \in Requests \ {r} : Rests(req[q])
      /\ CachesRightBut(req[r]) /\ req[r].mode = versioning
  BY RunsAlone DEF Serial
<1>2. /\ Nodes' = Nodes /\ NullNodes' = NullNodes /\ Latest' = Latest
      /\ StoredOids' = StoredOids /\ \A v : Named(v)' = Named(v)
      /\ UNCHANGED <<tree, objects, names, objCache, lists>>
  BY SameTree DEF stores, caches
<1>3. CachesRightBut(x)'
  BY <1>1, <1>2 DEF CachesRightBut
<1>4. PutKnows(r, x)' /\ ReplaceKnows(x)'
  BY <1>2 DEF Knows, PutKnows, ReplaceKnows
<1>5. DeleteKnows(x)'
  <2>1. Named(Sought(x))' = Named(Sought(x))
    BY <1>2 DEF Sought
  <2> QED
    BY <1>2, <2>1 DEF Knows, DeleteKnows, Sought
<1>6. HeadKnows(x)' /\ ListKnows(x)'
  BY <1>2 DEF Knows, HeadKnows, ListKnows
<1>7. Knows(r, x)'
  BY <1>4, <1>5, <1>6 DEF Knows
<1>8. x.mode = versioning
  BY <1>1 DEF SameAsk
<1> QED
  BY <1>1, <1>3, <1>7, <1>8, StoresStay

(* The last step of a handler that changes neither stores nor caches.      *)
LEMMA EndsOnly ==
  ASSUME Serial, AnyStep, NEW r \in Requests, Active(r),
         NEW x, req' = [req EXCEPT ![r] = x], Rests(x),
         UNCHANGED <<versioning, stores, faults>>,
         CachesRightBut(x)', \A n : ~Taking(req[r], n)
  PROVE  SerialInv'
<1>1. \A q \in Requests \ {r} : Rests(req[q])
  BY RunsAlone DEF Serial
<1>2. Knows(r, x)'
  BY RestingKnows
<1> QED
  BY <1>1, <1>2, StoresStay

(* Named, case by case.                                                    *)
LEMMA NamedIs ==
  /\ Named("null") = NullNodes /\ Named("latest") = Latest
  /\ \A v : v \notin {"null", "latest"} => Named(v) = {n \in Nodes : tree[n].oid = v}
BY DEF Named

LEMMA FindNullSerial ==
  ASSUME Serial, AnyStep, NEW r \in Requests, FindNull(r)
  PROVE  SerialInv'
<1>1. /\ req[r] \in Request /\ Carries(req[r]) /\ At(r, "getnull") /\ Active(r)
      /\ UNCHANGED <<versioning, stores, caches>>
  BY DEF FindNull, Serial, IInv, TypeOK, StoreInv, At, Active
<1>2. RegisterBut(req[r]) /\ Knows(r, req[r])
  BY <1>1, RunsAlone DEF Serial
<1>3. /\ req[r].op \in {"put", "delete"}
      /\ req[r].op = "put" \/ ~Renames(req[r])
  BY <1>1 DEF Carries, Replacing, At, Renames
<1>4. req[r].op = "delete" => NullNodes = {req[r].node}
  BY <1>1, <1>2 DEF Knows, DeleteKnows, At
<1>5. ~(Cardinality(NullNodes) > 1)
  BY <1>2, AtMostOne DEF RegisterBut
<1>6. CASE NullNodes = {}
  <2> DEFINE x == To(r, "add")
  <2>1. req' = [req EXCEPT ![r] = x] /\ faults' = faults
    BY <1>5, <1>6, NothingFails DEF FindNull, Serial
  <2>2. req[r].op = "put"
    BY <1>3, <1>4, <1>6
  <2>3. /\ x.pc = "add" /\ SameAsk(x, req[r])
    BY <1>1, Fields
  <2> HIDE DEF x
  <2>4. Knows(r, x)
    BY <1>1, <1>2, <1>6, <2>2, <2>3
    DEF Knows, PutKnows, ReplaceKnows, DeleteKnows, HeadKnows, ListKnows, SameAsk, At
  <2>5. /\ \A n : ~Taking(req[r], n)
        /\ Renames(x) /\ ~Relists(req[r])
    BY <1>1, <2>2, <2>3 DEF Taking, Renames, Relists, Rests, SameAsk, At
  <2> QED
    BY <1>1, <2>1, <2>3, <2>4, <2>5, LooksOnly
<1>7. CASE NullNodes # {}
  <2>1. PICK n \in NullNodes : Step(r, [req[r] EXCEPT !.pc = "move", !.node = n])
    BY <1>5, <1>7 DEF FindNull
  <2>2. NullNodes = {n}
    BY <1>2 DEF RegisterBut
  <2> DEFINE x == [req[r] EXCEPT !.pc = "move", !.node = n]
  <2>3. req' = [req EXCEPT ![r] = x] /\ faults' = faults
    BY <2>1 DEF Step
  <2>4. /\ x.pc = "move" /\ x.node = n /\ SameAsk(x, req[r])
    BY <1>1 DEF SameAsk, Request
  <2> HIDE DEF x
  <2>5. x.op \in {"put", "delete"}
    BY <1>3, <2>4 DEF SameAsk
  <2>6. Knows(r, x)
    BY <1>1, <1>2, <2>2, <2>4, <2>5
    DEF Knows, PutKnows, ReplaceKnows, DeleteKnows, HeadKnows, ListKnows, SameAsk, At, Replaces
  <2>7. \A m : Taking(req[r], m) => Taking(x, m)
    BY <1>4, <2>2, <2>4 DEF Taking, SameAsk
  <2>8. (Renames(req[r]) => Renames(x)) /\ ~Relists(req[r])
    BY <1>1, <2>4 DEF Renames, Relists, Rests, SameAsk, At
  <2> QED
    BY <1>1, <2>3, <2>4, <2>6, <2>7, <2>8, LooksOnly
<1> QED
  BY <1>6, <1>7

LEMMA AfterWriteSerial ==
  ASSUME Serial, AnyStep, NEW r \in Requests, ClearOutdated(r) \/ PutLockInfo(r)
  PROVE  SerialInv'
<1>1. /\ req[r] \in Request /\ Carries(req[r]) /\ AtStep(req[r])
      /\ UNCHANGED <<versioning, stores, caches>>
  BY DEF ClearOutdated, PutLockInfo, Serial, IInv, TypeOK, StoreInv
<1>2. /\ req[r].pc \in {"clear", "lock"} /\ Active(r) 
      /\ req[r].pc = "lock" => req[r].op = "put"
  BY <1>1 DEF ClearOutdated, PutLockInfo, At, Active, AtStep
<1>3. req[r].op \in {"put", "delete"}
  BY <1>1, <1>2 DEF Carries, Replacing
<1>4. PICK x \in {To(r, "lock"), To(r, "cache")} :
        /\ req' = [req EXCEPT ![r] = x] /\ faults' = faults
        /\ x.pc = "lock" => req[r].op = "put"
  <2>1. To(r, "lock").pc = "lock" /\ To(r, "cache").pc = "cache"
    BY <1>1, Fields
  <2> QED
    BY <1>2, <2>1, NothingFails DEF ClearOutdated, PutLockInfo, AfterAdd, Serial
<1>5. x.pc \in {"lock", "cache"} /\ SameAsk(x, req[r])
  BY <1>1, Fields
<1>6. Knows(r, req[r])
  BY <1>2, RunsAlone DEF Serial
<1>7. Knows(r, x)
  BY <1>2, <1>3, <1>5, <1>6
  DEF Knows, PutKnows, ReplaceKnows, DeleteKnows, HeadKnows, ListKnows, SameAsk
<1>8. /\ \A n : ~Taking(req[r], n)
      /\ Renames(x) /\ Relists(x)
  BY <1>2, <1>3, <1>4, <1>5 DEF Taking, Renames, Relists, Rests, SameAsk
<1> QED
  BY <1>1, <1>2, <1>4, <1>5, <1>7, <1>8, LooksOnly

LEMMA FinishSerial ==
  ASSUME Serial, AnyStep, NEW r \in Requests,
         CachePut(r) \/ CleanLists(r) \/ DropName(r)
  PROVE  SerialInv'
<1>1. /\ req[r] \in Request /\ AtStep(req[r]) /\ objects \subseteq Requests
      /\ UNCHANGED <<versioning, stores>>
  BY DEF CachePut, CleanLists, DropName, Serial, IInv, TypeOK
<1>2. Active(r) /\ req[r].pc \in {"cache", "clean"}
  BY DEF CachePut, CleanLists, DropName, At, Active
<1>3. PICK x : /\ req' = [req EXCEPT ![r] = x] /\ faults' = faults
               /\ \E e : x = Done(r, e)
  BY NothingFails DEF CachePut, CleanLists, DropName, Serial
<1>4. Rests(x)
  BY <1>1, <1>3, Fields DEF Rests
<1>5. Knows(r, req[r]) /\ CachesRightBut(req[r])
  BY <1>2, RunsAlone DEF Serial
<1>6. \A n : ~Taking(req[r], n)
  BY <1>2 DEF Taking
<1>7. Latest' = Latest /\ objects' = objects /\ tree' = tree /\ lists' = {}
  BY <1>1, SameTree DEF stores, CachePut, CleanLists, DropName
<1>8. CachesRightBut(x)'
  <2>1. CASE CachePut(r)
    <3>1. r \in objects /\ \E n \in Latest : tree[n].oid = r
      BY <1>5, <2>1 DEF Knows, PutKnows, CachePut, At
    <3> QED
      BY <1>5, <1>7, <2>1, <3>1 DEF CachesRightBut, CachePut
  <2>2. CASE CleanLists(r)
    <3>1. ~Renames(req[r])
      BY <1>1, <2>2 DEF CleanLists, At, Renames, AtStep
    <3> QED
      BY <1>5, <1>7, <2>2, <3>1 DEF CachesRightBut, CleanLists
  <2>3. CASE DropName(r)
    <3>1. names' \notin objects
      BY <1>1, <2>3, NoneIsNoRequest DEF DropName
    <3> QED
      BY <1>5, <1>7, <2>3, <3>1 DEF CachesRightBut, DropName
  <2> QED
    BY <2>1, <2>2, <2>3
<1> QED
  BY <1>1, <1>2, <1>3, <1>4, <1>6, <1>8, EndsOnly

LEMMA FindVersionSerial ==
  ASSUME Serial, AnyStep, NEW r \in Requests, FindVersion(r)
  PROVE  SerialInv'
<1>1. /\ req[r] \in Request /\ At(r, "find") /\ Active(r) /\ req[r].op = "delete"
      /\ UNCHANGED <<versioning, stores, caches>> /\ IInv /\ WrittenOnce
  BY DEF FindVersion, Serial, IInv, TypeOK, StoreInv, At, Active
<1>2. RegisterBut(req[r]) /\ CachesRightBut(req[r])
  BY <1>1, RunsAlone DEF Serial
<1>3. /\ \A n : ~Taking(req[r], n)
      /\ ~Renames(req[r]) /\ ~Relists(req[r])
  BY <1>1 DEF Taking, Renames, Relists, At
<1>4. Target(r) = Sought(req[r])
  BY DEF Target, Sought
<1>5. /\ ~(Cardinality(Named(Target(r))) > 1)
      /\ \A n \in Named(Target(r)) : Named(Target(r)) = {n} /\ n \in Nodes
  BY <1>1, <1>2, NamedOne
<1>6. CASE Named(Target(r)) = {}
  <2>1. PICK x : /\ req' = [req EXCEPT ![r] = x] /\ faults' = faults
                 /\ x = Done(r, "ok")
    BY <1>5, <1>6 DEF FindVersion, Step
  <2>2. Rests(x)
    BY <1>1, <2>1, Fields DEF Rests
  <2>3. CachesRightBut(x)'
    <3>1. UNCHANGED <<objects, tree, names, objCache, lists, Latest, StoredOids>>
      BY <1>1, SameTree DEF stores, caches
    <3> QED
      BY <1>2, <1>3, <3>1 DEF CachesRightBut
  <2> QED
    BY <1>1, <1>3, <2>1, <2>2, <2>3, EndsOnly
<1>7. CASE Named(Target(r)) # {}
  <2>1. PICK n \in Named(Target(r)) :
          Step(r, [req[r] EXCEPT
                     !.node = n, !.oid = tree[n].oid,
                     !.pc = IF tree[n].marker THEN AfterOld(r) ELSE "evict"])
    BY <1>5, <1>7 DEF FindVersion
  <2>2. Named(Target(r)) = {n} /\ n \in Nodes
    BY <1>5
  <2> DEFINE x == [req[r] EXCEPT
                     !.node = n, !.oid = tree[n].oid,
                     !.pc = IF tree[n].marker THEN AfterOld(r) ELSE "evict"]
  <2>3. req' = [req EXCEPT ![r] = x] /\ faults' = faults
    BY <2>1 DEF Step
  <2>4. /\ x.node = n /\ x.oid = tree[n].oid /\ SameAsk(x, req[r])
        /\ x.pc = IF tree[n].marker THEN AfterOld(r) ELSE "evict"
    BY <1>1 DEF SameAsk, Request
  <2> HIDE DEF x
  <2>5. /\ Sought(x) = Target(r) /\ x.op = "delete"
        /\ AfterOld(r) = IF Sought(x) = x.vid THEN "remove" ELSE "getnull"
        /\ Sought(x) # x.vid => Sought(x) = "null" /\ Replaces(x)
    BY <1>1, <2>4 DEF Sought, Target, AfterOld, SameAsk, Replaces
  <2>6. DeleteKnows(x)
    <3>1. tree[n].marker \/ tree[n].oid \in objects
      BY <1>2, <1>3, <2>2 DEF RegisterBut
    <3>2. x.pc = "getnull" => NullNodes = {n}
      BY <2>2, <2>4, <2>5, NamedIs
    <3> QED
      BY <2>2, <2>4, <2>5, <3>1, <3>2 DEF DeleteKnows
  <2>7. Knows(r, x)
    BY <2>4, <2>5, <2>6
    DEF Knows, PutKnows, ReplaceKnows, HeadKnows, ListKnows, AfterOld
  <2> QED
    BY <1>1, <1>3, <2>3, <2>4, <2>7, LooksOnly
<1> QED
  BY <1>6, <1>7

LEMMA EvictSerial ==
  ASSUME Serial, AnyStep, NEW r \in Requests, EvictObject(r)
  PROVE  SerialInv'
<1>1. /\ req[r] \in Request /\ AtStep(req[r]) /\ At(r, "evict") /\ Active(r)
      /\ UNCHANGED <<versioning, stores, names, lists>>
      /\ objCache' = objCache \ {req[r].oid}
  BY DEF EvictObject, Serial, IInv, TypeOK, At, Active
<1>2. req[r].op = "delete"
  BY <1>1 DEF AtStep, At
<1>3. PICK x : /\ req' = [req EXCEPT ![r] = x] /\ faults' = faults
               /\ x = To(r, "delete")
  BY NothingFails DEF EvictObject, Serial
<1>4. /\ x.pc = "delete" /\ SameAsk(x, req[r]) /\ x.oid = req[r].oid
      /\ x.node = req[r].node /\ x.op = "delete"
  BY <1>1, <1>2, <1>3, Fields DEF SameAsk
<1>5. /\ \A q \in Requests \ {r} : Rests(req[q])
      /\ CachesRightBut(req[r]) /\ Knows(r, req[r]) /\ x.mode = versioning
  BY <1>1, <1>4, RunsAlone DEF Serial, SameAsk
<1>6. /\ Nodes' = Nodes /\ Latest' = Latest /\ StoredOids' = StoredOids
      /\ Named(Sought(x))' = Named(Sought(x))
      /\ UNCHANGED <<tree, objects, names, lists>>
  BY <1>1, SameTree DEF stores, Sought
<1>7. \A n : ~Taking(req[r], n)
  BY <1>1 DEF Taking, At
<1>8. ~Renames(req[r]) /\ ~Relists(req[r])
  BY <1>1, <1>2 DEF Renames, Relists, At
<1>9. CachesRightBut(x)'
  BY <1>1, <1>5, <1>6, <1>8 DEF CachesRightBut
<1>10. DeleteKnows(x)'
  <2>1. Sought(x) = Sought(req[r])
    BY <1>4 DEF Sought, SameAsk
  <2> QED
    BY <1>1, <1>2, <1>4, <1>5, <1>6, <2>1 DEF Knows, DeleteKnows, At, Sought
<1>11. Knows(r, x)'
  BY <1>4, <1>10 DEF Knows, PutKnows, ReplaceKnows, HeadKnows, ListKnows
<1> QED
  BY <1>1, <1>3, <1>5, <1>7, <1>9, <1>11, StoresStay

LEMMA DeleteObjectSerial ==
  ASSUME Serial, AnyStep, NEW r \in Requests, DeleteObject(r)
  PROVE  SerialInv'
<1>1. /\ req[r] \in Request /\ AtStep(req[r]) /\ At(r, "delete") /\ Active(r)
      /\ UNCHANGED <<versioning, tree, clock, caches>> /\ WrittenOnce
      /\ objects' = objects \ {req[r].oid}
  BY DEF DeleteObject, Serial, IInv, TypeOK, StoreInv, At, Active
<1>2. req[r].op = "delete" /\ Target(r) = Sought(req[r])
  BY <1>1 DEF AtStep, At, Target, Sought
<1>3. /\ \A q \in Requests \ {r} : Rests(req[q])
      /\ RegisterBut(req[r]) /\ CachesRightBut(req[r]) /\ Knows(r, req[r]) /\ req[r].mode = versioning
  BY <1>1, RunsAlone DEF Serial
<1>4. /\ Named(Sought(req[r])) = {req[r].node} /\ tree[req[r].node].oid = req[r].oid
      /\ req[r].oid \in objects /\ req[r].oid \notin objCache
  BY <1>1, <1>2, <1>3 DEF Knows, DeleteKnows, At
<1>5. req[r].node \in Nodes
  BY <1>1, <1>3, <1>4, NamedOne DEF Serial
<1>6. PICK x : /\ req' = [req EXCEPT ![r] = x] /\ faults' = faults
               /\ x = To(r, AfterOld(r))
  BY <1>4, NothingFails DEF DeleteObject, Serial
<1>7. /\ x.pc = AfterOld(r) /\ SameAsk(x, req[r]) /\ x.oid = req[r].oid
      /\ x.node = req[r].node /\ x.op = "delete"
  BY <1>1, <1>2, <1>6, Fields DEF SameAsk
<1>8. /\ Sought(x) = Sought(req[r]) /\ x.mode = versioning
      /\ AfterOld(r) = IF Sought(x) = x.vid THEN "remove" ELSE "getnull"
      /\ Sought(x) # x.vid => Sought(x) = "null" /\ Replaces(x)
  BY <1>2, <1>3, <1>7 DEF Sought, AfterOld, SameAsk, Replaces
<1>9. /\ Nodes' = Nodes /\ Latest' = Latest /\ StoredOids' = StoredOids
      /\ NullNodes' = NullNodes
      /\ Named(Sought(x))' = Named(Sought(x))
      /\ UNCHANGED <<tree, clock, names, lists, objCache>>
  BY <1>1, SameTree DEF caches, Sought
<1>10. RegisterBut(x)'
  <2>1. ASSUME NEW n \in Nodes, ~tree[n].marker
        PROVE  tree[n].oid \in objects' \/ Taking(x, n)
    <3>1. tree[n].oid \in objects
      BY <1>1, <1>3, <2>1 DEF RegisterBut, Taking, At
    <3>2. tree[n].oid = req[r].oid => n = req[r].node
      BY <1>1, <1>4, <1>5, <2>1 DEF WrittenOnce
    <3> QED
      BY <1>1, <1>7, <1>8, <3>1, <3>2 DEF Taking
  <2> QED
    BY <1>3, <1>9, <2>1 DEF RegisterBut
<1>11. CachesRightBut(x)'
  <2>1. ~Renames(req[r]) /\ ~Relists(req[r])
    BY <1>1, <1>2 DEF Renames, Relists, At
  <2> QED
    BY <1>1, <1>3, <1>4, <1>9, <2>1 DEF CachesRightBut
<1>12. DeleteKnows(x)'
  <2>1. x.pc = "getnull" => NullNodes = {x.node}
    BY <1>4, <1>7, <1>8, NamedIs
  <2> QED
    BY <1>4, <1>7, <1>8, <1>9, <2>1 DEF DeleteKnows, Sought
<1>13. Knows(r, x)'
  BY <1>7, <1>8, <1>12 DEF Knows, PutKnows, ReplaceKnows, HeadKnows, ListKnows
<1>14. NodesWritten'
  BY <1>9, NodesStayWritten DEF Serial
<1> QED
  BY <1>1, <1>3, <1>6, <1>8, <1>10, <1>11, <1>13, <1>14, Assembled DEF Serial

LEMMA CreateSerial ==
  ASSUME Serial, AnyStep, NEW r \in Requests, CreateObject(r)
  PROVE  SerialInv'
<1>1. /\ req[r] \in Request /\ AtStep(req[r]) /\ At(r, "create") /\ Active(r)
      /\ UNCHANGED <<versioning, tree, clock, caches>>
      /\ objects' = objects \cup {r}
  BY DEF CreateObject, Serial, IInv, TypeOK, At, Active
<1>2. req[r].op = "put"
  BY <1>1 DEF AtStep, At
<1>3. /\ \A q \in Requests \ {r} : Rests(req[q])
      /\ RegisterBut(req[r]) /\ CachesRightBut(req[r]) /\ req[r].mode = versioning
  BY <1>1, RunsAlone DEF Serial
<1>4. PICK x : /\ req' = [req EXCEPT ![r] = x] /\ faults' = faults
               /\ x = To(r, IF WritesNull(r) THEN "getnull" ELSE "add")
  BY NothingFails DEF CreateObject, Serial
<1>5. /\ x.pc = IF WritesNull(r) THEN "getnull" ELSE "add"
      /\ SameAsk(x, req[r]) /\ x.op = "put" /\ x.mode = req[r].mode
  BY <1>1, <1>2, <1>4, Fields DEF SameAsk
<1>6. /\ Nodes' = Nodes /\ NullNodes' = NullNodes /\ Latest' = Latest
      /\ StoredOids' = StoredOids
      /\ UNCHANGED <<tree, clock, names, lists, objCache>>
  BY <1>1, SameTree DEF caches
<1>7. RegisterBut(x)'
  BY <1>1, <1>3, <1>6 DEF RegisterBut, Taking, At
<1>8. CachesRightBut(x)'
  <2>1. Renames(x) /\ ~Relists(req[r])
    BY <1>1, <1>5 DEF Renames, Relists, Rests, At
  <2> QED
    BY <1>1, <1>3, <1>6, <2>1 DEF CachesRightBut
<1>9. Knows(r, x)'
  BY <1>1, <1>5
  DEF Knows, PutKnows, ReplaceKnows, DeleteKnows, HeadKnows, ListKnows, WritesNull
<1>10. NodesWritten'
  BY <1>6, NodesStayWritten DEF Serial
<1> QED
  BY <1>3, <1>4, <1>5, <1>1, <1>7, <1>8, <1>9, <1>10, Assembled DEF Serial

---------------------------------------------------------------------------
(* SerialInv is kept: steps that change the tree                           *)

(* A node that is written is the newest.                                   *)
LEMMA Upserted ==
  ASSUME IInv, NEW r \in Requests, NEW y, RegisterBut(y), NEW n \in Requests,
         tree' = Upsert(n, NewNode(r)), clock' = clock + 1
  PROVE  /\ Nodes' = Nodes \cup {n} /\ Latest' = {n}
         /\ \A m \in Nodes' : tree'[m] = IF m = n THEN NewNode(r) ELSE tree[m]
         /\ NewNode(r).ts = clock + 1 /\ NewNode(r).oid = r
         /\ NewNode(r).null = WritesNull(r)
         /\ NewNode(r).marker <=> req[r].op = "delete"
         /\ NullNodes' = (NullNodes \ {n}) \cup (IF WritesNull(r) THEN {n} ELSE {})
<1>1. /\ Nodes' = Nodes \cup {n}
      /\ \A m \in Nodes' : tree'[m] = IF m = n THEN NewNode(r) ELSE tree[m]
  BY DEF Upsert, Nodes
<1>2. /\ NewNode(r).ts = clock + 1 /\ NewNode(r).oid = r
      /\ NewNode(r).null = WritesNull(r)
      /\ NewNode(r).marker <=> req[r].op = "delete"
  BY DEF NewNode
<1>3. clock \in Nat /\ \A m \in Nodes : tree[m].ts \in Nat /\ tree[m].ts <= clock
  BY DEF IInv, TypeOK, Node, RegisterBut
<1>4. Latest' = {n}
  <2>1. \A m \in Nodes' : tree'[m].ts <= clock + 1
    BY <1>1, <1>2, <1>3
  <2>2. \A m \in Nodes' : m # n => ~(tree'[n].ts <= tree'[m].ts)
    BY <1>1, <1>2, <1>3
  <2> QED
    BY <1>1, <1>2, <2>1, <2>2 DEF Latest
<1>5. NullNodes' = (NullNodes \ {n}) \cup (IF WritesNull(r) THEN {n} ELSE {})
  BY <1>1, <1>2 DEF NullNodes
<1> QED
  BY <1>1, <1>2, <1>4, <1>5

(* The register with a version written, in the place of another or not.    *)
LEMMA UpsertKeepsRegister ==
  ASSUME IInv, NEW r \in Requests, RegisterBut(req[r]), NEW n \in Requests,
         tree' = Upsert(n, NewNode(r)), clock' = clock + 1,
         objects' = objects, NEW x,
         WritesNull(r) => NullNodes \subseteq {n},
         req[r].op = "delete" \/ r \in objects,
         \A m \in Nodes : Taking(req[r], m) => m = n
  PROVE  RegisterBut(x)'
<1>1. /\ Nodes' = Nodes \cup {n} /\ n \in Nodes'
      /\ \A m \in Nodes' : tree'[m] = IF m = n THEN NewNode(r) ELSE tree[m]
      /\ NewNode(r).ts = clock + 1 /\ NewNode(r).oid = r
      /\ NewNode(r).marker <=> req[r].op = "delete"
      /\ NullNodes' = (NullNodes \ {n}) \cup (IF WritesNull(r) THEN {n} ELSE {})
  BY Upserted
<1>2. clock \in Nat /\ \A m \in Nodes : tree[m].ts \in Nat /\ tree[m].ts <= clock
  BY DEF IInv, TypeOK, Node, RegisterBut
<1>3. \A m \in Nodes' : tree'[m].ts <= clock'
  BY <1>1, <1>2
<1>4. \A l, m \in Nodes' : tree'[l].ts = tree'[m].ts => l = m
  <2> SUFFICES ASSUME NEW l \in Nodes', NEW m \in Nodes', tree'[l].ts = tree'[m].ts
               PROVE  l = m
    OBVIOUS
  <2>1. CASE l # n /\ m # n
    BY <1>1, <2>1 DEF RegisterBut
  <2>2. CASE l = n \/ m = n
    BY <1>1, <1>2, <2>2
  <2> QED
    BY <2>1, <2>2
<1>5. \A l, m \in NullNodes' : l = m
  BY <1>1 DEF RegisterBut
<1>6. \A m \in Nodes' : tree'[m].marker \/ tree'[m].oid \in objects'
  BY <1>1 DEF RegisterBut
<1> QED
  BY <1>3, <1>4, <1>5, <1>6 DEF RegisterBut

LEMMA AddNodeSerial ==
  ASSUME Serial, AnyStep, NEW r \in Requests, AddNode(r)
  PROVE  SerialInv'
<1>1. /\ req[r] \in Request /\ AtStep(req[r]) /\ Carries(req[r])
      /\ At(r, "add") /\ Active(r) /\ IInv
      /\ UNCHANGED <<versioning, objects, caches>>
      /\ tree' = Upsert(r, NewNode(r)) /\ clock' = clock + 1
  BY DEF AddNode, Serial, IInv, TypeOK, StoreInv, At, Active
<1>2. req[r].op \in {"put", "delete"}
  BY <1>1 DEF Carries, Replacing, At
<1>3. /\ \A q \in Requests \ {r} : Rests(req[q])
      /\ RegisterBut(req[r]) /\ CachesRightBut(req[r]) /\ Knows(r, req[r])
      /\ req[r].mode = versioning
  BY <1>1, RunsAlone DEF Serial
<1>4. PICK x \in {To(r, "lock"), To(r, "cache")} :
        /\ req' = [req EXCEPT ![r] = x] /\ faults' = faults
        /\ x.pc = "lock" => req[r].op = "put"
  <2>1. To(r, "lock").pc = "lock" /\ To(r, "cache").pc = "cache"
    BY <1>1, Fields
  <2> QED
    BY <1>2, <2>1, NothingFails DEF AddNode, AfterAdd, Serial
<1>5. /\ x.pc \in {"lock", "cache"} /\ SameAsk(x, req[r])
      /\ x.op = req[r].op /\ x.mode = req[r].mode
  BY <1>1, Fields DEF SameAsk
<1>6. /\ req[r].op = "put" => r \in objects
      /\ WritesNull(r) => NullNodes = {}
  BY <1>1, <1>3 DEF Knows, PutKnows, ReplaceKnows, At, WritesNull
<1>7. \A n : ~Taking(req[r], n)
  BY <1>1 DEF Taking, At
<1>8. /\ Nodes' = Nodes \cup {r} /\ Latest' = {r}
      /\ \A m \in Nodes' : tree'[m] = IF m = r THEN NewNode(r) ELSE tree[m]
      /\ NewNode(r).oid = r
  BY <1>1, <1>3, Upserted
<1>9. RegisterBut(x)'
  BY <1>1, <1>2, <1>3, <1>6, <1>7, UpsertKeepsRegister
<1>10. CachesRightBut(x)'
  <2>1. Renames(x) /\ Relists(x)
    BY <1>2, <1>4, <1>5 DEF Renames, Relists, Rests
  <2> QED
    BY <1>1, <1>3, <2>1 DEF CachesRightBut, caches
<1>11. Knows(r, x)'
  <2>1. PutKnows(r, x)'
    BY <1>1, <1>5, <1>6, <1>8 DEF PutKnows
  <2> QED
    BY <1>2, <1>5, <2>1 DEF Knows, ReplaceKnows, DeleteKnows, HeadKnows, ListKnows
<1>12. NodesWritten'
  <2>1. req'[r] = x
    BY <1>4 DEF Serial, IInv, TypeOK
  <2>2. Wrote(r)'
    BY <1>2, <1>5, <2>1 DEF Wrote
  <2>3. ASSUME NEW n \in Nodes
        PROVE  Wrote(n)'
    <3>1. Wrote(n) /\ n \in Requests
      BY DEF SerialInv, NodesWritten, AnyStep, IInv, TypeOK, Serial
    <3>2. req[n].pc # "idle"
      BY <3>1 DEF Wrote
    <3> QED
      BY <3>1, <3>2, Steady
  <2> QED
    BY <1>8, <2>2, <2>3 DEF NodesWritten
<1> QED
  BY <1>1, <1>3, <1>4, <1>5, <1>9, <1>10, <1>11, <1>12, Assembled DEF Serial

(* The node a MoveNode finds is the only null node.                        *)
LEMMA MovesTheNull ==
  ASSUME Serial, NEW r \in Requests, MoveNode(r)
  PROVE  /\ Active(r) /\ At(r, "move") /\ WritesNull(r)
         /\ req[r].node \in Requests /\ req[r].node \in Nodes
         /\ NullNodes = {req[r].node}
         /\ tree' = Upsert(req[r].node, NewNode(r)) /\ clock' = clock + 1
         /\ req' = [req EXCEPT ![r] = To(r, "clear")] /\ faults' = faults
<1>1. /\ req[r] \in Request /\ AtStep(req[r]) /\ At(r, "move") /\ Active(r)
  BY DEF MoveNode, Serial, IInv, TypeOK, At, Active
<1>2. Knows(r, req[r])
  BY <1>1, RunsAlone DEF Serial
<1>3. NullNodes = {req[r].node} /\ WritesNull(r) /\ req[r].node \in Requests
  BY <1>1, <1>2 DEF Knows, ReplaceKnows, At, AtStep, WritesNull
<1>4. req[r].node \in Nodes
  BY <1>3 DEF NullNodes
<1> QED
  BY <1>1, <1>3, <1>4, NothingFails DEF MoveNode, Serial

LEMMA MoveNodeSerial ==
  ASSUME Serial, AnyStep, NEW r \in Requests, MoveNode(r)
  PROVE  SerialInv'
<1> DEFINE n == req[r].node
<1>1. /\ req[r] \in Request /\ Carries(req[r]) /\ At(r, "move") /\ Active(r)
      /\ UNCHANGED <<versioning, objects, caches>> /\ IInv
      /\ tree' = Upsert(n, NewNode(r)) /\ clock' = clock + 1
      /\ n \in Requests /\ n \in Nodes /\ NullNodes = {n} /\ WritesNull(r)
  BY MovesTheNull DEF MoveNode, Serial, IInv, TypeOK, StoreInv
<1>2. req[r].op \in {"put", "delete"}
  BY <1>1 DEF Carries, Replacing, At
<1>3. /\ \A q \in Requests \ {r} : Rests(req[q])
      /\ RegisterBut(req[r]) /\ CachesRightBut(req[r]) /\ Knows(r, req[r])
      /\ req[r].mode = versioning
  BY <1>1, RunsAlone DEF Serial
<1>4. PICK x : /\ req' = [req EXCEPT ![r] = x] /\ faults' = faults
               /\ x = To(r, "clear")
  BY MovesTheNull
<1>5. x.pc = "clear" /\ x.op = req[r].op /\ x.mode = req[r].mode
  BY <1>1, <1>4, Fields DEF SameAsk
<1>6. req[r].op = "put" => r \in objects
  BY <1>1, <1>3 DEF Knows, PutKnows, At
<1>7. \A m \in Nodes : Taking(req[r], m) => m = n
  BY DEF Taking
<1> HIDE DEF n
<1>8. /\ Nodes' = Nodes \cup {n} /\ Latest' = {n}
      /\ \A m \in Nodes' : tree'[m] = IF m = n THEN NewNode(r) ELSE tree[m]
      /\ NewNode(r).oid = r
  BY <1>1, <1>3, Upserted
<1>9. RegisterBut(x)'
  BY <1>1, <1>2, <1>3, <1>6, <1>7, UpsertKeepsRegister
<1>10. CachesRightBut(x)'
  <2>1. Renames(x) /\ Relists(x)
    BY <1>2, <1>5 DEF Renames, Relists, Rests
  <2> QED
    BY <1>1, <1>3, <2>1 DEF CachesRightBut, caches
<1>11. Knows(r, x)'
  <2>1. PutKnows(r, x)'
    BY <1>1, <1>5, <1>6, <1>8 DEF PutKnows
  <2> QED
    BY <1>2, <1>5, <2>1 DEF Knows, ReplaceKnows, DeleteKnows, HeadKnows, ListKnows
<1>12. NodesWritten'
  BY <1>1, <1>8, NodesStayWritten DEF Serial
<1> QED
  BY <1>3, <1>1, <1>4, <1>5, <1>9, <1>10, <1>11, <1>12, Assembled DEF Serial

LEMMA RemoveSerial ==
  ASSUME Serial, AnyStep, NEW r \in Requests, RemoveVersion(r)
  PROVE  SerialInv'
<1> DEFINE n == req[r].node
<1>1. /\ req[r] \in Request /\ AtStep(req[r]) /\ At(r, "remove") /\ Active(r)
      /\ UNCHANGED <<versioning, objects, clock, caches>> /\ IInv
      /\ TakesTheObject(req[r]) /\ WrittenOnce
      /\ tree' = [m \in Nodes \ {n} |-> tree[m]]
  BY DEF RemoveVersion, Serial, IInv, TypeOK, StoreInv, At, Active
<1>2. req[r].op = "delete"
  BY <1>1 DEF AtStep, At
<1>3. /\ \A q \in Requests \ {r} : Rests(req[q])
      /\ RegisterBut(req[r]) /\ CachesRightBut(req[r]) /\ Knows(r, req[r])
      /\ req[r].mode = versioning
  BY <1>1, RunsAlone DEF Serial
<1>4. /\ Named(Sought(req[r])) = {n} /\ tree[n].oid = req[r].oid
      /\ req[r].oid \notin objects /\ n \in Nodes
  <2>1. Named(Sought(req[r])) = {n} /\ tree[n].oid = req[r].oid
    BY <1>1, <1>2, <1>3 DEF Knows, DeleteKnows, At
  <2>2. req[r].oid \notin objects
    BY <1>1, <1>2 DEF TakesTheObject, At
  <2> QED
    BY <1>1, <1>3, <2>1, <2>2, NamedOne
<1>5. PICK x : /\ req' = [req EXCEPT ![r] = x] /\ faults' = faults
               /\ x = To(r, "clean")
  BY <1>4, NothingFails DEF RemoveVersion, Serial
<1>6. x.pc = "clean" /\ x.op = "delete" /\ x.mode = req[r].mode
  BY <1>1, <1>2, <1>5, Fields DEF SameAsk
<1>7. \A m : Taking(req[r], m) => m = n
  BY DEF Taking
<1> HIDE DEF n
<1>8. Nodes' = Nodes \ {n} /\ \A m \in Nodes' : tree'[m] = tree[m]
  BY <1>1 DEF Nodes
<1>9. RegisterBut(x)'
  <2>1. NullNodes' \subseteq NullNodes
    BY <1>8 DEF NullNodes
  <2> QED
    BY <1>1, <1>3, <1>7, <1>8, <2>1 DEF RegisterBut
<1>10. CachesRightBut(x)'
  <2>1. ~Renames(req[r]) /\ Relists(x)
    BY <1>1, <1>2, <1>6 DEF Renames, Relists, At
  <2>2. ASSUME names \in objects
        PROVE  \E m \in Latest' : tree'[m].oid = names
    <3>1. PICK m \in Latest : tree[m].oid = names
      BY <1>3, <2>1, <2>2 DEF CachesRightBut
    <3>2. m \in Nodes /\ m # n
      BY <1>4, <2>2, <3>1 DEF Latest
    <3>3. m \in Latest'
      BY <1>8, <3>1, <3>2 DEF Latest
    <3> QED
      BY <1>8, <3>1, <3>2, <3>3
  <2> QED
    BY <1>1, <1>3, <2>1, <2>2 DEF CachesRightBut, caches
<1>11. Knows(r, x)'
  BY <1>6 DEF Knows, PutKnows, ReplaceKnows, DeleteKnows, HeadKnows, ListKnows
<1>12. NodesWritten'
  BY <1>8, NodesStayWritten DEF Serial
<1> QED
  BY <1>3, <1>1, <1>5, <1>6, <1>9, <1>10, <1>11, <1>12, Assembled DEF Serial

---------------------------------------------------------------------------
(* SerialInv is kept: reads, beginnings and the environment                *)

(* Reads have nothing to mend.                                             *)
LEMMA ReadersMendNothing ==
  ASSUME NEW x, x.op \in {"head", "list"} \/ Rests(x)
  PROVE  /\ ~Renames(x) /\ ~Relists(x)
         /\ \A n : ~Taking(x, n)
BY DEF Renames, Relists, Taking, Rests

(* So the caches stay right while nobody touches them.                     *)
LEMMA CachesStayRight ==
  ASSUME NEW y, CachesRightBut(y), ~Renames(y), ~Relists(y),
         UNCHANGED <<stores, caches>>, NEW x
  PROVE  CachesRightBut(x)'
<1>1. UNCHANGED <<objects, tree, names, objCache, lists, Latest, StoredOids>>
  BY SameTree DEF stores, caches
<1> QED
  BY <1>1 DEF CachesRightBut

LEMMA FindToReadSerial ==
  ASSUME Serial, AnyStep, NEW r \in Requests, FindToRead(r)
  PROVE  SerialInv'
<1>1. /\ req[r] \in Request /\ At(r, "find") /\ Active(r) /\ req[r].op = "head"
      /\ UNCHANGED <<versioning, stores, caches>> /\ IInv /\ WrittenOnce
  BY DEF FindToRead, Serial, IInv, TypeOK, StoreInv, At, Active
<1>2. RegisterBut(req[r]) /\ CachesRightBut(req[r]) /\ Knows(r, req[r])
  BY <1>1, RunsAlone DEF Serial
<1>3. /\ \A n : ~Taking(req[r], n)
      /\ ~Renames(req[r]) /\ ~Relists(req[r])
  BY <1>1, ReadersMendNothing
<1>4. /\ ~(Cardinality(Named(req[r].vid)) > 1)
      /\ \A n \in Named(req[r].vid) : Named(req[r].vid) = {n} /\ n \in Nodes
  BY <1>1, <1>2, NamedOne
<1>5. PICK x : /\ req' = [req EXCEPT ![r] = x] /\ faults' = faults
               /\ \/ x = Done(r, "notfound")
                  \/ \E o : x = Answered(r, o)
                  \/ \E n \in Named(req[r].vid) :
                       x = [req[r] EXCEPT !.pc = "head", !.oid = tree[n].oid]
  BY <1>4 DEF FindToRead, Step
<1>6. CASE x = Done(r, "notfound") \/ \E o : x = Answered(r, o)
  <2>1. Rests(x)
    BY <1>1, <1>6, Fields DEF Rests
  <2>2. CachesRightBut(x)'
    BY <1>1, <1>2, <1>3, CachesStayRight
  <2> QED
    BY <1>1, <1>3, <1>5, <2>1, <2>2, EndsOnly
<1>7. CASE \E n \in Named(req[r].vid) :
             x = [req[r] EXCEPT !.pc = "head", !.oid = tree[n].oid]
  <2>1. PICK n \in Named(req[r].vid) :
          x = [req[r] EXCEPT !.pc = "head", !.oid = tree[n].oid]
    BY <1>7
  <2>2. /\ x.pc = "head" /\ x.oid = tree[n].oid /\ SameAsk(x, req[r])
        /\ x.ans = req[r].ans
    BY <1>1, <2>1 DEF SameAsk, Request
  <2>3. x.ans = {} /\ x.op = "head"
    BY <1>1, <1>2, <2>2 DEF Knows, HeadKnows, Rests, At, SameAsk
  <2>4. Knows(r, x)
    BY <1>4, <2>1, <2>2, <2>3
    DEF Knows, PutKnows, ReplaceKnows, DeleteKnows, HeadKnows, ListKnows, SameAsk
  <2> QED
    BY <1>1, <1>3, <1>5, <2>2, <2>4, LooksOnly
<1> QED
  BY <1>5, <1>6, <1>7

LEMMA HeadObjectSerial ==
  ASSUME Serial, AnyStep, NEW r \in Requests, HeadObject(r)
  PROVE  SerialInv'
<1>1. /\ req[r] \in Request /\ AtStep(req[r]) /\ At(r, "head") /\ Active(r)
      /\ UNCHANGED <<versioning, stores, caches>>
  BY DEF HeadObject, Serial, IInv, TypeOK, At, Active
<1>2. req[r].op = "head"
  BY <1>1 DEF AtStep, At
<1>3. RegisterBut(req[r]) /\ CachesRightBut(req[r]) /\ Knows(r, req[r])
  BY <1>1, RunsAlone DEF Serial
<1>4. /\ \A n : ~Taking(req[r], n)
      /\ ~Renames(req[r]) /\ ~Relists(req[r])
  BY <1>2, ReadersMendNothing
<1>5. PICK x : /\ req' = [req EXCEPT ![r] = x] /\ faults' = faults
               /\ \/ x = To(r, "fill") /\ req[r].oid \in objects
                  \/ x = Done(r, "notfound")
  BY DEF HeadObject, Step
<1>6. CASE x = Done(r, "notfound")
  <2>1. Rests(x)
    BY <1>1, <1>6, Fields DEF Rests
  <2>2. CachesRightBut(x)'
    BY <1>1, <1>3, <1>4, CachesStayRight
  <2> QED
    BY <1>1, <1>4, <1>5, <2>1, <2>2, EndsOnly
<1>7. CASE x = To(r, "fill") /\ req[r].oid \in objects
  <2>1. /\ x.pc = "fill" /\ x.oid = req[r].oid /\ SameAsk(x, req[r])
        /\ x.ans = req[r].ans
    BY <1>1, <1>7 DEF SameAsk, Request, To
  <2>2. Knows(r, x)
    BY <1>1, <1>2, <1>3, <1>7, <2>1
    DEF Knows, PutKnows, ReplaceKnows, DeleteKnows, HeadKnows, ListKnows, SameAsk, At, Rests
  <2> QED
    BY <1>1, <1>4, <1>5, <2>1, <2>2, LooksOnly
<1> QED
  BY <1>5, <1>6, <1>7

LEMMA CacheReadSerial ==
  ASSUME Serial, AnyStep, NEW r \in Requests, CacheRead(r)
  PROVE  SerialInv'
<1>1. /\ req[r] \in Request /\ At(r, "fill") /\ Active(r) /\ req[r].op = "head"
      /\ UNCHANGED <<versioning, stores, lists>>
      /\ objCache' = objCache \cup {req[r].oid}
      /\ names' = IF req[r].vid = "latest" THEN req[r].oid ELSE names
  BY DEF CacheRead, Serial, IInv, TypeOK, At, Active
<1>2. CachesRightBut(req[r]) /\ Knows(r, req[r])
  BY <1>1, RunsAlone DEF Serial
<1>3. /\ \A n : ~Taking(req[r], n)
      /\ ~Renames(req[r]) /\ ~Relists(req[r])
  BY <1>1, ReadersMendNothing
<1>4. PICK x : /\ req' = [req EXCEPT ![r] = x] /\ faults' = faults
               /\ x = Answered(r, req[r].oid)
  BY DEF CacheRead, Step
<1>5. Rests(x)
  BY <1>1, <1>4, Fields DEF Rests
<1>6. /\ req[r].oid \in objects
      /\ \E n \in Nodes : Named(req[r].vid) = {n} /\ tree[n].oid = req[r].oid
  BY <1>1, <1>2 DEF Knows, HeadKnows, At
<1>7. req[r].vid = "latest" => \E n \in Latest : tree[n].oid = req[r].oid
  BY <1>6, NamedIs
<1>8. UNCHANGED <<objects, tree, Latest, StoredOids, lists>>
  BY <1>1, SameTree DEF stores
<1>9. CachesRightBut(x)'
  BY <1>1, <1>2, <1>3, <1>6, <1>7, <1>8 DEF CachesRightBut
<1> QED
  BY <1>1, <1>3, <1>4, <1>5, <1>9, EndsOnly

LEMMA CacheListSerial ==
  ASSUME Serial, AnyStep, NEW r \in Requests, CacheList(r)
  PROVE  SerialInv'
<1>1. /\ req[r] \in Request /\ At(r, "fill") /\ Active(r) /\ req[r].op = "list"
      /\ UNCHANGED <<versioning, stores, names, objCache>>
      /\ lists' = req[r].ans
  BY DEF CacheList, Serial, IInv, TypeOK, At, Active
<1>2. CachesRightBut(req[r]) /\ Knows(r, req[r])
  BY <1>1, RunsAlone DEF Serial
<1>3. /\ \A n : ~Taking(req[r], n)
      /\ ~Renames(req[r]) /\ ~Relists(req[r])
  BY <1>1, ReadersMendNothing
<1>4. PICK x : /\ req' = [req EXCEPT ![r] = x] /\ faults' = faults
               /\ x = Done(r, "ok")
  BY DEF CacheList, Step
<1>5. Rests(x)
  BY <1>1, <1>4, Fields DEF Rests
<1>6. req[r].ans = StoredOids
  BY <1>1, <1>2 DEF Knows, ListKnows, At, StoredOids
<1>7. UNCHANGED <<objects, tree, Latest, StoredOids, names, objCache>>
  BY <1>1, SameTree DEF stores
<1>8. CachesRightBut(x)'
  BY <1>1, <1>2, <1>3, <1>6, <1>7 DEF CachesRightBut
<1> QED
  BY <1>1, <1>3, <1>4, <1>5, <1>8, EndsOnly

LEMMA FetchNodesSerial ==
  ASSUME Serial, AnyStep, NEW r \in Requests, FetchNodes(r)
  PROVE  SerialInv'
<1>1. /\ req[r] \in Request /\ At(r, "find") /\ Active(r) /\ req[r].op = "list"
      /\ UNCHANGED <<versioning, stores, caches>>
  BY DEF FetchNodes, Serial, IInv, TypeOK, At, Active
<1>2. Knows(r, req[r])
  BY <1>1, RunsAlone DEF Serial
<1>3. /\ \A n : ~Taking(req[r], n)
      /\ ~Renames(req[r]) /\ ~Relists(req[r])
  BY <1>1, ReadersMendNothing
<1>4. PICK x : /\ req' = [req EXCEPT ![r] = x] /\ faults' = faults
               /\ x = [req[r] EXCEPT !.pc = IF Nodes = {} THEN "fill" ELSE "nodes",
                                     !.todo = Nodes]
  BY DEF FetchNodes, Step
<1>5. /\ x.pc \in {"fill", "nodes"} /\ x.todo = Nodes /\ SameAsk(x, req[r])
      /\ x.pc = "fill" => x.todo = {}
      /\ x.ans = req[r].ans
  BY <1>1, <1>4 DEF SameAsk, Request
<1>6. x.ans = {} /\ x.op = "list"
  BY <1>1, <1>2, <1>5 DEF Knows, ListKnows, SameAsk, At
<1>7. x.ans = {tree[n].oid : n \in Nodes \ x.todo}
  BY <1>5, <1>6
<1>8. Knows(r, x)
  BY <1>5, <1>6, <1>7
  DEF Knows, PutKnows, ReplaceKnows, DeleteKnows, HeadKnows, ListKnows
<1> QED
  BY <1>1, <1>3, <1>4, <1>5, <1>8, LooksOnly

(* A listing reads a node that is still there.                             *)
LEMMA ReadsANode ==
  ASSUME Serial, NEW r \in Requests, ReadNode(r)
  PROVE  \E n \in req[r].todo :
           /\ n \in Nodes
           /\ req' = [req EXCEPT ![r] =
                [req[r] EXCEPT
                   !.pc = IF req[r].todo = {n} THEN "fill" ELSE "nodes",
                   !.todo = req[r].todo \ {n},
                   !.ans = req[r].ans \cup {tree[n].oid}]]
           /\ faults' = faults
<1>1. /\ req[r] \in Request /\ AtStep(req[r]) /\ At(r, "nodes") /\ Active(r)
  BY DEF ReadNode, Serial, IInv, TypeOK, At, Active
<1>2. req[r].todo \subseteq Nodes
  BY <1>1, RunsAlone DEF Serial, Knows, ListKnows, AtStep, At
<1>3. PICK n \in req[r].todo :
        \/ Step(r, [req[r] EXCEPT
                      !.pc = IF req[r].todo = {n} THEN "fill" ELSE "nodes",
                      !.todo = @ \ {n},
                      !.ans = @ \cup {tree[m].oid : m \in Nodes \cap {n}}])
        \/ n \notin Nodes /\ Step(r, Done(r, "error"))
  BY DEF ReadNode
<1>4. n \in Nodes /\ {tree[m].oid : m \in Nodes \cap {n}} = {tree[n].oid}
  BY <1>2
<1> QED
  BY <1>3, <1>4 DEF Step

LEMMA ReadNodeSerial ==
  ASSUME Serial, AnyStep, NEW r \in Requests, ReadNode(r)
  PROVE  SerialInv'
<1>1. /\ req[r] \in Request /\ AtStep(req[r]) /\ At(r, "nodes") /\ Active(r)
      /\ UNCHANGED <<versioning, stores, caches>>
  BY DEF ReadNode, Serial, IInv, TypeOK, At, Active
<1>2. req[r].op = "list"
  BY <1>1 DEF AtStep, At
<1>3. Knows(r, req[r])
  BY <1>1, RunsAlone DEF Serial
<1>4. /\ \A n : ~Taking(req[r], n)
      /\ ~Renames(req[r]) /\ ~Relists(req[r])
  BY <1>2, ReadersMendNothing
<1>5. PICK n \in req[r].todo :
           /\ n \in Nodes
           /\ req' = [req EXCEPT ![r] =
                [req[r] EXCEPT
                   !.pc = IF req[r].todo = {n} THEN "fill" ELSE "nodes",
                   !.todo = req[r].todo \ {n},
                   !.ans = req[r].ans \cup {tree[n].oid}]]
           /\ faults' = faults
  BY ReadsANode
<1>6. PICK x : /\ req' = [req EXCEPT ![r] = x]
               /\ x = [req[r] EXCEPT
                         !.pc = IF req[r].todo = {n} THEN "fill" ELSE "nodes",
                         !.todo = req[r].todo \ {n},
                         !.ans = req[r].ans \cup {tree[n].oid}]
  BY <1>5
<1>7. /\ x.pc = IF req[r].todo = {n} THEN "fill" ELSE "nodes"
      /\ x.todo = req[r].todo \ {n} /\ SameAsk(x, req[r])
      /\ x.ans = req[r].ans \cup {tree[n].oid}
  BY <1>1, <1>6 DEF SameAsk, Request
<1>8. /\ req[r].todo \subseteq Nodes
      /\ req[r].ans = {tree[m].oid : m \in Nodes \ req[r].todo}
  BY <1>1, <1>2, <1>3 DEF Knows, ListKnows, At
<1>9. x.ans = {tree[m].oid : m \in Nodes \ x.todo}
  BY <1>5, <1>7, <1>8
<1>10. x.op = "list" /\ x.pc \in {"fill", "nodes"} /\ x.todo \subseteq Nodes
       /\ (x.pc = "fill" => x.todo = {})
  BY <1>2, <1>7, <1>8 DEF SameAsk
<1>11. Knows(r, x)
  BY <1>9, <1>10
  DEF Knows, PutKnows, ReplaceKnows, DeleteKnows, HeadKnows, ListKnows
<1> QED
  BY <1>1, <1>4, <1>5, <1>6, <1>7, <1>11, LooksOnly

(* Known versions are written by requests.                                 *)
LEMMA KnownIsRequests == IInv => KnownVersions \subseteq Requests
BY DEF IInv, TypeOK, KnownVersions, StoredOids, Node

(* What a request is as it begins.                                         *)
LEMMA BeginsAs ==
  ASSUME IInv, NEW r \in Requests, BeginStep(r)
  PROVE  \E x \in Request :
           /\ req' = [req EXCEPT ![r] = x] /\ x.mode = versioning
           /\ \/ x.op = "put" /\ x.pc = "create"
              \/ x.op = "delete" /\ x.pc = "find"
              \/ x.op = "delete" /\ x.pc = "add" /\ x.mode = "Enabled"
              \/ x.op \in {"head", "list"} /\ x.pc = "find" /\ x.ans = {}
              \/ /\ x.op = "head" /\ x.vid = "latest" /\ x.pc = "done"
                 /\ names \in objCache /\ x.ans = {names}
              \/ /\ x.op = "list" /\ x.pc = "done"
                 /\ lists # {} /\ x.ans = lists
<1>1. req[r] \in Request /\ AtStep(req[r]) /\ At(r, "idle")
  BY DEF BeginStep, BeginPut, BeginDelete, BeginHead, BeginList, Begin, IInv, TypeOK
<1>2. req[r] = Idle /\ Idle.ans = {}
  BY <1>1 DEF AtStep, At, Idle
<1>3. ASSUME NEW op \in {"put", "delete", "head", "list"},
             NEW vid \in {"latest", "null"} \cup Requests,
             NEW z \in Request, Begin(r, op, vid, z)
      PROVE  \E x \in Request :
               /\ req' = [req EXCEPT ![r] = x] /\ x.mode = versioning
               /\ x.op = op /\ x.vid = vid /\ x.pc = z.pc /\ x.ans = z.ans
  <2> DEFINE y == [z EXCEPT !.op = op, !.vid = vid, !.mode = versioning,
                            !.prior = Finished]
  <2>1. versioning \in Modes /\ Finished \in SUBSET Requests
    BY DEF IInv, TypeOK, Finished
  <2>2. y \in Request
    BY <2>1 DEF Request
  <2>3. /\ y.op = op /\ y.vid = vid /\ y.mode = versioning
        /\ y.pc = z.pc /\ y.ans = z.ans
    BY DEF Request
  <2>4. req' = [req EXCEPT ![r] = y]
    BY <1>3 DEF Begin
  <2> HIDE DEF y
  <2> QED
    BY <2>2, <2>3, <2>4
<1>4. \A p \in {"create", "find", "add"} :
        To(r, p) \in Request /\ To(r, p).pc = p /\ To(r, p).ans = {}
  <2>1. \A p \in {"create", "find", "add"} : To(r, p) \in Request /\ To(r, p).pc = p
    BY <1>1, RecordTypes, Fields DEF IInv
  <2>2. \A p : To(r, p).ans = req[r].ans
    BY <1>1 DEF To, Request
  <2> QED
    BY <1>2, <2>1, <2>2
<1>5. \A o \in Requests : /\ Answered(r, o) \in Request
                          /\ Answered(r, o).pc = "done" /\ Answered(r, o).ans = {o}
  <2>1. \A o \in Requests : Answered(r, o) \in Request /\ Answered(r, o).pc = "done"
    BY <1>1, RecordTypes, Fields DEF IInv
  <2>2. \A o : Answered(r, o).ans = {o}
    BY <1>1 DEF Answered, Done, Request
  <2> QED
    BY <2>1, <2>2
<1>6. CASE BeginPut(r)
  BY <1>3, <1>4, <1>6 DEF BeginPut
<1>7. CASE BeginDelete(r)
  <2>1. PICK vid \in {"latest", "null"} \cup KnownVersions :
          Begin(r, "delete", vid,
                To(r, IF vid = "latest" /\ versioning = "Enabled"
                      THEN "add" ELSE "find"))
    BY <1>7 DEF BeginDelete
  <2>2. vid \in {"latest", "null"} \cup Requests
    BY KnownIsRequests
  <2>3. CASE vid = "latest" /\ versioning = "Enabled"
    BY <1>3, <1>4, <2>1, <2>2, <2>3
  <2>4. CASE ~(vid = "latest" /\ versioning = "Enabled")
    BY <1>3, <1>4, <2>1, <2>2, <2>4
  <2> QED
    BY <2>3, <2>4
<1>8. CASE BeginHead(r)
  <2>1. names \in objCache => names \in Requests
    BY DEF IInv, TypeOK
  <2>2. CASE names \in objCache /\ Begin(r, "head", "latest", Answered(r, names))
    BY <1>3, <1>5, <2>1, <2>2
  <2>3. CASE \E vid \in {"latest", "null"} \cup KnownVersions :
               Begin(r, "head", vid, To(r, "find"))
    BY <1>3, <1>4, <2>3, KnownIsRequests
  <2> QED
    BY <1>8, <2>2, <2>3 DEF BeginHead
<1>9. CASE BeginList(r)
  <2> DEFINE y == [Done(r, "ok") EXCEPT !.ans = lists]
  <2>1. y \in Request /\ y.pc = "done" /\ y.ans = lists
    <3>1. Done(r, "ok") \in Request /\ Done(r, "ok").pc = "done"
      BY <1>1, RecordTypes, Fields DEF IInv
    <3>2. lists \in SUBSET Requests
      BY DEF IInv, TypeOK
    <3>3. \A z \in Request : /\ [z EXCEPT !.ans = lists] \in Request
                             /\ [z EXCEPT !.ans = lists].pc = z.pc
                             /\ [z EXCEPT !.ans = lists].ans = lists
      BY <3>2 DEF Request
    <3> QED
      BY <3>1, <3>3
  <2>2. \/ lists # {} /\ Begin(r, "list", "latest", y)
        \/ Begin(r, "list", "latest", To(r, "find"))
    BY <1>9 DEF BeginList
  <2> HIDE DEF y
  <2> QED
    BY <1>3, <1>4, <2>1, <2>2
<1> QED
  BY <1>6, <1>7, <1>8, <1>9 DEF BeginStep

(* A request that begins reads the settings there are, and knows nothing.  *)
LEMMA BeginSerial ==
  ASSUME Serial, AnyStep, NEW r \in Requests, BeginStep(r)
  PROVE  SerialInv'
<1>1. CanBegin /\ UNCHANGED <<versioning, stores, caches, faults>> /\ IInv
  BY DEF BeginStep, BeginPut, BeginDelete, BeginHead, BeginList, Begin, Serial
<1>3. \A q \in Requests : Rests(req[q])
  BY <1>1, AllRest DEF Serial
<1>4. RegisterBut(req[r]) /\ CachesRightBut(req[r])
  BY <1>3 DEF Serial, SerialInv
<1>5. /\ ~Renames(req[r]) /\ ~Relists(req[r])
      /\ \A n : ~Taking(req[r], n)
  BY <1>3, ReadersMendNothing
<1>6. PICK x : /\ req' = [req EXCEPT ![r] = x]
               /\ x.mode = versioning
               /\ \/ x.op = "put" /\ x.pc = "create"
                  \/ x.op = "delete" /\ x.pc = "find"
                  \/ x.op = "delete" /\ x.pc = "add" /\ x.mode = "Enabled"
                  \/ x.op \in {"head", "list"} /\ x.pc = "find" /\ x.ans = {}
                  \/ x.pc = "done"
  BY <1>1, BeginsAs
<1>7. CachesRightBut(x)'
  BY <1>1, <1>4, <1>5, CachesStayRight
<1>8. Knows(r, x)'
  BY <1>6 DEF Knows, PutKnows, ReplaceKnows, DeleteKnows, HeadKnows, ListKnows, Rests
<1> QED
  BY <1>1, <1>3, <1>5, <1>6, <1>7, <1>8, StoresStay

(* The settings change, or a cache drops an entry, while nobody counts on  *)
(* it: caches are never needed, and settings are read by those who begin.  *)
LEMMA RestSerial ==
  ASSUME Serial, AnyStep, UNCHANGED <<stores, req, faults>>,
         objCache' \subseteq objCache, names' \in {names, None}, lists' \in {lists, {}},
         versioning' = versioning \/ \A q \in Requests : Rests(req[q])
  PROVE  SerialInv'
<1>1. UNCHANGED <<objects, tree, clock, Latest, StoredOids, Nodes, NullNodes>>
      /\ \A v : Named(v)' = Named(v)
  BY SameTree DEF stores
<1>2. OnlyOne'
  BY DEF Serial, SerialInv, OnlyOne
<1>3. NodesWritten'
  BY <1>1, NodesStayWritten DEF Serial
<1>4. objects \subseteq Requests
  BY DEF Serial, IInv, TypeOK
<1>5. ASSUME NEW x, CachesRightBut(x)
      PROVE  CachesRightBut(x)'
  BY <1>1, <1>4, <1>5, NoneIsNoRequest DEF CachesRightBut
<1>6. ASSUME NEW x, RegisterBut(x)
      PROVE  RegisterBut(x)'
  BY <1>1, <1>6 DEF RegisterBut
<1>7. ASSUME NEW r \in Requests, NEW x, Knows(r, x)
      PROVE  Knows(r, x)'
  <2>1. PutKnows(r, x)' /\ ReplaceKnows(x)'
    BY <1>1, <1>7 DEF Knows, PutKnows, ReplaceKnows
  <2>2. DeleteKnows(x)'
    <3>1. Named(Sought(x))' = Named(Sought(x))
      BY <1>1 DEF Sought
    <3> QED
      BY <1>1, <1>7, <3>1 DEF Knows, DeleteKnows, Sought
  <2>3. HeadKnows(x)' /\ ListKnows(x)'
    BY <1>1, <1>7 DEF Knows, HeadKnows, ListKnows
  <2> QED
    BY <2>1, <2>2, <2>3 DEF Knows
<1>8. ASSUME NEW r \in Requests
      PROVE  /\ Knows(r, req[r])'
             /\ (\A q \in Requests \ {r} : Rests(req[q]))' =>
                  RegisterBut(req[r])' /\ CachesRightBut(req[r])'
  <2> PICK x : x = req[r]
    OBVIOUS
  <2>1. Knows(r, x)
    BY DEF Serial, SerialInv
  <2>2. (\A q \in Requests \ {r} : Rests(req[q]))' => RegisterBut(x) /\ CachesRightBut(x)
    BY DEF Serial, SerialInv, Rests
  <2>3. /\ Knows(r, x)'
        /\ (\A q \in Requests \ {r} : Rests(req[q]))' =>
             RegisterBut(x)' /\ CachesRightBut(x)'
    BY <1>5, <1>6, <1>7, <2>1, <2>2
  <2>4. req'[r] = x
    OBVIOUS
  <2> QED
    BY <2>3, <2>4 DEF Knows, PutKnows, ReplaceKnows, DeleteKnows, HeadKnows, ListKnows,
                      Rests, RegisterBut, CachesRightBut, Taking, Renames, Relists
<1> QED
  BY <1>2, <1>3, <1>8 DEF SerialInv

LEMMA SerialKeeps ==
  ASSUME Serial, [Next]_vars
  PROVE  Serial'
<1>1. IInv' /\ StoreInv' /\ AnyStep
  BY NextKeeps, StoreInvKeeps, NextDoes DEF Serial, StoreInv, WrittenOnce
<1>2. ASSUME NEW r \in Requests, BeginStep(r) \/ RequestStep(r) \/ CallFails(r)
      PROVE  SerialInv'
  <2>1. CASE PutStep(r)
    BY <1>1, <2>1, CreateSerial, FindNullSerial, AddNodeSerial, MoveNodeSerial,
       AfterWriteSerial, FinishSerial DEF PutStep
  <2>2. CASE DeleteStep(r)
    BY <1>1, <2>2, FindVersionSerial, EvictSerial, DeleteObjectSerial, RemoveSerial,
       FinishSerial DEF DeleteStep
  <2>3. CASE ReadStep(r)
    BY <1>1, <2>3, FindToReadSerial, HeadObjectSerial, CacheReadSerial,
       FetchNodesSerial, ReadNodeSerial, CacheListSerial DEF ReadStep
  <2> QED
    BY <1>1, <1>2, <2>1, <2>2, <2>3, BeginSerial, NothingFails DEF RequestStep, Serial
<1>3. ASSUME SetVersioning
      PROVE  SerialInv'
  <2>1. \A q \in Requests : Rests(req[q])
    BY <1>3, AllRest DEF Serial, SetVersioning
  <2> QED
    BY <1>1, <1>3, <2>1, RestSerial DEF SetVersioning, caches
<1>4. ASSUME ExpireName \/ ExpireObject \/ ExpireList \/ UNCHANGED vars
      PROVE  SerialInv'
  BY <1>1, <1>4, RestSerial DEF ExpireName, ExpireObject, ExpireList, vars, caches, stores
<1>5. SerialInv'
  BY <1>2, <1>3, <1>4, NothingFails DEF Next, Serial
<1> QED
  BY <1>1, <1>5 DEF Serial, OneAtATime

LEMMA SerialInit ==
  ASSUME OneAtATime, Init
  PROVE  Serial
<1>1. IInv /\ StoreInv
  BY InitIInv, StoreInvInit
<1>2. /\ Nodes = {} /\ NullNodes = {} /\ StoredOids = {}
      /\ objects = {} /\ objCache = {} /\ lists = {} /\ faults = 0
      /\ \A r \in Requests : req[r].pc = "idle"
  BY DEF Init, Nodes, NullNodes, StoredOids, Idle
<1>3. OnlyOne /\ NodesWritten
  BY <1>2 DEF OnlyOne, NodesWritten, Rests
<1>4. ASSUME NEW r \in Requests
      PROVE  RegisterBut(req[r]) /\ CachesRightBut(req[r]) /\ Knows(r, req[r])
  <2>1. RegisterBut(req[r]) /\ CachesRightBut(req[r])
    BY <1>2 DEF RegisterBut, CachesRightBut
  <2>2. Knows(r, req[r])
    BY <1>2 DEF Knows, PutKnows, ReplaceKnows, DeleteKnows, HeadKnows, ListKnows, Rests
  <2> QED
    BY <2>1, <2>2
<1> QED
  BY <1>1, <1>3, <1>4 DEF Serial, SerialInv

---------------------------------------------------------------------------
(* Every step is one of VersionedKey's, or leaves its variables alone      *)

(* The write x is to do has taken effect.                                  *)
HasApplied(x) == /\ x.op \in {"put", "delete"}
                 /\ x.pc \in {"clear", "lock", "cache", "clean", "done"}

(* What the outside sees of a step of one request.                         *)
LEMMA Seen ==
  ASSUME IInv, NEW r \in Requests, NEW x, req' = [req EXCEPT ![r] = x],
         HasApplied(req[r]) => HasApplied(x)
  PROVE  /\ Asked' = [Asked EXCEPT ![r] = [op |-> x.op, vid |-> x.vid]]
         /\ Applied' = Applied \cup (IF HasApplied(x) THEN {r} ELSE {})
         /\ Answers' = [Answers EXCEPT ![r] =
                          IF x.op \in Reads /\ x.pc = "done" THEN x.ans ELSE None]
<1>1. req'[r] = x /\ \A q \in Requests \ {r} : req'[q] = req[q]
  BY DEF IInv, TypeOK
<1>2. Asked' = [Asked EXCEPT ![r] = [op |-> x.op, vid |-> x.vid]]
  BY <1>1 DEF Asked
<1>3. Applied' = Applied \cup (IF HasApplied(x) THEN {r} ELSE {})
  BY <1>1 DEF Applied, HasApplied
<1>4. Answers' = [Answers EXCEPT ![r] =
                    IF x.op \in Reads /\ x.pc = "done" THEN x.ans ELSE None]
  <2> DEFINE a == IF x.op \in Reads /\ x.pc = "done" THEN x.ans ELSE None
  <2>1. Answers' = [q \in Requests |-> IF q = r THEN a ELSE Answers[q]]
    BY <1>1 DEF Answers, At
  <2> HIDE DEF a
  <2>2. [Answers EXCEPT ![r] = a] = [q \in Requests |-> IF q = r THEN a ELSE Answers[q]]
    BY DEF Answers
  <2>3. Answers' = [Answers EXCEPT ![r] = a]
    BY <2>1, <2>2
  <2> QED
    BY <2>3 DEF a
<1> QED
  BY <1>2, <1>3, <1>4

(* The step of a running handler.                                          *)
LEMMA SeenOfHandler ==
  ASSUME IInv, NEW r \in Requests, Active(r), NEW x,
         req' = [req EXCEPT ![r] = x], SameAsk(x, req[r]),
         HasApplied(req[r]) => HasApplied(x)
  PROVE  /\ Asked' = Asked /\ Asked[r] = [op |-> x.op, vid |-> x.vid]
         /\ Applied' = Applied \cup (IF HasApplied(x) THEN {r} ELSE {})
         /\ r \in Applied <=> HasApplied(req[r])
         /\ Answers' = [Answers EXCEPT ![r] =
                          IF x.op \in Reads /\ x.pc = "done" THEN x.ans ELSE None]
         /\ Answers[r] = None
<1>1. Asked[r] = [op |-> x.op, vid |-> x.vid]
  BY DEF Asked, SameAsk
<1>2. Asked' = Asked
  BY <1>1, Seen DEF Asked
<1>3. Answers[r] = None
  BY DEF Answers, Active, At
<1>4. r \in Applied <=> HasApplied(req[r])
  BY DEF Applied, HasApplied
<1> QED
  BY <1>1, <1>2, <1>3, <1>4, Seen

LEMMA Stutters ==
  ASSUME IInv, NEW r \in Requests, Active(r), NEW x,
         req' = [req EXCEPT ![r] = x], SameAsk(x, req[r]),
         UNCHANGED <<versioning, tree, clock>>,
         HasApplied(x) <=> HasApplied(req[r]),
         x.op \in Reads => x.pc # "done"
  PROVE  UNCHANGED Key!vars
<1>1. Asked' = Asked /\ Applied' = Applied
  <2>1. /\ Asked' = Asked
        /\ Applied' = Applied \cup (IF HasApplied(x) THEN {r} ELSE {})
        /\ r \in Applied <=> HasApplied(x)
    BY SeenOfHandler
  <2> QED
    BY <2>1
<1>2. Answers' = Answers
  <2>1. Answers' = [Answers EXCEPT ![r] = None] /\ Answers[r] = None
    BY SeenOfHandler
  <2> QED
    BY <2>1 DEF Answers
<1>3. StoredVersions' = StoredVersions
  BY SameTree
<1> QED
  BY <1>1, <1>2, <1>3 DEF Key!vars

LEMMA TakesEffect ==
  ASSUME IInv, NEW r \in Requests, Active(r), NEW x,
         req' = [req EXCEPT ![r] = x], SameAsk(x, req[r]),
         UNCHANGED versioning, HasApplied(x), ~HasApplied(req[r]),
         Key!Put(r) \/ Key!Delete(r)
  PROVE  Key!Apply(r)
<1>1. Asked' = Asked /\ Applied' = Applied \cup {r} /\ r \notin Applied
  BY SeenOfHandler
<1>2. Answers' = Answers
  <2>1. x.op \notin Reads
    BY DEF HasApplied, Reads
  <2>2. Answers' = [Answers EXCEPT ![r] = None] /\ Answers[r] = None
    BY <2>1, SeenOfHandler
  <2> QED
    BY <2>2 DEF Answers
<1> QED
  BY <1>1, <1>2 DEF Key!Apply

LEMMA IsAnswered ==
  ASSUME IInv, NEW r \in Requests, Active(r), NEW x,
         req' = [req EXCEPT ![r] = x], SameAsk(x, req[r]),
         UNCHANGED <<versioning, tree, clock>>,
         x.op \in Reads, x.pc = "done",
         x.ans = Key!Reply([op |-> x.op, vid |-> x.vid])
  PROVE  Key!Read(r)
<1>1. ~HasApplied(x) /\ ~HasApplied(req[r])
  BY DEF HasApplied, Reads, SameAsk
<1>2. /\ Asked' = Asked /\ Applied' = Applied
      /\ Asked[r] = [op |-> x.op, vid |-> x.vid]
      /\ Answers[r] = None /\ Answers' = [Answers EXCEPT ![r] = x.ans]
  BY <1>1, SeenOfHandler
<1>3. StoredVersions' = StoredVersions
  BY SameTree
<1>4. Asked[r].op \in {"head", "list"} /\ x.ans = Key!Reply(Asked[r])
  BY <1>2 DEF Reads
<1> QED
  BY <1>2, <1>3, <1>4 DEF Key!Read

(* The versions VersionedKey names are those of the nodes.                 *)
LEMMA SameNames ==
  /\ Key!NullOf(StoredVersions) = {VersionOf(n) : n \in NullNodes}
  /\ \A v : Key!Named(v) = {VersionOf(n) : n \in Named(v)}
<1>1. Key!NullOf(StoredVersions) = {VersionOf(n) : n \in NullNodes}
  BY DEF Key!NullOf, StoredVersions, VersionOf, NullNodes
<1>2. Key!Newest(StoredVersions) = {VersionOf(n) : n \in Latest}
  <2>1. \A n \in Nodes : VersionOf(n).at = tree[n].ts
    BY DEF VersionOf
  <2>2. \A n \in Nodes :
          (\A w \in StoredVersions : w.at <= VersionOf(n).at) <=> n \in Latest
    BY <2>1 DEF StoredVersions, Latest
  <2> QED
    BY <2>2 DEF Key!Newest, StoredVersions, Latest
<1>3. \A v : {w \in StoredVersions : w.oid = v}
              = {VersionOf(n) : n \in {m \in Nodes : tree[m].oid = v}}
  BY DEF StoredVersions, VersionOf
<1>4. /\ Key!Named("latest") = Key!Newest(StoredVersions)
      /\ Key!Named("null") = Key!NullOf(StoredVersions)
      /\ \A v : v \notin {"null", "latest"} =>
           Key!Named(v) = {w \in StoredVersions : w.oid = v}
  BY Zenon DEF Key!Named
<1> QED
  BY <1>1, <1>2, <1>3, <1>4, NamedIs

(* No two nodes are the same version.                                      *)
LEMMA VersionsDiffer ==
  ASSUME WrittenOnce, NEW m \in Nodes, NEW n \in Nodes, VersionOf(m) = VersionOf(n)
  PROVE  m = n
BY DEF WrittenOnce, VersionOf

(* An OID FrostFS has an object for is not a delete marker's.              *)
LEMMA ObjectIsNoMarker ==
  ASSUME WrittenOnce, NEW n \in Nodes, tree[n].oid \in objects
  PROVE  ~tree[n].marker
BY DEF WrittenOnce

(* Steps nobody sees: the handler looks something up, or works on FrostFS  *)
(* or on a cache.                                                          *)
LEMMA HiddenSteps ==
  ASSUME Serial, NEW r \in Requests,
         \/ CreateObject(r) \/ FindNull(r) \/ ClearOutdated(r) \/ PutLockInfo(r)
         \/ CachePut(r) \/ EvictObject(r) \/ DeleteObject(r) \/ CleanLists(r)
         \/ DropName(r) \/ FetchNodes(r) \/ ReadNode(r)
  PROVE  UNCHANGED Key!vars
<1>1. /\ req[r] \in Request /\ AtStep(req[r]) /\ Carries(req[r]) /\ IInv
      /\ Active(r) /\ UNCHANGED <<versioning, tree, clock>>
  BY DEF CreateObject, FindNull, ClearOutdated, PutLockInfo, CachePut, EvictObject,
         DeleteObject, CleanLists, DropName, FetchNodes, ReadNode,
         Serial, IInv, TypeOK, StoreInv, At, Active, stores
<1>2. RegisterBut(req[r]) /\ Knows(r, req[r])
  BY <1>1, RunsAlone DEF Serial
<1>3. PICK x : /\ req' = [req EXCEPT ![r] = x] /\ SameAsk(x, req[r])
               /\ HasApplied(x) <=> HasApplied(req[r])
               /\ x.op \in Reads => x.pc # "done"
  <2>1. CASE CreateObject(r)
    <3>1. PICK p \in {"getnull", "add"} : req' = [req EXCEPT ![r] = To(r, p)]
      BY <2>1, NothingFails DEF CreateObject, Serial
    <3>2. To(r, p).pc = p /\ SameAsk(To(r, p), req[r])
      BY <1>1, Fields
    <3> QED
      BY <2>1, <3>1, <3>2 DEF CreateObject, At, HasApplied
  <2>2. CASE FindNull(r)
    <3>1. ~(Cardinality(NullNodes) > 1)
      BY <1>2, AtMostOne DEF RegisterBut
    <3>2. PICK n : req' = [req EXCEPT ![r] = To(r, "add")]
                   \/ req' = [req EXCEPT ![r] = [req[r] EXCEPT !.pc = "move", !.node = n]]
      BY <2>2, <3>1 DEF FindNull, Step
    <3> DEFINE y == [req[r] EXCEPT !.pc = "move", !.node = n]
    <3>3. /\ To(r, "add").pc = "add" /\ SameAsk(To(r, "add"), req[r])
          /\ y.pc = "move" /\ SameAsk(y, req[r])
      BY <1>1, Fields DEF SameAsk, Request
    <3>4. ~HasApplied(req[r]) /\ ~HasApplied(To(r, "add")) /\ ~HasApplied(y)
      BY <2>2, <3>3 DEF FindNull, At, HasApplied
    <3> HIDE DEF y
    <3>5. req' = [req EXCEPT ![r] = To(r, "add")] \/ req' = [req EXCEPT ![r] = y]
      BY <3>2 DEF y
    <3> QED
      BY <3>3, <3>4, <3>5
  <2>3. CASE ClearOutdated(r) \/ PutLockInfo(r)
    <3>1. PICK p \in {"lock", "cache"} : req' = [req EXCEPT ![r] = To(r, p)]
      BY <2>3, NothingFails DEF ClearOutdated, PutLockInfo, AfterAdd, Serial
    <3>2. To(r, p).pc = p /\ SameAsk(To(r, p), req[r])
      BY <1>1, Fields
    <3>3. req[r].pc \in {"clear", "lock"}
      BY <2>3 DEF ClearOutdated, PutLockInfo, At
    <3> QED
      BY <3>1, <3>2, <3>3 DEF HasApplied, SameAsk
  <2>4. CASE CachePut(r) \/ CleanLists(r) \/ DropName(r)
    <3>1. PICK e : req' = [req EXCEPT ![r] = Done(r, e)]
      BY <2>4 DEF CachePut, CleanLists, DropName, Step
    <3>2. Done(r, e).pc = "done" /\ SameAsk(Done(r, e), req[r])
      BY <1>1, Fields
    <3>3. req[r].pc \in {"cache", "clean"} /\ req[r].op \in {"put", "delete"}
      BY <1>1, <2>4 DEF CachePut, CleanLists, DropName, At, AtStep
    <3> QED
      BY <3>1, <3>2, <3>3 DEF HasApplied, SameAsk, Reads
  <2>5. CASE EvictObject(r) \/ DeleteObject(r)
    <3>1. req[r].pc \in {"evict", "delete"} /\ req[r].op = "delete"
      BY <1>1, <2>5 DEF EvictObject, DeleteObject, At, AtStep
    <3>2. req[r].pc = "delete" => req[r].oid \in objects
      BY <1>2, <3>1 DEF Knows, DeleteKnows
    <3>3. PICK p \in {"delete", "remove", "getnull"} : req' = [req EXCEPT ![r] = To(r, p)]
      BY <2>5, <3>2, NothingFails DEF EvictObject, DeleteObject, AfterOld, At, Serial
    <3>4. To(r, p).pc = p /\ SameAsk(To(r, p), req[r])
      BY <1>1, Fields
    <3> QED
      BY <3>1, <3>3, <3>4 DEF HasApplied, SameAsk, Reads
  <2>6. CASE FetchNodes(r)
    <3> DEFINE y == [req[r] EXCEPT !.pc = IF Nodes = {} THEN "fill" ELSE "nodes",
                                   !.todo = Nodes]
    <3>1. req' = [req EXCEPT ![r] = y] /\ req[r].op = "list"
      BY <2>6 DEF FetchNodes, Step
    <3>2. y.pc # "done" /\ SameAsk(y, req[r])
      BY <1>1 DEF SameAsk, Request
    <3> HIDE DEF y
    <3> QED
      BY <3>1, <3>2 DEF HasApplied, SameAsk
  <2>7. CASE ReadNode(r)
    <3>1. PICK n : req' = [req EXCEPT ![r] =
                [req[r] EXCEPT
                   !.pc = IF req[r].todo = {n} THEN "fill" ELSE "nodes",
                   !.todo = req[r].todo \ {n},
                   !.ans = req[r].ans \cup {tree[n].oid}]]
      BY <2>7, ReadsANode
    <3> DEFINE y == [req[r] EXCEPT
                   !.pc = IF req[r].todo = {n} THEN "fill" ELSE "nodes",
                   !.todo = req[r].todo \ {n},
                   !.ans = req[r].ans \cup {tree[n].oid}]
    <3>2. req' = [req EXCEPT ![r] = y] /\ req[r].op = "list"
      BY <1>1, <2>7, <3>1 DEF ReadNode, At, AtStep
    <3>3. y.pc # "done" /\ SameAsk(y, req[r])
      BY <1>1 DEF SameAsk, Request
    <3> HIDE DEF y
    <3> QED
      BY <3>2, <3>3 DEF HasApplied, SameAsk
  <2> QED
    BY <2>1, <2>2, <2>3, <2>4, <2>5, <2>6, <2>7
<1> QED
  BY <1>1, <1>3, Stutters

(* A version is written: AddVersion, of a version or of a delete marker.   *)
LEMMA WritesVersion ==
  ASSUME Serial, Serial', NEW r \in Requests, NEW n \in Requests,
         Active(r),
         tree' = Upsert(n, NewNode(r)), clock' = clock + 1, NEW marker \in BOOLEAN,
         marker <=> req[r].op = "delete",
         WritesNull(r) => NullNodes \subseteq {n},
         n \in Nodes => WritesNull(r) /\ NullNodes = {n}
  PROVE  Key!Write(r, marker)
<1>1. /\ RegisterBut(req[r]) /\ req[r].mode = versioning /\ IInv /\ WrittenOnce
      /\ tree' \in [Nodes' -> Node]
  BY RunsAlone DEF Serial, StoreInv, IInv, TypeOK
<1>2. /\ Nodes' = Nodes \cup {n}
      /\ \A m \in Nodes' : tree'[m] = IF m = n THEN NewNode(r) ELSE tree[m]
      /\ NewNode(r).ts = clock + 1 /\ NewNode(r).oid = r
      /\ NewNode(r).null = WritesNull(r)
      /\ NewNode(r).marker <=> req[r].op = "delete"
  BY <1>1, Upserted
<1> DEFINE new == [oid |-> r, null |-> versioning # "Enabled", marker |-> marker,
                   at |-> clock + 1]
<1>3. VersionOf(n)' = new
  <2>1. tree'[n] = NewNode(r) /\ tree'[n].marker \in BOOLEAN
    BY <1>1, <1>2 DEF Node
  <2>2. NewNode(r).marker = marker
    BY <1>2, <2>1
  <2>3. NewNode(r).null = (versioning # "Enabled")
    BY <1>1, <1>2 DEF WritesNull
  <2> QED
    BY <1>2, <2>1, <2>2, <2>3 DEF VersionOf
<1>4. \A m \in Nodes \ {n} : VersionOf(m)' = VersionOf(m)
  BY <1>2 DEF VersionOf
<1>5. StoredVersions' = {VersionOf(m) : m \in Nodes \ {n}} \cup {new}
  <2>1. StoredVersions' = {VersionOf(m)' : m \in Nodes'}
    BY DEF StoredVersions, VersionOf
  <2> HIDE DEF new
  <2> QED
    BY <1>2, <1>3, <1>4, <2>1
<1>6. {VersionOf(m) : m \in Nodes \ {n}}
        = IF versioning # "Enabled" THEN StoredVersions \ Key!NullOf(StoredVersions)
                                    ELSE StoredVersions
  <2>1. CASE n \in Nodes
    <3>1. Key!NullOf(StoredVersions) = {VersionOf(n)} /\ versioning # "Enabled"
      BY <1>1, <2>1, SameNames DEF WritesNull
    <3>2. \A m \in Nodes : VersionOf(m) = VersionOf(n) => m = n
      BY <1>1, <2>1, VersionsDiffer
    <3> QED
      BY <3>1, <3>2 DEF StoredVersions
  <2>2. CASE n \notin Nodes
    <3>1. versioning # "Enabled" => NullNodes = {}
      BY <1>1, <2>2 DEF WritesNull, NullNodes
    <3>2. versioning # "Enabled" => Key!NullOf(StoredVersions) = {}
      BY <3>1, SameNames
    <3> QED
      BY <2>2, <3>2 DEF StoredVersions
  <2> QED
    BY <2>1, <2>2
<1> QED
  BY <1>5, <1>6 DEF Key!Write

LEMMA AddApplies ==
  ASSUME Serial, Serial', NEW r \in Requests, AddNode(r) \/ MoveNode(r)
  PROVE  Key!Apply(r)
<1>1. /\ req[r] \in Request /\ AtStep(req[r]) /\ Carries(req[r]) /\ IInv
      /\ Active(r) /\ UNCHANGED versioning /\ req[r].pc \in {"add", "move"}
  BY DEF AddNode, MoveNode, Serial, IInv, TypeOK, StoreInv, At, Active
<1>2. Knows(r, req[r]) /\ req[r].mode = versioning
  BY <1>1, RunsAlone DEF Serial
<1>3. req[r].op \in {"put", "delete"}
  BY <1>1 DEF Carries, Replacing
<1>4. /\ req[r].op = "delete" => req[r].vid = "latest"
      /\ At(r, "add") /\ req[r].op = "delete" => versioning = "Enabled"
      /\ At(r, "move") /\ req[r].op = "delete" => versioning = "Suspended"
  BY <1>1, <1>2 DEF Carries, Replacing, Knows, ReplaceKnows, DeleteKnows, Replaces, At
<1>5. PICK n \in Requests :
        /\ tree' = Upsert(n, NewNode(r)) /\ clock' = clock + 1
        /\ WritesNull(r) => NullNodes \subseteq {n}
        /\ n \in Nodes => WritesNull(r) /\ NullNodes = {n}
        /\ At(r, "move") => NullNodes # {}
  <2>1. CASE AddNode(r)
    <3>1. WritesNull(r) => NullNodes = {}
      BY <1>1, <1>2, <2>1 DEF Knows, ReplaceKnows, WritesNull, AddNode, At
    <3>2. r \notin Nodes
      BY <1>1, <2>1 DEF Serial, SerialInv, NodesWritten, Wrote, AddNode, At
    <3> QED
      BY <2>1, <3>1, <3>2 DEF AddNode, At
  <2>2. CASE MoveNode(r)
    BY <2>2, MovesTheNull
  <2> QED
    BY <2>1, <2>2
<1>6. ASSUME NEW marker \in BOOLEAN, marker <=> req[r].op = "delete"
      PROVE  Key!Write(r, marker)
  BY <1>1, <1>5, <1>6, WritesVersion
<1>7. Asked[r].op = req[r].op /\ Asked[r].vid = req[r].vid
  BY DEF Asked
<1>8. Key!Put(r) \/ Key!Delete(r)
  <2>1. CASE req[r].op = "put"
    <3>1. Key!Write(r, FALSE)
      BY <1>6, <2>1
    <3> QED
      BY <1>7, <2>1, <3>1 DEF Key!Put
  <2>2. CASE req[r].op = "delete"
    <3>1. Key!Write(r, TRUE)
      BY <1>6, <2>2
    <3>2. req[r].vid = "latest" /\ versioning # "Unversioned"
      BY <1>1, <1>4, <2>2 DEF At
    <3>3. versioning = "Suspended" => Key!NullOf(StoredVersions) # {}
      BY <1>1, <1>4, <1>5, <2>2, SameNames DEF At
    <3> QED
      BY <1>7, <2>2, <3>1, <3>2, <3>3 DEF Key!Delete
  <2> QED
    BY <1>3, <2>1, <2>2
<1>9. PICK x : /\ req' = [req EXCEPT ![r] = x] /\ SameAsk(x, req[r])
               /\ x.pc \in {"lock", "cache", "clear"}
  <2>1. PICK p \in {"lock", "cache", "clear"} : req' = [req EXCEPT ![r] = To(r, p)]
    BY MovesTheNull, NothingFails DEF AddNode, AfterAdd, Serial
  <2>2. To(r, p).pc = p /\ SameAsk(To(r, p), req[r])
    BY <1>1, Fields
  <2> QED
    BY <2>1, <2>2
<1>10. HasApplied(x) /\ ~HasApplied(req[r])
  BY <1>1, <1>3, <1>9 DEF HasApplied, SameAsk
<1> QED
  BY <1>1, <1>8, <1>9, <1>10, TakesEffect

(* A DELETE takes its version from the tree, when its object is gone.      *)
LEMMA RemoveApplies ==
  ASSUME Serial, Serial', NEW r \in Requests, RemoveVersion(r)
  PROVE  Key!Apply(r)
<1> DEFINE n == req[r].node
<1>1. /\ req[r] \in Request /\ AtStep(req[r]) /\ Carries(req[r]) /\ IInv
      /\ Active(r) /\ UNCHANGED <<versioning, clock>> /\ At(r, "remove")
      /\ tree' = [m \in Nodes \ {n} |-> tree[m]] /\ WrittenOnce
  BY DEF RemoveVersion, Serial, IInv, TypeOK, StoreInv, At, Active
<1>2. /\ RegisterBut(req[r]) /\ Knows(r, req[r]) /\ req[r].mode = versioning
      /\ req[r].op = "delete"
  BY <1>1, RunsAlone DEF Serial, AtStep, At
<1>3. Named(req[r].vid) = {n} /\ Sought(req[r]) = req[r].vid
  BY <1>1, <1>2 DEF Knows, DeleteKnows, At
<1>4. n \in Nodes
  BY <1>1, <1>2, <1>3, NamedOne
<1>5. req[r].vid # "latest" \/ versioning = "Unversioned"
  BY <1>1, <1>2, <1>3 DEF Sought, Carries, Request, Modes, At
<1>6. PICK x : /\ req' = [req EXCEPT ![r] = x] /\ SameAsk(x, req[r]) /\ x.pc = "clean"
  <2>1. req' = [req EXCEPT ![r] = To(r, "clean")]
    BY <1>4, NothingFails DEF RemoveVersion, Serial
  <2>2. To(r, "clean").pc = "clean" /\ SameAsk(To(r, "clean"), req[r])
    BY <1>1, Fields
  <2> QED
    BY <2>1, <2>2
<1> HIDE DEF n
<1>7. StoredVersions' = StoredVersions \ Key!Named(req[r].vid)
  <2>1. Nodes' = Nodes \ {n} /\ \A m \in Nodes' : VersionOf(m)' = VersionOf(m)
    BY <1>1 DEF Nodes, VersionOf
  <2>2. StoredVersions' = {VersionOf(m)' : m \in Nodes'}
    BY DEF StoredVersions, VersionOf
  <2>3. Key!Named(req[r].vid) = {VersionOf(n)}
    BY <1>3, SameNames
  <2>4. \A m \in Nodes : VersionOf(m) = VersionOf(n) => m = n
    BY <1>1, <1>4, VersionsDiffer
  <2> QED
    BY <2>1, <2>2, <2>3, <2>4 DEF StoredVersions
<1>8. Key!Delete(r)
  <2>1. Asked[r].op = "delete" /\ Asked[r].vid = req[r].vid
    BY <1>2 DEF Asked
  <2> QED
    BY <1>1, <1>5, <1>7, <2>1 DEF Key!Delete
<1>9. HasApplied(x) /\ ~HasApplied(req[r])
  BY <1>1, <1>2, <1>6 DEF HasApplied, SameAsk, At
<1> QED
  BY <1>1, <1>6, <1>8, <1>9, TakesEffect

(* A DELETE that finds no version is done; one that finds it is not seen.  *)
LEMMA FindVersionMaps ==
  ASSUME Serial, NEW r \in Requests, FindVersion(r)
  PROVE  Key!Apply(r) \/ UNCHANGED Key!vars
<1>1. /\ req[r] \in Request /\ AtStep(req[r]) /\ IInv /\ WrittenOnce
      /\ Active(r) /\ UNCHANGED <<versioning, tree, clock>>
      /\ At(r, "find") /\ req[r].op = "delete"
  BY DEF FindVersion, Serial, IInv, TypeOK, StoreInv, At, Active, stores
<1>2. RegisterBut(req[r]) /\ req[r].mode = versioning
  BY <1>1, RunsAlone DEF Serial
<1>3. ~(Cardinality(Named(Target(r))) > 1)
  BY <1>1, <1>2, NamedOne
<1>4. CASE Named(Target(r)) = {}
  <2>1. req' = [req EXCEPT ![r] = Done(r, "ok")]
    BY <1>3, <1>4 DEF FindVersion, Step
  <2>2. PICK x : /\ req' = [req EXCEPT ![r] = x] /\ SameAsk(x, req[r]) /\ x.pc = "done"
    <3>1. Done(r, "ok").pc = "done" /\ SameAsk(Done(r, "ok"), req[r])
      BY <1>1, Fields
    <3> QED
      BY <2>1, <3>1
  <2>3. Asked[r].op = "delete" /\ Asked[r].vid = req[r].vid
    BY <1>1 DEF Asked
  <2>4. StoredVersions' = StoredVersions
    BY <1>1, SameTree
  <2>5. Key!Delete(r)
    <3>1. CASE req[r].vid # "latest" \/ versioning = "Unversioned"
      <4>1. Target(r) = req[r].vid
        BY <1>2, <3>1 DEF Target
      <4>2. Key!Named(req[r].vid) = {}
        BY <1>4, <4>1, SameNames
      <4> QED
        BY <1>1, <2>3, <2>4, <3>1, <4>2 DEF Key!Delete
    <3>2. CASE ~(req[r].vid # "latest" \/ versioning = "Unversioned")
      <4>1. versioning = "Suspended"
        BY <1>1, <1>2, <3>2 DEF AtStep, Request, Modes, At
      <4>2. NullNodes = {}
        BY <1>2, <1>4, <3>2, <4>1, NamedIs DEF Target
      <4>3. Key!NullOf(StoredVersions) = {}
        BY <4>2, SameNames
      <4> QED
        BY <1>1, <2>3, <2>4, <3>2, <4>1, <4>3 DEF Key!Delete
    <3> QED
      BY <3>1, <3>2
  <2>6. HasApplied(x) /\ ~HasApplied(req[r])
    BY <1>1, <2>2 DEF HasApplied, SameAsk, At
  <2> QED
    BY <1>1, <2>2, <2>5, <2>6, TakesEffect
<1>5. CASE Named(Target(r)) # {}
  <2>1. PICK n \in Named(Target(r)) :
          Step(r, [req[r] EXCEPT
                     !.node = n, !.oid = tree[n].oid,
                     !.pc = IF tree[n].marker THEN AfterOld(r) ELSE "evict"])
    BY <1>3, <1>5 DEF FindVersion
  <2> DEFINE p == IF tree[n].marker THEN AfterOld(r) ELSE "evict"
             y == [req[r] EXCEPT !.node = n, !.oid = tree[n].oid, !.pc = p]
  <2>2. p \in {"remove", "getnull", "evict"}
    BY DEF AfterOld
  <2>3. req' = [req EXCEPT ![r] = y]
    BY <2>1 DEF Step
  <2> HIDE DEF p
  <2>4. y.pc = p /\ SameAsk(y, req[r])
    BY <1>1 DEF SameAsk, Request
  <2> HIDE DEF y
  <2>5. PICK x : /\ req' = [req EXCEPT ![r] = x] /\ SameAsk(x, req[r])
                 /\ x.pc \in {"remove", "getnull", "evict"}
    BY <2>2, <2>3, <2>4
  <2>6. ~HasApplied(x) /\ ~HasApplied(req[r]) /\ x.op \notin Reads
    BY <1>1, <2>5 DEF HasApplied, SameAsk, At, Reads
  <2> QED
    BY <1>1, <2>5, <2>6, Stutters
<1> QED
  BY <1>4, <1>5

(* What a read answers is what VersionedKey replies.                       *)
LEMMA Replies ==
  ASSUME WrittenOnce, NEW v
  PROVE  /\ Named(v) = {} => Key!Reply([op |-> "head", vid |-> v]) = {}
         /\ \A n \in Nodes : Named(v) = {n} =>
              Key!Reply([op |-> "head", vid |-> v])
                = IF tree[n].marker THEN {} ELSE {tree[n].oid}
         /\ Key!Reply([op |-> "list", vid |-> v]) = StoredOids
<1>1. Key!Reply([op |-> "head", vid |-> v])
        = {w.oid : w \in {u \in {VersionOf(n) : n \in Named(v)} : ~u.marker}}
  <2>1. Key!Reply([op |-> "head", vid |-> v])
          = {w.oid : w \in {u \in Key!Named(v) : ~u.marker}}
    <3> PICK q : q = [op |-> "head", vid |-> v]
      OBVIOUS
    <3>1. q.op = "head" /\ q.vid = v
      OBVIOUS
    <3>2. Key!Reply(q) = Key!Oids({u \in Key!Named(v) : ~u.marker})
      BY <3>1 DEF Key!Reply
    <3> QED
      BY <3>2 DEF Key!Oids
  <2>2. Key!Named(v) = {VersionOf(n) : n \in Named(v)}
    BY SameNames
  <2> QED
    BY <2>1, <2>2
<1>2. \A n : VersionOf(n).marker = tree[n].marker /\ VersionOf(n).oid = tree[n].oid
  BY DEF VersionOf
<1>3. Named(v) = {} => Key!Reply([op |-> "head", vid |-> v]) = {}
  BY <1>1
<1>4. ASSUME NEW n \in Nodes, Named(v) = {n}
      PROVE  Key!Reply([op |-> "head", vid |-> v])
               = IF tree[n].marker THEN {} ELSE {tree[n].oid}
  <2>1. {VersionOf(m) : m \in Named(v)} = {VersionOf(n)}
    BY <1>4
  <2>2. {u \in {VersionOf(n)} : ~u.marker} = IF tree[n].marker THEN {} ELSE {VersionOf(n)}
    BY <1>2
  <2>3. Key!Reply([op |-> "head", vid |-> v])
          = {w.oid : w \in IF tree[n].marker THEN {} ELSE {VersionOf(n)}}
    BY <1>1, <2>1, <2>2
  <2> QED
    BY <1>2, <2>3
<1>5. Key!Reply([op |-> "list", vid |-> v]) = StoredOids
  BY <1>2 DEF Key!Reply, Key!Oids, StoredVersions, StoredOids
<1> QED
  BY <1>3, <1>4, <1>5

(* The look-up of a HEAD answers, or is not seen.                          *)
LEMMA FindToReadMaps ==
  ASSUME Serial, NEW r \in Requests, FindToRead(r)
  PROVE  Key!Read(r) \/ UNCHANGED Key!vars
<1>1. /\ req[r] \in Request /\ IInv /\ WrittenOnce
      /\ Active(r) /\ UNCHANGED <<versioning, tree, clock>>
      /\ At(r, "find") /\ req[r].op = "head"
  BY DEF FindToRead, Serial, IInv, TypeOK, StoreInv, At, Active, stores
<1>2. RegisterBut(req[r]) /\ CachesRightBut(req[r]) /\ Knows(r, req[r])
  BY <1>1, RunsAlone DEF Serial
<1>3. req[r].ans = {}
  BY <1>1, <1>2 DEF Knows, HeadKnows, At, Rests
<1>4. /\ ~(Cardinality(Named(req[r].vid)) > 1)
      /\ \A n \in Named(req[r].vid) : Named(req[r].vid) = {n} /\ n \in Nodes
  BY <1>1, <1>2, NamedOne
<1>5. \/ /\ req' = [req EXCEPT ![r] = Done(r, "notfound")]
         /\ \A n \in Named(req[r].vid) : tree[n].marker
      \/ \E n \in Named(req[r].vid) :
           /\ tree[n].oid \in objCache
           /\ req' = [req EXCEPT ![r] = Answered(r, tree[n].oid)]
      \/ \E n \in Named(req[r].vid) :
           req' = [req EXCEPT ![r] = [req[r] EXCEPT !.pc = "head", !.oid = tree[n].oid]]
  BY <1>4 DEF FindToRead, Step
<1>6. CASE /\ req' = [req EXCEPT ![r] = Done(r, "notfound")]
           /\ \A n \in Named(req[r].vid) : tree[n].marker
  <2>1. PICK x : req' = [req EXCEPT ![r] = x] /\ x = Done(r, "notfound")
    BY <1>6
  <2>2. x.pc = "done" /\ SameAsk(x, req[r]) /\ x.ans = {}
    BY <1>1, <1>3, <2>1 DEF Done, SameAsk, Request
  <2>3. Key!Reply([op |-> "head", vid |-> req[r].vid]) = {}
    BY <1>1, <1>4, <1>6, Replies
  <2>4. x.op = "head" /\ x.vid = req[r].vid
    BY <1>1, <2>2 DEF SameAsk
  <2> QED
    BY <1>1, <2>1, <2>2, <2>3, <2>4, IsAnswered DEF Reads
<1>7. CASE \E n \in Named(req[r].vid) :
             /\ tree[n].oid \in objCache
             /\ req' = [req EXCEPT ![r] = Answered(r, tree[n].oid)]
  <2>1. PICK n \in Named(req[r].vid) :
               /\ tree[n].oid \in objCache
               /\ req' = [req EXCEPT ![r] = Answered(r, tree[n].oid)]
    BY <1>7
  <2>2. PICK x : req' = [req EXCEPT ![r] = x] /\ x = Answered(r, tree[n].oid)
    BY <2>1
  <2>3. x.pc = "done" /\ SameAsk(x, req[r]) /\ x.ans = {tree[n].oid}
    BY <1>1, <2>2 DEF Answered, Done, SameAsk, Request
  <2>4. ~tree[n].marker
    BY <1>1, <1>2, <1>4, <2>1, ObjectIsNoMarker DEF CachesRightBut
  <2>5. Key!Reply([op |-> "head", vid |-> req[r].vid]) = {tree[n].oid}
    BY <1>1, <1>4, <2>4, Replies
  <2>6. x.op = "head" /\ x.vid = req[r].vid
    BY <1>1, <2>3 DEF SameAsk
  <2> QED
    BY <1>1, <2>2, <2>3, <2>5, <2>6, IsAnswered DEF Reads
<1>8. CASE \E n \in Named(req[r].vid) :
             req' = [req EXCEPT ![r] = [req[r] EXCEPT !.pc = "head", !.oid = tree[n].oid]]
  <2>1. PICK n : req' = [req EXCEPT ![r] =
                            [req[r] EXCEPT !.pc = "head", !.oid = tree[n].oid]]
    BY <1>8
  <2>2. PICK x : /\ req' = [req EXCEPT ![r] = x]
                 /\ x = [req[r] EXCEPT !.pc = "head", !.oid = tree[n].oid]
    BY <2>1
  <2>3. x.pc = "head" /\ SameAsk(x, req[r])
    BY <1>1, <2>2 DEF SameAsk, Request
  <2> QED
    BY <1>1, <2>2, <2>3, Stutters DEF HasApplied, SameAsk, Reads
<1> QED
  BY <1>5, <1>6, <1>7, <1>8

LEMMA HeadObjectMaps ==
  ASSUME Serial, NEW r \in Requests, HeadObject(r)
  PROVE  Key!Read(r) \/ UNCHANGED Key!vars
<1>1. /\ req[r] \in Request /\ IInv /\ WrittenOnce /\ AtStep(req[r])
      /\ Active(r) /\ UNCHANGED <<versioning, tree, clock>> /\ At(r, "head")
  BY DEF HeadObject, Serial, IInv, TypeOK, StoreInv, At, Active, stores
<1>2. RegisterBut(req[r]) /\ Knows(r, req[r]) /\ req[r].op = "head"
  BY <1>1, RunsAlone DEF Serial, AtStep, At
<1>3. req[r].ans = {}
  BY <1>1, <1>2 DEF Knows, HeadKnows, At, Rests
<1>4. PICK n \in Nodes : Named(req[r].vid) = {n} /\ tree[n].oid = req[r].oid
  BY <1>1, <1>2 DEF Knows, HeadKnows, At
<1>5. CASE req[r].oid \in objects
  <2>1. PICK x : req' = [req EXCEPT ![r] = x] /\ x = To(r, "fill")
    BY <1>5 DEF HeadObject, Step
  <2>2. x.pc = "fill" /\ SameAsk(x, req[r])
    BY <1>1, <2>1, Fields
  <2> QED
    BY <1>1, <1>2, <2>1, <2>2, Stutters DEF HasApplied, SameAsk, Reads
<1>6. CASE req[r].oid \notin objects
  <2>1. PICK x : req' = [req EXCEPT ![r] = x] /\ x = Done(r, "notfound")
    BY <1>6 DEF HeadObject, Step
  <2>2. x.pc = "done" /\ SameAsk(x, req[r]) /\ x.ans = {}
    BY <1>1, <1>3, <2>1 DEF Done, SameAsk, Request
  <2>3. tree[n].marker
    BY <1>2, <1>4, <1>6 DEF RegisterBut, Taking
  <2>4. Key!Reply([op |-> "head", vid |-> req[r].vid]) = {}
    BY <1>1, <1>4, <2>3, Replies
  <2>5. x.op = "head" /\ x.vid = req[r].vid
    BY <1>2, <2>2 DEF SameAsk
  <2> QED
    BY <1>1, <2>1, <2>2, <2>4, <2>5, IsAnswered DEF Reads
<1> QED
  BY <1>5, <1>6

LEMMA CacheReadMaps ==
  ASSUME Serial, NEW r \in Requests, CacheRead(r) \/ CacheList(r)
  PROVE  Key!Read(r)
<1>1. /\ req[r] \in Request /\ IInv /\ WrittenOnce
      /\ Active(r) /\ UNCHANGED <<versioning, tree, clock>> /\ At(r, "fill")
  BY DEF CacheRead, CacheList, Serial, IInv, TypeOK, StoreInv, At, Active, stores
<1>2. Knows(r, req[r])
  BY <1>1, RunsAlone DEF Serial
<1>3. CASE CacheRead(r)
  <2>1. PICK x : req' = [req EXCEPT ![r] = x] /\ x = Answered(r, req[r].oid)
    BY <1>3 DEF CacheRead, Step
  <2>2. x.pc = "done" /\ SameAsk(x, req[r]) /\ x.ans = {req[r].oid}
    BY <1>1, <2>1 DEF Answered, Done, SameAsk, Request
  <2>3. x.op = "head" /\ x.vid = req[r].vid /\ req[r].op = "head"
    BY <1>3, <2>2 DEF SameAsk, CacheRead
  <2>4. PICK n \in Nodes : /\ Named(req[r].vid) = {n} /\ tree[n].oid = req[r].oid
                           /\ req[r].oid \in objects
    BY <1>1, <1>2, <2>3 DEF Knows, HeadKnows, At
  <2>5. Key!Reply([op |-> "head", vid |-> req[r].vid]) = {req[r].oid}
    BY <1>1, <2>4, ObjectIsNoMarker, Replies
  <2> QED
    BY <1>1, <2>1, <2>2, <2>3, <2>5, IsAnswered DEF Reads
<1>4. CASE CacheList(r)
  <2>1. PICK x : req' = [req EXCEPT ![r] = x] /\ x = Done(r, "ok")
    BY <1>4 DEF CacheList, Step
  <2>2. x.pc = "done" /\ SameAsk(x, req[r]) /\ x.ans = req[r].ans
    BY <1>1, <2>1 DEF Done, SameAsk, Request
  <2>3. x.op = "list" /\ req[r].op = "list"
    BY <1>4, <2>2 DEF SameAsk, CacheList
  <2>4. req[r].ans = StoredOids
    BY <1>1, <1>2, <2>3 DEF Knows, ListKnows, At, StoredOids
  <2>5. Key!Reply([op |-> "list", vid |-> x.vid]) = StoredOids
    BY <1>1, Replies
  <2> QED
    BY <1>1, <2>1, <2>2, <2>3, <2>4, <2>5, IsAnswered DEF Reads
<1> QED
  BY <1>1, <1>3, <1>4

(* A request that begins is issued; a cached answer is given at once.      *)
LEMMA BeginMaps ==
  ASSUME Serial, NEW r \in Requests, BeginStep(r)
  PROVE  \E q \in Key!Asks : \/ Key!Issue(r, q) /\ UNCHANGED Answers
                             \/ Key!IssueRead(r, q)
<1>1. /\ CanBegin /\ UNCHANGED <<versioning, stores>> /\ IInv /\ WrittenOnce
      /\ AtStep(req[r]) /\ At(r, "idle")
  BY DEF BeginStep, BeginPut, BeginDelete, BeginHead, BeginList, Begin, Serial,
         IInv, StoreInv
<1>2. req[r] = Idle
  BY <1>1 DEF AtStep, At
<1>3. \A q \in Requests : Rests(req[q])
  BY <1>1, AllRest DEF Serial
<1>4. RegisterBut(req[r]) /\ CachesRightBut(req[r])
  BY <1>3 DEF Serial, SerialInv
<1>5. ~Renames(req[r]) /\ ~Relists(req[r])
  BY <1>3, ReadersMendNothing
<1>6. PICK x \in Request :
        /\ req' = [req EXCEPT ![r] = x]
        /\ \/ x.op = "put" /\ x.pc = "create"
           \/ x.op = "delete" /\ x.pc = "find"
           \/ x.op = "delete" /\ x.pc = "add"
           \/ x.op \in {"head", "list"} /\ x.pc = "find"
           \/ /\ x.op = "head" /\ x.vid = "latest" /\ x.pc = "done"
              /\ names \in objCache /\ x.ans = {names}
           \/ /\ x.op = "list" /\ x.pc = "done"
              /\ lists # {} /\ x.ans = lists
  BY <1>1, BeginsAs
<1> DEFINE q == [op |-> x.op, vid |-> x.vid]
<1>7. q \in Key!Asks
  BY <1>6 DEF Key!Asks, Request
<1>8. Asked[r] = Key!NoAsk /\ Answers[r] = None /\ ~HasApplied(req[r])
  BY <1>2 DEF Asked, Key!NoAsk, Idle, Answers, At, HasApplied
<1>9. ~HasApplied(x)
  BY <1>6 DEF HasApplied
<1>10. /\ Asked' = [Asked EXCEPT ![r] = q] /\ Applied' = Applied
       /\ Answers' = [Answers EXCEPT ![r] =
                        IF x.op \in Reads /\ x.pc = "done" THEN x.ans ELSE None]
  BY <1>1, <1>6, <1>8, <1>9, Seen
<1>11. StoredVersions' = StoredVersions
  BY <1>1, SameTree DEF stores
<1>12. Key!Issue(r, q)
  BY <1>1, <1>8, <1>10, <1>11 DEF Key!Issue, stores
<1>13. CASE x.pc # "done"
  <2>1. Answers' = Answers
    BY <1>8, <1>10, <1>13 DEF Answers
  <2> QED
    BY <1>7, <1>12, <2>1
<1>14. CASE x.pc = "done"
  <2>1. x.op \in {"head", "list"} /\ x.ans = Key!Reply(q)
    <3>1. CASE x.op = "head"
      <4>1. names \in objects /\ x.vid = "latest" /\ x.ans = {names}
        BY <1>4, <1>6, <1>14, <3>1 DEF CachesRightBut
      <4>2. PICK n \in Latest : tree[n].oid = names
        BY <1>4, <1>5, <4>1 DEF CachesRightBut
      <4>3. Named("latest") = {n} /\ n \in Nodes
        BY <1>1, <1>4, <4>2, NamedOne, NamedIs
      <4>4. ~tree[n].marker
        BY <1>1, <4>1, <4>2, <4>3, ObjectIsNoMarker
      <4> QED
        BY <1>1, <3>1, <4>1, <4>2, <4>3, <4>4, Replies
    <3>2. CASE x.op = "list"
      <4>1. x.ans = StoredOids
        BY <1>4, <1>5, <1>6, <1>14, <3>2 DEF CachesRightBut
      <4> QED
        BY <1>1, <3>2, <4>1, Replies
    <3> QED
      BY <1>6, <1>14, <3>1, <3>2
  <2>2. Answers' = [Answers EXCEPT ![r] = Key!Reply(q)]
    BY <1>10, <1>14, <2>1 DEF Reads
  <2>3. Key!IssueRead(r, q)
    BY <1>12, <2>1, <2>2 DEF Key!IssueRead
  <2> QED
    BY <1>7, <2>3
<1> QED
  BY <1>13, <1>14

LEMMA StepMaps ==
  ASSUME Serial, Serial', [Next]_vars
  PROVE  [Key!Next]_Key!vars
<1>1. ASSUME NEW r \in Requests, BeginStep(r) \/ RequestStep(r) \/ CallFails(r)
      PROVE  [Key!Next]_Key!vars
  <2>1. CASE BeginStep(r)
    BY <2>1, BeginMaps DEF Key!Next
  <2>2. CASE PutStep(r)
    BY <2>2, HiddenSteps, AddApplies DEF PutStep, Key!Next
  <2>3. CASE DeleteStep(r)
    BY <2>3, HiddenSteps, FindVersionMaps, RemoveApplies DEF DeleteStep, Key!Next
  <2>4. CASE ReadStep(r)
    BY <2>4, HiddenSteps, FindToReadMaps, HeadObjectMaps, CacheReadMaps
    DEF ReadStep, Key!Next
  <2> QED
    BY <1>1, <2>1, <2>2, <2>3, <2>4, NothingFails DEF RequestStep, Serial
<1>2. ASSUME SetVersioning
      PROVE  [Key!Next]_Key!vars
  <2>1. /\ UNCHANGED <<Asked, Applied, Answers, StoredVersions, clock>>
        /\ versioning' \in {"Enabled", "Suspended"}
    BY <1>2, SameTree DEF SetVersioning, Asked, Applied, Answers, At, stores
  <2> QED
    BY <2>1 DEF Key!SetVersioning, Key!Next
<1>3. ASSUME ExpireName \/ ExpireObject \/ ExpireList \/ UNCHANGED vars
      PROVE  [Key!Next]_Key!vars
  <2>1. UNCHANGED <<versioning, tree, clock, req>>
    BY <1>3 DEF ExpireName, ExpireObject, ExpireList, vars, stores
  <2>2. UNCHANGED <<Asked, Applied, Answers, StoredVersions>>
    BY <2>1, SameTree DEF Asked, Applied, Answers, At
  <2> QED
    BY <2>1, <2>2 DEF Key!vars
<1> QED
  BY <1>1, <1>2, <1>3, NothingFails DEF Next, Serial

LEMMA InitMaps == Init => Key!Init
BY DEF Init, Key!Init, StoredVersions, Asked, Applied, Answers, Nodes, Idle, Key!NoAsk,
       At, Reads

(* Requests made one after another, with no failure, cannot tell the two   *)
(* stores and three caches from a single versioned register, however many  *)
(* they are and however often the versioning state changes (PutObject,     *)
(* deleteObject, headLastVersionIfNotDeleted, bucketNodeVersions): what    *)
(* run OV_serial checks for a few requests.                                *)
THEOREM SerialRequestsRefine ==
  ASSUME OneAtATime PROVE Spec => SerialRequestsSeeOneStore
<1>1. Init => Serial
  BY SerialInit
<1>2. Serial /\ [Next]_vars => Serial'
  BY SerialKeeps
<1>3. Serial /\ Serial' /\ [Next]_vars => [Key!Next]_Key!vars
  BY StepMaps
<1> QED
  BY <1>1, <1>2, <1>3, InitMaps, PTL DEF Spec, SerialRequestsSeeOneStore, Key!Spec
=============================================================================
