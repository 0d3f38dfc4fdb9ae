-------------------------- MODULE Multipart_proofs --------------------------
(***************************************************************************)
(* Proofs about Multipart, for any number of requests and parts, whatever  *)
(* is in flight at the same time, and any number of failures and crashes.  *)
(***************************************************************************)
EXTENDS Multipart, TLAPS

SameAsk(x, y) == /\ x.op = y.op /\ x.num = y.num /\ x.data = y.data
                 /\ x.want = y.want /\ x.prior = y.prior

(* Every record a step gives a request is a request record.                *)
LEMMA RecordTypes ==
  ASSUME TypeOK, NEW r \in Requests
  PROVE  /\ \A p \in {"put", "search", "add", "parts", "read", "drop"} :
              To(r, p) \in Request /\ SameAsk(To(r, p), req[r])
         /\ \A x \in {"ok", "error", "nosuchupload", "invalidpart",
                      "crashed"} :
              Done(r, x) \in Request /\ SameAsk(Done(r, x), req[r])
         /\ \A q \in Requests \cup {None} :
              LET x == [req[r] EXCEPT !.pc = "add", !.found = q]
              IN x \in Request /\ SameAsk(x, req[r])
         /\ \A p \in {"read", "drop"}, got \in Lists(Requests),
               todo \in SUBSET Numbers :
              LET x == [req[r] EXCEPT !.pc = p, !.got = got, !.todo = todo]
              IN x \in Request /\ SameAsk(x, req[r])
         /\ \A todo \in SUBSET Numbers :
              /\ [req[r] EXCEPT !.todo = todo] \in Request
              /\ [req[r] EXCEPT !.pc = "drop", !.todo = todo] \in Request
         /\ \A todo \in SUBSET Numbers, body \in Seq(Requests) :
              [req[r] EXCEPT !.todo = todo, !.body = body] \in Request
<1>1. req[r] \in Request
  BY DEF TypeOK
<1>2. ASSUME NEW p \in {"put", "search", "add", "parts", "read", "drop"}
      PROVE  To(r, p) \in Request /\ SameAsk(To(r, p), req[r])
  BY <1>1 DEF Request, To, SameAsk
<1>3. ASSUME NEW x \in {"ok", "error", "nosuchupload", "invalidpart",
                        "crashed"}
      PROVE  Done(r, x) \in Request /\ SameAsk(Done(r, x), req[r])
  <2>1. [req[r] EXCEPT !.pc = "done"] \in Request
    BY <1>1 DEF Request
  <2>2. \A y \in Request : [y EXCEPT !.res = x] \in Request
    BY DEF Request
  <2>3. [[req[r] EXCEPT !.pc = "done"] EXCEPT !.res = x] \in Request
    BY <2>1, <2>2
  <2>4. Done(r, x) \in Request
    BY <2>3 DEF Done
  <2>5. SameAsk(Done(r, x), req[r])
    BY <1>1 DEF Request, Done, SameAsk
  <2> QED
    BY <2>4, <2>5
<1>4. ASSUME NEW q \in Requests \cup {None}
      PROVE  LET x == [req[r] EXCEPT !.pc = "add", !.found = q]
             IN x \in Request /\ SameAsk(x, req[r])
  BY <1>1 DEF Request, SameAsk
<1>5. ASSUME NEW p \in {"read", "drop"}, NEW got \in Lists(Requests),
             NEW todo \in SUBSET Numbers
      PROVE  LET x == [req[r] EXCEPT !.pc = p, !.got = got, !.todo = todo]
             IN x \in Request /\ SameAsk(x, req[r])
  BY <1>1 DEF Request, SameAsk
<1>6. ASSUME NEW todo \in SUBSET Numbers
      PROVE  /\ [req[r] EXCEPT !.todo = todo] \in Request
             /\ [req[r] EXCEPT !.pc = "drop", !.todo = todo] \in Request
  BY <1>1 DEF Request
<1>7. ASSUME NEW todo \in SUBSET Numbers, NEW body \in Seq(Requests)
      PROVE  [req[r] EXCEPT !.todo = todo, !.body = body] \in Request
  BY <1>1 DEF Request
<1> QED
  BY <1>2, <1>3, <1>4, <1>5, <1>6, <1>7

(* Assembles, of any progress f of the requests; it depends on the parts   *)
(* that are assembled alone.                                               *)
AssemblesIn(f, want, got) ==
  /\ DOMAIN want \subseteq DOMAIN got
  /\ \A n \in DOMAIN want :
       /\ f[got[n]].data = want[n]
       /\ want[n] \in Small => \A m \in DOMAIN want : m <= n

LEMMA AssembledStays ==
  ASSUME NEW f, NEW g, NEW want, NEW got,
         \A n \in DOMAIN got : f[got[n]] = g[got[n]],
         AssemblesIn(f, want, got)
  PROVE  AssemblesIn(g, want, got)
BY DEF AssemblesIn

(* What the handler of request r may leave behind in x and in the stores,  *)
(* for the invariant to go on: it adds no node but its own, and that with  *)
(* its object stored and when it is done; it drops objects it collected,   *)
(* and only for an Abort or an object that is published.                   *)
GoodStep(r, x) ==
  /\ x \in Request /\ SameAsk(x, req[r])
  /\ x.pc # "idle" /\ AtStep(x)
  /\ \/ x.got = req[r].got
     \/ req[r].got = <<>> /\ \A n \in DOMAIN x.got : x.got[n] \in parts
  /\ x.pc \in {"search", "add"} => r \in objects'
  /\ x.pc = "drop" => x.op = "abort" \/ r \in published'
  /\ x.pc = "read" \/ r \in published' => Assembles(x.want, x.got)
  /\ r \in published' => x.pc \in {"drop", "done"}
  /\ x.res = "ok" /\ x.op \in {"complete", "abort"} => upload' = "removed"
  /\ (\E e \in x.prior : EndsUpload(e)) => x.pc = "done" /\ x.res # "ok"

GoodStores(r, x) ==
  /\ upload' \in {"none", "open", "removed"}
  /\ upload = "removed" => upload' = "removed"
  /\ parts' # {} => upload' = "open"
  /\ parts' \subseteq parts \cup {r}
  /\ r \in parts' => x.pc = "done" /\ x.op = "part" /\ r \in objects'
  /\ objects' \subseteq objects \cup {r}
  /\ r \in objects' => r \in objects \/ x.op = "part"
  /\ \A o \in objects \ objects' :
       /\ o \in {req[r].got[n] : n \in DOMAIN req[r].got}
       /\ x.op = "abort" \/ r \in published
  /\ published \subseteq published' /\ published' \subseteq published \cup {r}
  /\ r \in published' => x.op = "complete"

(* A step of request r's handler that keeps to this keeps the invariant.   *)
LEMMA HandlerStep ==
  ASSUME IInv, NEW r \in Requests, Active(r), NEW x,
         GoodStep(r, x), GoodStores(r, x),
         req' = [req EXCEPT ![r] = x], faults' \in Nat
  PROVE  IInv'
<1>1. /\ req \in [Requests -> Request] /\ req' \in [Requests -> Request]
      /\ req'[r] = x
      /\ \A q \in Requests \ {r} : req'[q] = req[q]
  BY DEF IInv, TypeOK, GoodStep
<1>2. \A q \in Requests : At(q, "done") => q # r /\ req'[q] = req[q]
  BY <1>1 DEF Active, At
<1>3. \A q \in Requests : SameAsk(req'[q], req[q])
  BY <1>1 DEF GoodStep, SameAsk
<1>4. \A q \in Requests : req[q].prior \subseteq Requests
  BY <1>1 DEF Request
<1>5. \A q \in Requests :
        /\ AtStep(req[q]) /\ StoredFirst(q) /\ Collected(q)
        /\ EndedFor(q) /\ PriorFinished(q)
  BY DEF IInv
<1>6. \A p \in parts : p \in Requests /\ At(p, "done") /\ req[p].op = "part"
  BY DEF IInv, TypeOK
<1>7. TypeOK'
  <2>1. parts' \subseteq {q \in Requests : req'[q].op = "part"}
    BY <1>1, <1>2, <1>6 DEF GoodStores
  <2>2. objects' \subseteq {q \in Requests : req'[q].op = "part"}
    <3>1. \A o \in objects : o \in Requests /\ req[o].op = "part"
      BY DEF IInv, TypeOK
    <3> QED
      BY <3>1, <1>1, <1>3 DEF GoodStores, SameAsk
  <2>3. published' \subseteq {q \in Requests : req'[q].op = "complete"}
    <3>1. \A o \in published : o \in Requests /\ req[o].op = "complete"
      BY DEF IInv, TypeOK
    <3> QED
      BY <3>1, <1>1, <1>3 DEF GoodStores, SameAsk
  <2> QED
    BY <1>1, <2>1, <2>2, <2>3 DEF TypeOK, GoodStores
<1>8. \A p \in parts' : At(p, "done")'
  BY <1>1, <1>2, <1>6 DEF GoodStores, At
<1>9. \A q \in Requests :
        {req[q].got[n] : n \in DOMAIN req[q].got}
          \subseteq {req'[q].got[n] : n \in DOMAIN req'[q].got}
  BY <1>1 DEF GoodStep
<1>10. PartsOutliveFailedComplete'
  <2> SUFFICES ASSUME NEW p \in parts' \ objects'
               PROVE  \E q \in Requests :
                        /\ p \in {req'[q].got[n] : n \in DOMAIN req'[q].got}
                        /\ req'[q].op = "abort" \/ q \in published'
    BY DEF PartsOutliveFailedComplete
  <2>1. p \in parts
    BY DEF GoodStores
  <2>2. CASE p \in objects
    <3>1. /\ p \in {req[r].got[n] : n \in DOMAIN req[r].got}
          /\ x.op = "abort" \/ r \in published
      BY <2>2 DEF GoodStores
    <3> QED
      BY <3>1, <1>1, <1>9 DEF GoodStores
  <2>3. CASE p \notin objects
    <3>1. PICK q \in Requests :
            /\ p \in {req[q].got[n] : n \in DOMAIN req[q].got}
            /\ req[q].op = "abort" \/ q \in published
      BY <2>1, <2>3 DEF IInv, PartsOutliveFailedComplete
    <3>2. req'[q].op = "abort" \/ q \in published'
      BY <3>1, <1>3 DEF SameAsk, GoodStores
    <3> QED
      BY <3>1, <3>2, <1>9
  <2> QED
    BY <2>2, <2>3
<1>11. \A q \in Requests : \A n \in DOMAIN req[q].got :
         /\ req[q].got[n] \in Requests
         /\ At(req[q].got[n], "done") /\ req[req[q].got[n]].op = "part"
  <2>1. \A q \in Requests : \A n \in DOMAIN req[q].got :
          req[q].got[n] \in Requests
    BY <1>1 DEF Request, Lists
  <2> QED
    BY <1>5, <2>1 DEF Collected
<1>12. \A n \in DOMAIN x.got :
         /\ x.got[n] \in Requests
         /\ At(x.got[n], "done") /\ req[x.got[n]].op = "part"
  BY <1>6, <1>11 DEF GoodStep
<1>13. ASSUME NEW q \in Requests PROVE Collected(q)'
  <2>1. /\ \A n \in DOMAIN req'[q].got :
             /\ req'[q].got[n] \in Requests
             /\ At(req'[q].got[n], "done")
             /\ req[req'[q].got[n]].op = "part"
    BY <1>1, <1>11, <1>12
  <2>2. \A n \in DOMAIN req'[q].got :
          /\ req'[req'[q].got[n]] = req[req'[q].got[n]]
          /\ req'[req'[q].got[n]].pc = "done"
          /\ req'[req'[q].got[n]].op = "part"
    BY <2>1, <1>2 DEF At
  <2>3. At(q, "read")' \/ q \in published'
          => AssemblesIn(req, req'[q].want, req'[q].got)
    <3>1. CASE q = r
      BY <3>1, <1>1 DEF GoodStep, At, Assembles, AssemblesIn
    <3>2. CASE q # r
      BY <3>2, <1>1, <1>5
         DEF Collected, At, GoodStores, Assembles, AssemblesIn
    <3> QED
      BY <3>1, <3>2
  <2>4. AssemblesIn(req, req'[q].want, req'[q].got)
          => AssemblesIn(req', req'[q].want, req'[q].got)
    BY <2>2, AssembledStays
  <2>5. Assembles(req[q].want, req[q].got)'
          <=> AssemblesIn(req', req'[q].want, req'[q].got)
    BY DEF Assembles, AssemblesIn
  <2>6. /\ At(q, "drop")' => req'[q].op = "abort" \/ q \in published'
        /\ q \in published' => req'[q].pc \in {"drop", "done"}
    <3>1. CASE q = r
      BY <3>1, <1>1 DEF GoodStep, At
    <3>2. CASE q # r
      BY <3>2, <1>1, <1>5 DEF Collected, At, GoodStores
    <3> QED
      BY <3>1, <3>2
  <2> QED
    BY <2>2, <2>3, <2>4, <2>5, <2>6 DEF Collected, At
<1>14. ASSUME NEW q \in Requests PROVE StoredFirst(q)'
  <2>1. CASE q = r
    BY <2>1, <1>1 DEF GoodStep, StoredFirst
  <2>2. CASE q # r /\ req[q].pc \in {"search", "add"}
    <3>1. q \in objects
      BY <2>2, <1>5 DEF StoredFirst
    <3>2. ~At(q, "done")
      BY <2>2 DEF At
    <3> QED
      BY <3>1, <3>2, <1>11 DEF GoodStores, StoredFirst
  <2> QED
    BY <2>1, <2>2, <1>1 DEF StoredFirst
<1>15. ASSUME NEW q \in Requests PROVE PriorFinished(q)'
  BY <1>1, <1>2, <1>3, <1>4, <1>5 DEF PriorFinished, SameAsk, At
<1>16. ASSUME NEW q \in Requests, NEW e \in req[q].prior
       PROVE  EndsUpload(e)' <=> EndsUpload(e)
  BY <1>2, <1>4, <1>5 DEF PriorFinished, EndsUpload, Acked
<1>17. ASSUME NEW q \in Requests PROVE EndedFor(q)'
  <2>1. CASE q = r
    <3>1. EndsUpload(q)' => upload' = "removed"
      BY <2>1, <1>1 DEF GoodStep, EndsUpload, Acked
    <3>2. (\E e \in req'[q].prior : EndsUpload(e)')
             => At(q, "done")' /\ ~Acked(q)'
      BY <2>1, <1>1, <1>3, <1>16 DEF GoodStep, At, Acked, SameAsk
    <3> QED
      BY <3>1, <3>2 DEF EndedFor
  <2>2. CASE q # r
    <3>1. EndsUpload(q)' => upload' = "removed"
      BY <2>2, <1>1, <1>5 DEF EndedFor, EndsUpload, Acked, GoodStores
    <3>2. (\E e \in req'[q].prior : EndsUpload(e)')
             => \/ At(q, "find")'
                \/ At(q, "done")' /\ ~Acked(q)'
      BY <2>2, <1>1, <1>5, <1>16 DEF EndedFor, At, Acked
    <3> QED
      BY <3>1, <3>2 DEF EndedFor
  <2> QED
    BY <2>1, <2>2
<1>18. \A q \in Requests : AtStep(req'[q])
  BY <1>1, <1>5 DEF GoodStep
<1> QED
  BY <1>7, <1>8, <1>10, <1>13, <1>14, <1>15, <1>17, <1>18 DEF IInv

(* A request in progress has no node yet; if it is past its first call, no *)
(* request ended the upload before it began.                               *)
LEMMA InProgress ==
  ASSUME IInv, NEW r \in Requests, Active(r)
  PROVE  /\ req[r] \in Request /\ AtStep(req[r]) /\ r \notin parts
         /\ StoredFirst(r) /\ Collected(r)
         /\ ~At(r, "find") => \A e \in req[r].prior : ~EndsUpload(e)
         /\ r \in published => req[r].op = "complete"
         /\ r \in objects => req[r].op = "part"
BY DEF IInv, TypeOK, Active, At, EndedFor

(* A handler may always end in an error.                                   *)
LEMMA MayFail ==
  ASSUME IInv, NEW r \in Requests, Active(r),
         NEW x \in {"error", "nosuchupload", "invalidpart"},
         r \in published' => Assembles(req[r].want, req[r].got)
  PROVE  GoodStep(r, Done(r, x))
<1>1. /\ Done(r, x) \in Request /\ SameAsk(Done(r, x), req[r])
      /\ req[r] \in Request
  BY RecordTypes DEF IInv, TypeOK
<1>2. /\ Done(r, x).pc = "done" /\ Done(r, x).res = x
      /\ Done(r, x).op = req[r].op /\ Done(r, x).num = req[r].num
      /\ Done(r, x).got = req[r].got /\ Done(r, x).want = req[r].want
  BY <1>1 DEF Done, Request
<1>3. AtStep(Done(r, x))
  BY <1>1, <1>2, InProgress DEF AtStep, Active
<1> QED
  BY <1>1, <1>2, <1>3 DEF GoodStep

(* A step that changes no store.                                           *)
LEMMA StoresStay ==
  ASSUME IInv, NEW r \in Requests, Active(r), NEW x, SameAsk(x, req[r]),
         UNCHANGED <<upload, parts, objects, published>>
  PROVE  GoodStores(r, x)
BY InProgress DEF GoodStores, SameAsk, IInv, TypeOK

(* The two outcomes of a call that changed its store.                      *)
LEMMA RepliedStep ==
  ASSUME IInv, NEW r \in Requests, Active(r), NEW x,
         GoodStep(r, x), GoodStores(r, x),
         r \in published' => Assembles(req[r].want, req[r].got),
         GoodStores(r, Done(r, "error")), Replied(r, x)
  PROVE  IInv'
<1>1. CASE Step(r, x)
  BY <1>1, HandlerStep DEF Step, IInv, TypeOK
<1>2. CASE Fault(r, Done(r, "error"))
  <2>1. GoodStep(r, Done(r, "error"))
    BY MayFail
  <2>2. faults' \in Nat /\ req' = [req EXCEPT ![r] = Done(r, "error")]
    BY <1>2 DEF Fault, IInv, TypeOK
  <2> QED
    BY <2>1, <2>2, HandlerStep
<1> QED
  BY <1>1, <1>2 DEF Replied

(* A handler that fails without changing a store.                          *)
LEMMA FailedStep ==
  ASSUME IInv, NEW r \in Requests, Active(r),
         NEW x \in {"error", "nosuchupload", "invalidpart"},
         Step(r, Done(r, x)) \/ Fault(r, Done(r, x)),
         UNCHANGED <<upload, parts, objects, published>>
  PROVE  IInv'
<1>1. r \in published' => Assembles(req[r].want, req[r].got)
  BY InProgress DEF Collected
<1>2. GoodStep(r, Done(r, x))
  BY <1>1, MayFail
<1>3. GoodStores(r, Done(r, x))
  BY <1>2, StoresStay DEF GoodStep
<1> QED
  BY <1>2, <1>3, HandlerStep DEF Step, Fault, IInv, TypeOK

---------------------------------------------------------------------------
(* The steps of the handlers *)

LEMMA GetMultipartUploadStep ==
  ASSUME IInv, NEW r \in Requests, GetMultipartUpload(r)
  PROVE  IInv'
<1>1. Active(r) /\ At(r, "find")
  BY DEF GetMultipartUpload, At, Active
<1>2. CASE upload = "removed"
  BY <1>1, <1>2, FailedStep DEF GetMultipartUpload
<1>3. CASE upload # "removed"
  <2> DEFINE p == IF req[r].op = "part" THEN "put" ELSE "parts"
             x == To(r, p)
  <2>1. /\ x \in Request /\ SameAsk(x, req[r]) /\ req[r] \in Request
    BY RecordTypes DEF IInv, TypeOK
  <2>2. /\ x.pc = p /\ x.op = req[r].op /\ x.num = req[r].num
        /\ x.res = req[r].res /\ x.got = req[r].got
        /\ x.prior = req[r].prior
    BY <2>1 DEF To, Request
  <2>3. AtStep(req[r]) /\ req[r].op # "none" /\ r \notin published
    BY <1>1, InProgress DEF AtStep, At, Active, Collected
  <2>4. AtStep(x)
    BY <1>1, <2>1, <2>2, <2>3 DEF AtStep, At, Request
  <2>5. \A e \in req[r].prior : ~EndsUpload(e)
    BY <1>3, <2>1 DEF IInv, EndedFor, Request
  <2>6. GoodStep(r, x)
    BY <2>1, <2>2, <2>3, <2>4, <2>5
       DEF GoodStep, AtStep, GetMultipartUpload
  <2>7. GoodStores(r, x)
    BY <1>1, <2>1, StoresStay DEF GetMultipartUpload
  <2> QED
    BY <1>1, <1>3, <2>6, <2>7, HandlerStep
       DEF GetMultipartUpload, Step, IInv, TypeOK
<1> QED
  BY <1>2, <1>3

LEMMA PutPartStep ==
  ASSUME IInv, NEW r \in Requests, PutPart(r)
  PROVE  IInv'
<1>1. Active(r) /\ At(r, "put")
  BY DEF PutPart, At, Active
<1> DEFINE x == To(r, "search")
<1>2. x \in Request /\ SameAsk(x, req[r]) /\ req[r] \in Request
  BY RecordTypes DEF IInv, TypeOK
<1>3. /\ x.pc = "search" /\ x.op = req[r].op /\ x.num = req[r].num
      /\ x.res = req[r].res /\ x.got = req[r].got /\ x.prior = req[r].prior
  BY <1>2 DEF To, Request
<1>4. /\ AtStep(req[r]) /\ req[r].op = "part" /\ r \notin published
      /\ r \notin parts /\ \A e \in req[r].prior : ~EndsUpload(e)
  BY <1>1, InProgress DEF AtStep, At, Active, Collected
<1>5. AtStep(x)
  BY <1>1, <1>2, <1>3, <1>4 DEF AtStep, At
<1>6. GoodStep(r, x)
  BY <1>1, <1>2, <1>3, <1>4, <1>5 DEF GoodStep, AtStep, At, PutPart
<1>7. ASSUME NEW y, SameAsk(y, req[r]) PROVE GoodStores(r, y)
  BY <1>4, <1>7 DEF GoodStores, PutPart, SameAsk, IInv, TypeOK
<1>8. SameAsk(Done(r, "error"), req[r])
  BY RecordTypes DEF IInv
<1> QED
  BY <1>1, <1>2, <1>4, <1>6, <1>7, <1>8, RepliedStep DEF PutPart

LEMMA SearchPartStep ==
  ASSUME IInv, NEW r \in Requests, SearchPart(r)
  PROVE  IInv'
<1>1. /\ Active(r) /\ At(r, "search")
      /\ UNCHANGED <<upload, parts, objects, published>>
  BY DEF SearchPart, At, Active
<1>2. CASE Step(r, Done(r, "error"))
  BY <1>1, <1>2, FailedStep
<1>3. ASSUME NEW q \in Requests \cup {None},
             Step(r, [req[r] EXCEPT !.pc = "add", !.found = q])
      PROVE  IInv'
  <2> DEFINE x == [req[r] EXCEPT !.pc = "add", !.found = q]
  <2>1. /\ x \in Request /\ SameAsk(x, req[r]) /\ req[r] \in Request
    BY RecordTypes DEF IInv, TypeOK
  <2>2. /\ x.pc = "add" /\ x.op = req[r].op /\ x.num = req[r].num
        /\ x.res = req[r].res /\ x.got = req[r].got
        /\ x.prior = req[r].prior
    BY <2>1 DEF Request
  <2>3. /\ AtStep(req[r]) /\ req[r].op = "part" /\ r \notin published
        /\ r \in objects /\ \A e \in req[r].prior : ~EndsUpload(e)
    BY <1>1, InProgress DEF AtStep, At, Active, Collected, StoredFirst
  <2>4. AtStep(x)
    BY <1>1, <2>1, <2>2, <2>3 DEF AtStep, At
  <2>5. GoodStep(r, x)
    BY <1>1, <2>1, <2>2, <2>3, <2>4 DEF GoodStep, AtStep, At
  <2>6. GoodStores(r, x)
    BY <1>1, <2>1, StoresStay
  <2> QED
    BY <1>1, <1>3, <2>5, <2>6, HandlerStep DEF Step, IInv, TypeOK
<1> QED
  <2>1. SamePart(r) \subseteq Requests
    BY DEF SamePart, IInv, TypeOK
  <2> QED
    BY <1>2, <1>3, <2>1 DEF SearchPart

(* AddPart never takes the node it found for an old one: it is a part's.   *)
LEMMA AddPartStep ==
  ASSUME IInv, NEW r \in Requests, AddPart(r)
  PROVE  IInv'
<1>1. Active(r) /\ At(r, "add")
  BY DEF AddPart, At, Active
<1> DEFINE x == Done(r, "ok")
<1>2. x \in Request /\ SameAsk(x, req[r]) /\ req[r] \in Request
  BY RecordTypes DEF IInv, TypeOK
<1>3. /\ x.pc = "done" /\ x.op = req[r].op /\ x.num = req[r].num
      /\ x.got = req[r].got /\ x.prior = req[r].prior
  BY <1>2 DEF Done, Request
<1>4. /\ AtStep(req[r]) /\ req[r].op = "part" /\ r \notin published
      /\ r \in objects /\ \A e \in req[r].prior : ~EndsUpload(e)
  BY <1>1, InProgress DEF AtStep, At, Active, Collected, StoredFirst
<1>5. /\ objects' = objects /\ UNCHANGED <<upload, published>>
      /\ parts' = IF upload = "open" THEN parts \cup {r} ELSE parts
  <2>1. req[r].found # Upload
    BY <1>2, IdsDiffer, NoneIsNotUpload DEF Request
  <2> QED
    BY <2>1 DEF AddPart
<1>6. AtStep(x)
  BY <1>1, <1>2, <1>3, <1>4 DEF AtStep, At
<1>7. GoodStep(r, x)
  BY <1>2, <1>3, <1>4, <1>5, <1>6 DEF GoodStep
<1>8. ASSUME NEW y, SameAsk(y, req[r]), y.pc = "done"
      PROVE  GoodStores(r, y)
  BY <1>4, <1>5, <1>8 DEF GoodStores, SameAsk, IInv, TypeOK
<1>9. Done(r, "error").pc = "done" /\ SameAsk(Done(r, "error"), req[r])
  <2>1. SameAsk(Done(r, "error"), req[r])
    BY RecordTypes DEF IInv
  <2>2. Done(r, "error").pc = "done"
    BY <1>2 DEF Done, Request
  <2> QED
    BY <2>1, <2>2
<1>10. GoodStores(r, x) /\ GoodStores(r, Done(r, "error"))
  BY <1>2, <1>3, <1>8, <1>9
<1>11. CASE Replied(r, x)
  BY <1>1, <1>4, <1>5, <1>7, <1>10, <1>11, RepliedStep
<1>12. CASE Step(r, Done(r, "error"))
  <2>1. GoodStep(r, Done(r, "error"))
    BY <1>1, <1>4, <1>5, MayFail
  <2> QED
    BY <1>1, <1>10, <1>12, <2>1, HandlerStep DEF Step, IInv, TypeOK
<1> QED
  BY <1>11, <1>12 DEF AddPart

(* getUploadParts returns the id of a part for a number, for numbers of    *)
(* parts.                                                                  *)
LEMMA PartsByNumberAreParts ==
  ASSUME IInv, NEW got \in PartsByNumber
  PROVE  /\ got \in Lists(Requests) /\ DOMAIN got \subseteq Numbers
         /\ \A n \in DOMAIN got : got[n] \in parts
<1> DEFINE numbers == {req[q].num : q \in parts}
<1>1. \A q \in parts : q \in Requests /\ req[q].op = "part"
  BY DEF IInv, TypeOK
<1>2. numbers \subseteq Numbers
  BY <1>1 DEF IInv, AtStep
<1>3. got \in [numbers -> parts]
  BY DEF PartsByNumber
<1>4. got \in [numbers -> Requests]
  BY <1>1, <1>3
<1> QED
  BY <1>2, <1>3, <1>4 DEF Lists

LEMMA GetPartsStep ==
  ASSUME IInv, NEW r \in Requests, GetParts(r)
  PROVE  IInv'
<1>1. /\ Active(r) /\ At(r, "parts")
      /\ UNCHANGED <<upload, parts, objects, published>>
  BY DEF GetParts, At, Active
<1>2. CASE Step(r, Done(r, "error"))
  BY <1>1, <1>2, FailedStep
<1>3. ASSUME NEW got \in PartsByNumber, Step(r, Collect(r, got))
      PROVE  IInv'
  <2>1. CASE req[r].op # "abort" /\ ~Assembles(req[r].want, got)
    BY <1>1, <1>3, <2>1, FailedStep DEF Collect
  <2>2. CASE req[r].op = "abort" \/ Assembles(req[r].want, got)
    <3> DEFINE p == IF req[r].op = "abort" THEN "drop" ELSE "read"
               todo == IF req[r].op = "abort" THEN DOMAIN got
                                             ELSE DOMAIN req[r].want
               x == [req[r] EXCEPT !.pc = p, !.got = got, !.todo = todo]
    <3>1. Collect(r, got) = x
      BY <2>2 DEF Collect
    <3>2. req[r] \in Request
      BY DEF IInv, TypeOK
    <3>3. todo \in SUBSET Numbers /\ got \in Lists(Requests)
      <4>1. DOMAIN req[r].want \subseteq Numbers
        BY <3>2 DEF Request, Lists
      <4> QED
        BY <4>1, PartsByNumberAreParts
    <3>4. x \in Request /\ SameAsk(x, req[r])
      BY <3>3, RecordTypes DEF IInv
    <3>5. /\ x.pc = p /\ x.op = req[r].op /\ x.num = req[r].num
          /\ x.want = req[r].want /\ x.res = req[r].res /\ x.got = got
          /\ x.todo = todo
          /\ x.prior = req[r].prior
      BY <3>2 DEF Request
    <3>6. /\ AtStep(req[r]) /\ req[r].op \in {"complete", "abort"}
          /\ r \notin published /\ req[r].got = <<>> /\ req[r].res = "none"
          /\ \A e \in req[r].prior : ~EndsUpload(e)
      BY <1>1, InProgress DEF AtStep, At, Active, Collected
    <3>7. AtStep(x)
      BY <3>5, <3>6 DEF AtStep
    <3>8. GoodStep(r, x)
      BY <1>1, <2>2, <3>4, <3>5, <3>6, <3>7, PartsByNumberAreParts
         DEF GoodStep
    <3>9. GoodStores(r, x)
      BY <1>1, <3>4, StoresStay
    <3> QED
      BY <1>1, <1>3, <3>1, <3>8, <3>9, HandlerStep DEF Step, IInv, TypeOK
  <2> QED
    BY <2>1, <2>2
<1> QED
  BY <1>2, <1>3 DEF GetParts

LEMMA ReadPartStep ==
  ASSUME IInv, NEW r \in Requests, ReadPart(r)
  PROVE  IInv'
<1>1. /\ Active(r) /\ At(r, "read")
      /\ UNCHANGED <<upload, parts, objects, published>>
  BY DEF ReadPart, At, Active
<1>2. PICK n \in req[r].todo :
        Step(r, IF req[r].got[n] \in objects
                THEN [req[r] EXCEPT !.todo = @ \ {n},
                                    !.body = Append(@, req[r].got[n])]
                ELSE Done(r, "error"))
  BY DEF ReadPart
<1>3. CASE req[r].got[n] \notin objects
  BY <1>1, <1>2, <1>3, FailedStep
<1>4. CASE req[r].got[n] \in objects
  <2> DEFINE todo == req[r].todo \ {n}
             body == Append(req[r].body, req[r].got[n])
             x == [req[r] EXCEPT !.todo = todo, !.body = body]
  <2>1. req[r] \in Request /\ req[r].todo \in SUBSET Numbers
    BY DEF IInv, TypeOK, Request
  <2>2. x \in Request
    <3>1. todo \in SUBSET Numbers
      BY <2>1
    <3>2. body \in Seq(Requests)
      BY <1>4, <2>1 DEF IInv, TypeOK, Request
    <3> QED
      BY <3>1, <3>2, RecordTypes DEF IInv
  <2>3. /\ x.pc = "read" /\ x.op = req[r].op /\ x.num = req[r].num
        /\ x.data = req[r].data /\ x.want = req[r].want
        /\ x.res = req[r].res /\ x.got = req[r].got
        /\ x.prior = req[r].prior
    BY <1>1, <2>1 DEF Request, At
  <2>4. /\ AtStep(req[r]) /\ req[r].res = "none"
        /\ r \notin published
        /\ Assembles(req[r].want, req[r].got)
        /\ \A e \in req[r].prior : ~EndsUpload(e)
    BY <1>1, InProgress DEF AtStep, At, Active, Collected
  <2>5. AtStep(x) /\ SameAsk(x, req[r])
    BY <1>1, <2>3, <2>4 DEF AtStep, SameAsk, At
  <2>6. GoodStep(r, x)
    BY <1>1, <2>2, <2>3, <2>4, <2>5 DEF GoodStep
  <2>7. GoodStores(r, x)
    BY <1>1, <2>5, StoresStay
  <2>8. Step(r, x)
    BY <1>2, <1>4
  <2> QED
    BY <1>1, <2>6, <2>7, <2>8, HandlerStep DEF Step, IInv, TypeOK
<1> QED
  BY <1>3, <1>4

LEMMA PutObjectStep ==
  ASSUME IInv, NEW r \in Requests, PutObject(r)
  PROVE  IInv'
<1>1. /\ Active(r) /\ At(r, "read")
      /\ UNCHANGED <<upload, parts, objects>>
      /\ published' = published \cup {r}
  BY DEF PutObject, At, Active
<1> DEFINE todo == DOMAIN req[r].got
           x == [req[r] EXCEPT !.pc = "drop", !.todo = todo]
<1>2. req[r] \in Request /\ todo \in SUBSET Numbers
  BY DEF IInv, TypeOK, Request, Lists
<1>3. x \in Request
  BY <1>2, RecordTypes DEF IInv
<1>4. /\ x.pc = "drop" /\ x.op = req[r].op /\ x.num = req[r].num
      /\ x.data = req[r].data /\ x.want = req[r].want
      /\ x.res = req[r].res /\ x.got = req[r].got
      /\ x.prior = req[r].prior /\ x.todo = todo
  BY <1>2 DEF Request
<1>5. /\ AtStep(req[r]) /\ req[r].res = "none" /\ req[r].op = "complete"
      /\ r \notin parts
      /\ Assembles(req[r].want, req[r].got)
      /\ \A e \in req[r].prior : ~EndsUpload(e)
  BY <1>1, InProgress DEF AtStep, At, Active, Collected
<1>6. AtStep(x) /\ SameAsk(x, req[r])
  BY <1>4, <1>5 DEF AtStep, SameAsk
<1>7. GoodStep(r, x)
  BY <1>1, <1>3, <1>4, <1>5, <1>6 DEF GoodStep
<1>8. ASSUME NEW y, SameAsk(y, req[r]) PROVE GoodStores(r, y)
  BY <1>1, <1>5, <1>8, InProgress DEF GoodStores, SameAsk, IInv, TypeOK
<1>9. SameAsk(Done(r, "error"), req[r])
  BY RecordTypes DEF IInv
<1>10. Replied(r, x)
  BY DEF PutObject
<1> QED
  BY <1>1, <1>5, <1>6, <1>7, <1>8, <1>9, <1>10, RepliedStep

LEMMA DropPartStep ==
  ASSUME IInv, NEW r \in Requests, DropPart(r)
  PROVE  IInv'
<1>1. /\ Active(r) /\ At(r, "drop")
      /\ UNCHANGED <<upload, parts, published>>
  BY DEF DropPart, At, Active
<1>2. PICK n \in req[r].todo :
        LET next == [req[r] EXCEPT !.todo = @ \ {n}]
        IN \/ /\ objects' = objects \ {req[r].got[n]}
              /\ Step(r, next) \/ Fault(r, next)
           \/ UNCHANGED objects /\ Fault(r, next)
  BY DEF DropPart
<1> DEFINE todo == req[r].todo \ {n}
           x == [req[r] EXCEPT !.todo = todo]
<1>3. req[r] \in Request /\ req[r].todo \in SUBSET Numbers
  BY DEF IInv, TypeOK, Request
<1>4. x \in Request
  <2>1. todo \in SUBSET Numbers
    BY <1>3
  <2> QED
    BY <2>1, RecordTypes DEF IInv
<1>5. /\ x.pc = "drop" /\ x.op = req[r].op /\ x.num = req[r].num
      /\ x.data = req[r].data /\ x.want = req[r].want
      /\ x.res = req[r].res /\ x.got = req[r].got
      /\ x.prior = req[r].prior /\ x.todo = todo
  BY <1>1, <1>3 DEF Request, At
<1>6. /\ AtStep(req[r]) /\ req[r].res = "none"
      /\ req[r].op \in {"complete", "abort"} /\ r \notin parts
      /\ req[r].op = "abort" \/ r \in published
      /\ r \in published => Assembles(req[r].want, req[r].got)
      /\ \A e \in req[r].prior : ~EndsUpload(e)
  BY <1>1, InProgress DEF AtStep, At, Active, Collected
<1>7. AtStep(x) /\ SameAsk(x, req[r])
  <2>1. x.todo \subseteq DOMAIN x.got
    BY <1>1, <1>5, <1>6 DEF AtStep, At
  <2> QED
    BY <1>5, <1>6, <2>1 DEF AtStep, SameAsk
<1>8. GoodStep(r, x)
  BY <1>1, <1>4, <1>5, <1>6, <1>7 DEF GoodStep
<1>9. GoodStores(r, x)
  <2>1. n \in DOMAIN req[r].got
    BY <1>1, <1>6 DEF AtStep, At
  <2>2. objects' \subseteq objects /\ objects \ objects' \subseteq {req[r].got[n]}
    BY <1>2
  <2> QED
    BY <1>1, <1>5, <1>6, <2>1, <2>2, InProgress DEF GoodStores, IInv, TypeOK
<1>10. Step(r, x) \/ Fault(r, x)
  BY <1>2
<1>11. req' = [req EXCEPT ![r] = x] /\ faults' \in Nat
  BY <1>10 DEF Step, Fault, IInv, TypeOK
<1> QED
  BY <1>1, <1>8, <1>9, <1>11, HandlerStep

LEMMA RemoveUploadStep ==
  ASSUME IInv, NEW r \in Requests, RemoveUpload(r)
  PROVE  IInv'
<1>1. /\ Active(r) /\ At(r, "drop")
      /\ upload' = "removed" /\ parts' = {}
      /\ UNCHANGED <<objects, published>>
  BY DEF RemoveUpload, At, Active
<1> DEFINE x == Done(r, "ok")
<1>2. x \in Request /\ SameAsk(x, req[r]) /\ req[r] \in Request
  BY RecordTypes DEF IInv, TypeOK
<1>3. /\ x.pc = "done" /\ x.op = req[r].op /\ x.num = req[r].num
      /\ x.want = req[r].want /\ x.got = req[r].got
  BY <1>2 DEF Done, Request
<1>4. /\ AtStep(req[r]) /\ req[r].op \in {"complete", "abort"}
      /\ r \in published => Assembles(req[r].want, req[r].got)
  BY <1>1, InProgress DEF AtStep, At, Active, Collected
<1>5. AtStep(x)
  BY <1>3, <1>4 DEF AtStep
<1>6. GoodStores(r, x) /\ GoodStores(r, Done(r, "error"))
  <2>1. ASSUME NEW y, SameAsk(y, req[r]) PROVE GoodStores(r, y)
    BY <1>1, <2>1, InProgress DEF GoodStores, SameAsk, IInv, TypeOK
  <2>2. SameAsk(Done(r, "error"), req[r])
    BY RecordTypes DEF IInv
  <2> QED
    BY <1>2, <2>1, <2>2
<1>7. CASE Replied(r, x)
  <2>1. CASE \A e \in req[r].prior : ~EndsUpload(e)
    <3>1. SameAsk(x, req[r]) /\ \A e \in x.prior : ~EndsUpload(e)
      BY <1>2, <2>1 DEF SameAsk
    <3>2. GoodStep(r, x)
      BY <1>1, <1>2, <1>3, <1>4, <1>5, <3>1 DEF GoodStep
    <3> QED
      BY <1>1, <1>4, <1>6, <1>7, <3>2, RepliedStep
  <2> QED
    BY <1>1, <2>1, InProgress DEF At
<1>8. CASE Step(r, Done(r, "error"))
  <2>1. GoodStep(r, Done(r, "error"))
    BY <1>1, <1>4, MayFail
  <2> QED
    BY <1>1, <1>6, <1>8, <2>1, HandlerStep DEF Step, IInv, TypeOK
<1> QED
  BY <1>7, <1>8 DEF RemoveUpload

LEMMA CallFailsStep ==
  ASSUME IInv, NEW r \in Requests, CallFails(r)
  PROVE  IInv'
<1>1. Active(r)
  BY DEF CallFails, At, Active
<1>2. Fault(r, Done(r, "error"))
  BY DEF CallFails
<1>3. UNCHANGED <<upload, parts, objects, published>>
  BY DEF CallFails
<1>4. "error" \in {"error", "nosuchupload", "invalidpart"}
  OBVIOUS
<1> QED
  BY <1>1, <1>2, <1>3, <1>4, FailedStep

---------------------------------------------------------------------------
(* The steps that are no handler's *)

(* No request and no part moves; the upload's node may come to be.         *)
LEMMA QuietStep ==
  ASSUME IInv, CreateMultipartUpload \/ UNCHANGED vars
  PROVE  IInv'
<1>1. /\ \/ upload' = upload
         \/ upload = "none" /\ upload' = "open"
      /\ UNCHANGED <<parts, objects, published, req, faults>>
  BY DEF CreateMultipartUpload, vars
<1>2. TypeOK'
  BY <1>1 DEF IInv, TypeOK
<1>3. PartsOutliveFailedComplete'
  BY <1>1 DEF IInv, PartsOutliveFailedComplete
<1>4. \A q \in Requests : StoredFirst(q)' /\ PriorFinished(q)'
  BY <1>1 DEF IInv, StoredFirst, PriorFinished, At
<1>5. \A q \in Requests : Collected(q)'
  BY <1>1 DEF IInv, Collected, Assembles, At
<1>6. \A q \in Requests : EndedFor(q)'
  BY <1>1 DEF IInv, EndedFor, EndsUpload, Acked, At
<1>7. \A q \in Requests : AtStep(req[q])' <=> AtStep(req[q])
  BY <1>1 DEF AtStep, Idle
<1> QED
  BY <1>1, <1>2, <1>3, <1>4, <1>5, <1>6, <1>7 DEF IInv, At

(* A change of the requests alone which leaves those that are done as they *)
(* are, and whose other requests go on with what they have collected.      *)
GoodChange ==
  /\ req' \in [Requests -> Request] /\ faults' \in Nat
  /\ \A q \in Requests :
       /\ AtStep(req'[q])
       /\ At(q, "done") => req'[q] = req[q]
       /\ req'[q].got = req[q].got
       /\ ~At(q, "idle") => SameAsk(req'[q], req[q])
       /\ req'[q].pc \in {"search", "add", "read", "drop"}
            => req'[q].pc = req[q].pc
       /\ At(q, "drop") => req'[q].pc \in {"drop", "done"}
       /\ \A e \in req'[q].prior : At(e, "done")
       /\ \/ req'[q].pc = "find"
          \/ req'[q].res # "ok" /\ req'[q].pc = "done"
          \/ req'[q] = req[q]

LEMMA ChangeStep ==
  ASSUME IInv, GoodChange, UNCHANGED <<upload, parts, objects, published>>
  PROVE  IInv'
<1>1. /\ req \in [Requests -> Request] /\ req' \in [Requests -> Request]
      /\ \A q \in Requests : At(q, "done") => req'[q] = req[q]
  BY DEF GoodChange, IInv, TypeOK
<1>2. \A q \in Requests :
        /\ AtStep(req[q]) /\ StoredFirst(q) /\ Collected(q)
        /\ EndedFor(q) /\ PriorFinished(q)
  BY DEF IInv
<1>3. \A q \in Requests : req[q].op # "none" => SameAsk(req'[q], req[q])
  BY <1>2 DEF GoodChange, At, AtStep
<1>4. TypeOK'
  BY <1>1, <1>3 DEF IInv, TypeOK, SameAsk, GoodChange
<1>5. \A p \in parts : At(p, "done")'
  BY <1>1 DEF IInv, TypeOK, At
<1>6. PartsOutliveFailedComplete'
  <2>1. \A q \in Requests : req[q].op = "abort" => req'[q].op = "abort"
    BY <1>3 DEF SameAsk
  <2> QED
    BY <2>1 DEF IInv, PartsOutliveFailedComplete, GoodChange
<1>7. ASSUME NEW q \in Requests
      PROVE  /\ AtStep(req'[q]) /\ StoredFirst(q)' /\ PriorFinished(q)'
  <2>1. AtStep(req'[q])
    BY DEF GoodChange
  <2>2. StoredFirst(q)'
    BY <1>2 DEF StoredFirst, GoodChange
  <2>3. req'[q].prior \subseteq Requests
    BY <1>1 DEF Request
  <2>4. PriorFinished(q)'
    BY <1>1, <2>3 DEF GoodChange, PriorFinished, At
  <2> QED
    BY <2>1, <2>2, <2>4
<1>8. ASSUME NEW q \in Requests PROVE Collected(q)'
  <2>1. req'[q].got = req[q].got
    BY DEF GoodChange
  <2>2. \A n \in DOMAIN req[q].got :
          /\ req[q].got[n] \in Requests
          /\ req'[req[q].got[n]] = req[req[q].got[n]]
          /\ req[req[q].got[n]].pc = "done"
          /\ req[req[q].got[n]].op = "part"
    <3>1. \A n \in DOMAIN req[q].got : req[q].got[n] \in Requests
      BY <1>1 DEF Request, Lists
    <3> QED
      BY <1>1, <1>2, <3>1 DEF Collected, At
  <2>3. q \in published => q \in Requests /\ req[q].op = "complete"
    BY DEF IInv, TypeOK
  <2>4. At(q, "read")' \/ q \in published
          => /\ SameAsk(req'[q], req[q])
             /\ AssemblesIn(req, req[q].want, req[q].got)
    BY <1>2, <1>3, <2>3
       DEF GoodChange, Collected, At, AtStep, Assembles, AssemblesIn
  <2>5. AssemblesIn(req, req[q].want, req[q].got)
          => AssemblesIn(req', req[q].want, req[q].got)
    BY <2>2, AssembledStays
  <2>6. Assembles(req[q].want, req[q].got)'
          <=> AssemblesIn(req', req'[q].want, req'[q].got)
    BY DEF Assembles, AssemblesIn
  <2>7. At(q, "drop")' => req'[q].op = "abort" \/ q \in published
    <3>1. At(q, "drop")' => At(q, "drop") /\ req[q].op # "none"
      BY <1>2 DEF GoodChange, At, AtStep
    <3> QED
      BY <1>2, <1>3, <3>1 DEF Collected, SameAsk
  <2>8. q \in published => req'[q].pc \in {"drop", "done"}
    BY <1>1, <1>2 DEF Collected, GoodChange, At
  <2> QED
    BY <2>1, <2>2, <2>4, <2>5, <2>6, <2>7, <2>8 DEF Collected, At, SameAsk
<1>9. ASSUME NEW q \in Requests PROVE EndedFor(q)'
  <2>1. \A e \in req'[q].prior : e \in Requests /\ req'[e] = req[e]
    BY <1>1 DEF GoodChange, Request
  <2>2. \A e \in req'[q].prior : EndsUpload(e)' => EndsUpload(e)
    BY <2>1 DEF EndsUpload, Acked
  <2>3. EndsUpload(q)' => EndsUpload(q)
    BY <1>2 DEF EndsUpload, Acked, GoodChange, AtStep
  <2>4. (\E e \in req'[q].prior : EndsUpload(e)')
          => \/ At(q, "find")'
             \/ At(q, "done")' /\ ~Acked(q)'
    BY <1>2, <2>2 DEF EndedFor, GoodChange, At, Acked
  <2> QED
    BY <1>2, <2>3, <2>4 DEF EndedFor
<1> QED
  BY <1>4, <1>5, <1>6, <1>7, <1>8, <1>9 DEF IInv

(* What a client may ask for.                                              *)
IsAsk(x) ==
  /\ x \in Request
  /\ x.op \in {"part", "complete", "abort"}
  /\ x.op = "part" => x.num \in Numbers
  /\ x.got = <<>> /\ x.res = "none"

LEMMA EmptyIsList ==
  ASSUME NEW S
  PROVE  <<>> \in Lists(S)
<1>1. <<>> \in [{} -> S]
  OBVIOUS
<1> QED
  BY <1>1 DEF Lists

LEMMA AskTypes ==
  /\ \A n \in Numbers, d \in Payloads :
       IsAsk([Idle EXCEPT !.op = "part", !.num = n, !.data = d])
  /\ \A want \in Lists(Payloads) :
       IsAsk([Idle EXCEPT !.op = "complete", !.want = want])
  /\ IsAsk([Idle EXCEPT !.op = "abort"])
<1>1. /\ <<>> \in Lists(Payloads) /\ <<>> \in Lists(Requests)
      /\ <<>> \in Seq(Requests) /\ {} \subseteq Numbers /\ {} \subseteq Requests
  BY EmptyIsList
<1>2. ASSUME NEW n \in Numbers, NEW d \in Payloads
      PROVE  IsAsk([Idle EXCEPT !.op = "part", !.num = n, !.data = d])
  BY <1>1 DEF IsAsk, Idle, Request
<1>3. ASSUME NEW want \in Lists(Payloads)
      PROVE  IsAsk([Idle EXCEPT !.op = "complete", !.want = want])
  BY <1>1 DEF IsAsk, Idle, Request
<1>4. IsAsk([Idle EXCEPT !.op = "abort"])
  BY <1>1 DEF IsAsk, Idle, Request
<1> QED
  BY <1>2, <1>3, <1>4

LEMMA BeginAsked ==
  ASSUME IInv, NEW r \in Requests, NEW asked, IsAsk(asked), Begin(r, asked)
  PROVE  IInv'
<1> DEFINE x == [asked EXCEPT !.pc = "find", !.prior = Finished]
<1>1. /\ At(r, "idle") /\ req' = [req EXCEPT ![r] = x]
      /\ UNCHANGED <<upload, parts, objects, published, faults>>
  BY DEF Begin, Step
<1>2. req \in [Requests -> Request] /\ faults \in Nat
  BY DEF IInv, TypeOK
<1>3. /\ x.pc = "find" /\ x.prior = Finished /\ x.op = asked.op
      /\ x.num = asked.num /\ x.data = asked.data /\ x.want = asked.want
      /\ x.found = asked.found /\ x.got = <<>> /\ x.todo = asked.todo
      /\ x.res = "none"
  BY DEF IsAsk, Request
<1>4. x \in Request
  <2>1. Finished \subseteq Requests
    BY DEF Finished
  <2> QED
    BY <2>1 DEF IsAsk, Request
<1>5. AtStep(x)
  BY <1>3 DEF AtStep, IsAsk
<1>6. req[r].got = <<>>
  BY <1>1 DEF IInv, AtStep, At, Idle
<1>7. \A e \in Finished : At(e, "done")
  BY DEF Finished, At
<1>8. ASSUME NEW q \in Requests
      PROVE  /\ AtStep(req[q])
             /\ \A e \in req[q].prior : At(e, "done")
             /\ SameAsk(req[q], req[q])
  BY DEF IInv, PriorFinished, SameAsk
<1>9. GoodChange
  <2>1. req' \in [Requests -> Request] /\ faults' \in Nat
    BY <1>1, <1>2, <1>4
  <2>2. req'[r] = x /\ \A q \in Requests \ {r} : req'[q] = req[q]
    BY <1>1, <1>2
  <2> QED
    BY <1>1, <1>3, <1>5, <1>6, <1>7, <1>8, <2>1, <2>2 DEF GoodChange, At
<1> QED
  BY <1>1, <1>9, ChangeStep

LEMMA BeginRequest ==
  ASSUME IInv, NEW r \in Requests, BeginStep(r)
  PROVE  IInv'
<1>1. CASE BeginUploadPart(r)
  BY <1>1, AskTypes, BeginAsked DEF BeginUploadPart
<1>2. CASE BeginComplete(r)
  <2>1. PICK listed \in SUBSET Numbers :
          \E want \in [listed -> Payloads] :
            Begin(r, [Idle EXCEPT !.op = "complete", !.want = want])
    BY <1>2 DEF BeginComplete
  <2>2. [listed -> Payloads] \subseteq Lists(Payloads)
    BY DEF Lists
  <2> QED
    BY <2>1, <2>2, AskTypes, BeginAsked
<1>3. CASE BeginAbort(r)
  BY <1>3, AskTypes, BeginAsked DEF BeginAbort
<1> QED
  BY <1>1, <1>2, <1>3 DEF BeginStep

LEMMA CrashStep ==
  ASSUME IInv, Crash
  PROVE  IInv'
<1>1. /\ faults' = faults + 1
      /\ req' = [r \in Requests |-> IF Active(r) THEN Done(r, "crashed")
                                                 ELSE req[r]]
      /\ UNCHANGED <<upload, parts, objects, published>>
  BY DEF Crash
<1>2. faults \in Nat /\ \A q \in Requests : req[q] \in Request
  BY DEF IInv, TypeOK
<1>3. ASSUME NEW q \in Requests
      PROVE  /\ AtStep(req[q])
             /\ \A e \in req[q].prior : At(e, "done")
             /\ SameAsk(req[q], req[q])
  BY DEF IInv, PriorFinished, SameAsk
<1>4. ASSUME NEW q \in Requests, Active(q)
      PROVE  LET x == Done(q, "crashed")
             IN /\ x \in Request /\ AtStep(x) /\ SameAsk(x, req[q])
                /\ x.got = req[q].got /\ x.pc = "done" /\ x.res # "ok"
  <2> DEFINE x == Done(q, "crashed")
  <2>1. x \in Request /\ SameAsk(x, req[q])
    BY RecordTypes DEF IInv
  <2>2. /\ x.pc = "done" /\ x.res = "crashed" /\ x.got = req[q].got
        /\ x.op = req[q].op /\ x.num = req[q].num
    BY <1>2 DEF Done, Request
  <2>3. AtStep(x)
    BY <1>3, <1>4, <2>2 DEF AtStep, Active
  <2> QED
    BY <2>1, <2>2, <2>3
<1>5. GoodChange
  <2>1. req' \in [Requests -> Request] /\ faults' \in Nat
    BY <1>1, <1>2, <1>4
  <2>2. ASSUME NEW q \in Requests
        PROVE  /\ Active(q) => req'[q] = Done(q, "crashed")
               /\ ~Active(q) => req'[q] = req[q]
    BY <1>1
  <2>3. ASSUME NEW q \in Requests
        PROVE  At(q, "idle") \/ At(q, "done") => ~Active(q)
    BY DEF At, Active
  <2>4. ASSUME NEW q \in Requests
        PROVE  /\ AtStep(req'[q])
               /\ At(q, "done") => req'[q] = req[q]
               /\ req'[q].got = req[q].got
               /\ SameAsk(req'[q], req[q])
               /\ req'[q].pc \in {"search", "add", "read", "drop"}
                    => req'[q].pc = req[q].pc
               /\ At(q, "drop") => req'[q].pc \in {"drop", "done"}
               /\ \A e \in req'[q].prior : At(e, "done")
               /\ \/ req'[q].res # "ok" /\ req'[q].pc = "done"
                  \/ req'[q] = req[q]
    BY <1>3, <1>4, <2>2, <2>3 DEF SameAsk, At
  <2> QED
    BY <2>1, <2>4 DEF GoodChange
<1> QED
  BY <1>1, <1>5, ChangeStep

---------------------------------------------------------------------------
(* Every reachable state satisfies the inductive invariant.                *)
THEOREM InvariantHolds == Spec => []IInv
<1>1. Init => IInv
  <2> SUFFICES ASSUME Init PROVE IInv
    OBVIOUS
  <2>1. /\ upload = "none" /\ parts = {} /\ objects = {} /\ published = {}
        /\ req = [r \in Requests |-> Idle] /\ faults = 0
    BY DEF Init
  <2>2. \A r \in Requests :
          /\ req[r] = Idle /\ req[r].pc = "idle" /\ req[r].op = "none"
          /\ req[r].res = "none" /\ req[r].prior = {}
          /\ DOMAIN req[r].got = {} /\ req[r].got = <<>>
    BY <2>1 DEF Idle
  <2>3. Idle \in Request
    <3>1. <<>> \in Lists(Payloads) /\ <<>> \in Lists(Requests)
      BY EmptyIsList
    <3> QED
      BY <3>1 DEF Idle, Request
  <2>4. TypeOK
    BY <2>1, <2>3 DEF TypeOK
  <2>5. PartsOutliveFailedComplete
    BY <2>1 DEF PartsOutliveFailedComplete
  <2>6. \A r \in Requests : /\ AtStep(req[r]) /\ StoredFirst(r)
                            /\ EndedFor(r) /\ PriorFinished(r)
    BY <2>2 DEF AtStep, StoredFirst, EndedFor, EndsUpload, Acked,
                PriorFinished
  <2>7. \A r \in Requests : Collected(r)
    BY <2>1, <2>2 DEF Collected, At
  <2> QED
    BY <2>1, <2>4, <2>5, <2>6, <2>7 DEF IInv
<1>2. IInv /\ [Next]_vars => IInv'
  <2> SUFFICES ASSUME IInv, [Next]_vars PROVE IInv'
    OBVIOUS
  <2>1. CASE CreateMultipartUpload \/ UNCHANGED vars
    BY <2>1, QuietStep
  <2>2. ASSUME NEW r \in Requests, BeginStep(r) PROVE IInv'
    BY <2>2, BeginRequest
  <2>3. ASSUME NEW r \in Requests, RequestStep(r) PROVE IInv'
    <3>1. CASE GetMultipartUpload(r)
      BY <3>1, GetMultipartUploadStep
    <3>2. CASE UploadPartStep(r)
      BY <3>2, PutPartStep, SearchPartStep, AddPartStep DEF UploadPartStep
    <3>3. CASE EndStep(r)
      BY <3>3, GetPartsStep, ReadPartStep, PutObjectStep, DropPartStep,
         RemoveUploadStep DEF EndStep
    <3> QED
      BY <2>3, <3>1, <3>2, <3>3 DEF RequestStep
  <2>4. ASSUME NEW r \in Requests, CallFails(r) PROVE IInv'
    BY <2>4, CallFailsStep
  <2>5. CASE Crash
    BY <2>5, CrashStep
  <2> QED
    BY <2>1, <2>2, <2>3, <2>4, <2>5 DEF Next
<1> QED
  BY <1>1, <1>2, PTL DEF Spec

(* The stores and the requests are always of their types                   *)
(* (data.MultipartInfo, data.PartInfo).                                    *)
THEOREM TypeCorrect == Spec => []TypeOK
<1>1. IInv => TypeOK
  BY DEF IInv
<1> QED
  BY <1>1, InvariantHolds, PTL

---------------------------------------------------------------------------
(* What is streamed into the object *)

Early == {"idle", "find", "put", "search", "add", "parts"}

(* Streamed, of any progress f of the requests.                            *)
StreamedIn(f, x, left) ==
  LET read == DOMAIN x.want \ left IN
  /\ left \subseteq DOMAIN x.want
  /\ \A n \in read, m \in left : n < m
  /\ \A n \in read : \E i \in DOMAIN x.body : x.body[i] = x.got[n]
  /\ \A i \in DOMAIN x.body : \E n \in read : x.body[i] = x.got[n]
  /\ \A i, j \in DOMAIN x.body :
       i < j => f[x.body[i]].num < f[x.body[j]].num

(* It depends on the parts that were collected alone.                      *)
LEMMA StreamedStays ==
  ASSUME NEW f, NEW g, NEW x, NEW left,
         DOMAIN x.want \subseteq DOMAIN x.got,
         \A n \in DOMAIN x.got : f[x.got[n]] = g[x.got[n]],
         StreamedIn(f, x, left)
  PROVE  StreamedIn(g, x, left)
<1>1. ASSUME NEW i \in DOMAIN x.body PROVE f[x.body[i]] = g[x.body[i]]
  <2>1. PICK n \in DOMAIN x.want \ left : x.body[i] = x.got[n]
    BY DEF StreamedIn
  <2> QED
    BY <2>1
<1> QED
  BY <1>1 DEF StreamedIn

(* What request q may be like after a step for BodyInv to go on.           *)
GoodBody(q, x) ==
  /\ x.pc \in Early => x.body = <<>>
  /\ \A n \in DOMAIN x.got :
       /\ x.got[n] \in Requests /\ req[x.got[n]].pc = "done"
       /\ req[x.got[n]].num = n
  /\ x.pc = "read" =>
       DOMAIN x.want \subseteq DOMAIN x.got /\ Streamed(x, x.todo)
  /\ q \in published' =>
       DOMAIN x.want \subseteq DOMAIN x.got /\ Streamed(x, {})

LEMMA BodyStep ==
  ASSUME \A q \in Requests : At(q, "done") => req'[q] = req[q],
         \A q \in Requests : GoodBody(q, req'[q])
  PROVE  BodyInv'
<1> SUFFICES ASSUME NEW q \in Requests
             PROVE  /\ req'[q].pc \in Early => req'[q].body = <<>>
                    /\ \A n \in DOMAIN req'[q].got : req'[req'[q].got[n]].num = n
                    /\ req'[q].pc = "read" =>
                         StreamedIn(req', req'[q], req'[q].todo)
                    /\ q \in published' => StreamedIn(req', req'[q], {})
  BY DEF BodyInv, Early, Streamed, StreamedIn, At
<1>1. PICK x : x = req'[q]
  OBVIOUS
<1>2. GoodBody(q, x)
  BY <1>1
<1>3. \A n \in DOMAIN x.got : req[x.got[n]] = req'[x.got[n]]
  BY <1>2 DEF GoodBody, At
<1>4. ASSUME NEW left, Streamed(x, left), DOMAIN x.want \subseteq DOMAIN x.got
      PROVE  StreamedIn(req', x, left)
  <2>1. StreamedIn(req, x, left)
    BY <1>4 DEF Streamed, StreamedIn
  <2> QED
    BY <2>1, <1>3, <1>4, StreamedStays, Zenon
<1>5. \A n \in DOMAIN x.got : req'[x.got[n]].num = n
  BY <1>2, <1>3 DEF GoodBody
<1> QED
  BY <1>1, <1>2, <1>4, <1>5 DEF GoodBody

(* A request that collects and streams nothing.                            *)
LEMMA SameBody ==
  ASSUME IInv, BodyInv, NEW q \in Requests, NEW x,
         x.got = req[q].got, x.body = req[q].body,
         req[q].pc \in Early \/ x.want = req[q].want,
         x.pc \in Early => req[q].pc \in Early,
         x.pc = "read" => At(q, "read") /\ x.todo = req[q].todo,
         q \in published' => q \in published
  PROVE  GoodBody(q, x)
<1>1. Collected(q) /\ req[q] \in Request
  BY DEF IInv, TypeOK
<1>2. /\ req[q].pc \in Early => req[q].body = <<>>
      /\ \A n \in DOMAIN req[q].got : req[req[q].got[n]].num = n
      /\ At(q, "read") => Streamed(req[q], req[q].todo)
      /\ q \in published => Streamed(req[q], {})
  BY DEF BodyInv, Early
<1>3. \A n \in DOMAIN x.got :
        /\ x.got[n] \in Requests /\ req[x.got[n]].pc = "done"
        /\ req[x.got[n]].num = n
  BY <1>1, <1>2 DEF Collected, At, Request, Lists
<1>4. ASSUME NEW left, Streamed(req[q], left), x.want = req[q].want
      PROVE  Streamed(x, left)
  BY <1>4 DEF Streamed
<1>5. At(q, "read") \/ q \in published =>
        /\ DOMAIN req[q].want \subseteq DOMAIN req[q].got
        /\ req[q].pc \notin Early
  BY <1>1 DEF Collected, Assembles, At, Early
<1> QED
  BY <1>2, <1>3, <1>4, <1>5 DEF GoodBody

(* ... and a step of the handler of such a one.                            *)
LEMMA QuietHandler ==
  ASSUME IInv, BodyInv, NEW r \in Requests, Active(r), NEW x,
         req' = [req EXCEPT ![r] = x], published' = published,
         x.got = req[r].got, x.body = req[r].body, x.want = req[r].want,
         x.pc \in Early => req[r].pc \in Early,
         x.pc # "read"
  PROVE  BodyInv'
<1>1. /\ req'[r] = x
      /\ \A q \in Requests \ {r} : req'[q] = req[q]
  BY DEF IInv, TypeOK
<1>2. GoodBody(r, req'[r])
  BY <1>1, SameBody
<1>3. \A q \in Requests \ {r} : GoodBody(q, req'[q])
  BY <1>1, SameBody DEF At
<1> QED
  BY <1>1, <1>2, <1>3, BodyStep DEF Active, At

(* What a step of a handler that ends or goes on elsewhere leaves alone.   *)
LEMMA NothingStreamed ==
  ASSUME TypeOK, NEW r \in Requests
  PROVE  /\ \A p \in {"put", "search", "parts"} :
              LET x == To(r, p)
              IN /\ x.pc = p /\ x.got = req[r].got /\ x.body = req[r].body
                 /\ x.want = req[r].want
         /\ \A e \in {"ok", "error", "nosuchupload", "invalidpart", "crashed"} :
              LET x == Done(r, e)
              IN /\ x.pc = "done" /\ x.got = req[r].got
                 /\ x.body = req[r].body /\ x.want = req[r].want
<1>1. req[r] \in Request
  BY DEF TypeOK
<1> QED
  BY <1>1 DEF Request, To, Done

LEMMA BodyByGetParts ==
  ASSUME IInv, BodyInv, NEW r \in Requests, GetParts(r)
  PROVE  BodyInv'
<1>1. /\ Active(r) /\ At(r, "parts") /\ published' = published
      /\ req[r] \in Request /\ r \notin published
  BY InProgress DEF GetParts, At, Active, Collected
<1>2. ASSUME NEW e \in {"error", "invalidpart"}, Step(r, Done(r, e))
      PROVE  BodyInv'
  BY <1>1, <1>2, NothingStreamed, QuietHandler DEF Step, IInv, Early
<1>3. ASSUME NEW got \in PartsByNumber, Step(r, Collect(r, got)),
             req[r].op = "abort" \/ Assembles(req[r].want, got)
      PROVE  BodyInv'
  <2>1. PICK x : x = Collect(r, got)
    OBVIOUS
  <2>2. /\ x.got = got /\ x.body = <<>> /\ x.want = req[r].want
        /\ \/ x.pc = "drop"
           \/ /\ x.pc = "read" /\ x.todo = DOMAIN x.want
              /\ Assembles(x.want, x.got)
    <3>1. req[r].body = <<>>
      BY <1>1 DEF BodyInv, At
    <3> QED
      BY <1>1, <1>3, <2>1, <3>1 DEF Collect, Request
  <2>3. /\ req' = [req EXCEPT ![r] = x] /\ req'[r] = x
        /\ \A q \in Requests \ {r} : req'[q] = req[q]
    BY <1>3, <2>1 DEF Step, IInv, TypeOK
  <2>4. \A n \in DOMAIN got :
          /\ got[n] \in Requests /\ req[got[n]].pc = "done"
          /\ req[got[n]].num = n
    <3>1. \A n \in DOMAIN got : got[n] \in parts /\ req[got[n]].num = n
      BY DEF PartsByNumber
    <3> QED
      BY <3>1 DEF IInv, TypeOK, At
  <2>5. x.pc = "read" =>
          DOMAIN x.want \subseteq DOMAIN x.got /\ Streamed(x, x.todo)
    BY <2>2 DEF Assembles, Streamed
  <2>6. GoodBody(r, req'[r])
    BY <1>1, <2>2, <2>3, <2>4, <2>5 DEF GoodBody, Early
  <2>7. \A q \in Requests \ {r} : GoodBody(q, req'[q])
    BY <1>1, <2>3, SameBody DEF At
  <2> QED
    BY <1>1, <2>3, <2>6, <2>7, BodyStep DEF Active, At
<1> QED
  BY <1>2, <1>3 DEF GetParts, Collect

(* The next part is that of the least number left.                         *)
LEMMA NextPart ==
  ASSUME IInv, BodyInv, NEW r \in Requests, At(r, "read"),
         NEW n \in req[r].todo, \A m \in req[r].todo : n <= m,
         NEW x, x.got = req[r].got, x.want = req[r].want,
         x.body = Append(req[r].body, req[r].got[n])
  PROVE  Streamed(x, req[r].todo \ {n})
<1> DEFINE body == req[r].body
           todo == req[r].todo
           got  == req[r].got
           read == DOMAIN x.want \ todo
<1>1. Streamed(req[r], todo) /\ \A k \in DOMAIN got : req[got[k]].num = k
  BY DEF BodyInv
<1>2. req[r] \in Request /\ DOMAIN x.want \subseteq DOMAIN got
  BY DEF IInv, TypeOK, Collected, Assembles
<1>3. /\ todo \subseteq DOMAIN x.want
      /\ \A k \in read, m \in todo : k < m
      /\ \A k \in read : \E i \in DOMAIN body : body[i] = got[k]
      /\ \A i \in DOMAIN body : \E k \in read : body[i] = got[k]
      /\ \A i, j \in DOMAIN body : i < j => req[body[i]].num < req[body[j]].num
  BY <1>1 DEF Streamed
<1>4. todo \subseteq Nat /\ DOMAIN x.want \subseteq Nat
  BY <1>2, NumbersArePositive DEF Request, Lists
<1>5. PICK l : l = Len(body)
  OBVIOUS
<1>6. /\ l \in Nat /\ DOMAIN body = 1..l /\ DOMAIN x.body = 1..(l + 1)
      /\ x.body[l + 1] = got[n]
      /\ \A i \in 1..l : x.body[i] = body[i]
  BY <1>2, <1>5 DEF Request
<1>7. \A k \in DOMAIN x.want \ (todo \ {n}) : k \in read \/ k = n
  OBVIOUS
<1>8. \A k \in DOMAIN x.want \ (todo \ {n}), m \in todo \ {n} : k < m
  <2>1. \A m \in todo \ {n} : n < m
    BY <1>4
  <2> QED
    BY <1>3, <1>7, <2>1
<1>9. \A k \in DOMAIN x.want \ (todo \ {n}) :
        \E i \in DOMAIN x.body : x.body[i] = got[k]
  BY <1>3, <1>6, <1>7
<1>10. \A i \in DOMAIN x.body :
         \E k \in DOMAIN x.want \ (todo \ {n}) : x.body[i] = got[k]
  <2>1. n \in DOMAIN x.want \ (todo \ {n})
    BY <1>3
  <2>2. ASSUME NEW i \in 1..(l + 1), i # l + 1
        PROVE  \E k \in DOMAIN x.want \ (todo \ {n}) : x.body[i] = got[k]
    <3>1. i \in 1..l /\ i \in DOMAIN body
      BY <1>6, <2>2
    <3>2. x.body[i] = body[i]
      BY <1>6, <3>1
    <3>3. PICK k \in read : body[i] = got[k]
      BY <1>3, <3>1
    <3> QED
      BY <3>2, <3>3
  <2> QED
    BY <1>6, <2>1, <2>2
<1>11. ASSUME NEW i \in 1..l PROVE req[body[i]].num < n
  <2>1. PICK k \in read : body[i] = got[k]
    BY <1>3, <1>6
  <2>2. req[got[k]].num = k
    BY <1>1, <1>2
  <2> QED
    BY <1>3, <2>1, <2>2
<1>12. req[got[n]].num = n
  BY <1>1, <1>2, <1>3
<1>13. ASSUME NEW i \in DOMAIN x.body, NEW j \in DOMAIN x.body, i < j
       PROVE  req[x.body[i]].num < req[x.body[j]].num
  <2>1. i \in 1..l /\ (j \in 1..l \/ j = l + 1)
    BY <1>6, <1>13
  <2>2. i \in DOMAIN body /\ x.body[i] = body[i]
    BY <1>6, <2>1
  <2>3. CASE j \in 1..l
    <3>1. j \in DOMAIN body /\ x.body[j] = body[j]
      BY <1>6, <2>3
    <3> QED
      BY <1>3, <1>13, <2>2, <3>1
  <2>4. CASE j = l + 1
    <3>1. x.body[j] = got[n]
      BY <1>6, <2>4
    <3> QED
      BY <1>11, <1>12, <2>1, <2>2, <3>1
  <2> QED
    BY <2>1, <2>3, <2>4
<1>14. /\ todo \ {n} \subseteq DOMAIN x.want /\ x.got = got
       /\ \A i, j \in DOMAIN x.body :
            i < j => req[x.body[i]].num < req[x.body[j]].num
  BY <1>3, <1>13
<1> HIDE DEF got, todo, body, read
<1> QED
  BY <1>8, <1>9, <1>10, <1>14 DEF Streamed, todo

LEMMA BodyByReadPart ==
  ASSUME IInv, BodyInv, NEW r \in Requests, ReadPart(r)
  PROVE  BodyInv'
<1>1. /\ Active(r) /\ At(r, "read") /\ published' = published
      /\ req[r] \in Request /\ r \notin published
  BY InProgress DEF ReadPart, At, Active, Collected
<1>2. PICK n \in req[r].todo :
        /\ \A m \in req[r].todo : n <= m
        /\ Step(r, IF req[r].got[n] \in objects
                   THEN [req[r] EXCEPT !.todo = @ \ {n},
                                       !.body = Append(@, req[r].got[n])]
                   ELSE Done(r, "error"))
  BY DEF ReadPart
<1>3. CASE req[r].got[n] \notin objects
  BY <1>1, <1>2, <1>3, NothingStreamed, QuietHandler DEF Step, IInv, Early
<1>4. CASE req[r].got[n] \in objects
  <2>1. PICK x : x = [req[r] EXCEPT !.todo = @ \ {n},
                                    !.body = Append(@, req[r].got[n])]
    OBVIOUS
  <2>2. /\ x.pc = "read" /\ x.got = req[r].got /\ x.want = req[r].want
        /\ x.todo = req[r].todo \ {n}
        /\ x.body = Append(req[r].body, req[r].got[n])
    BY <1>1, <2>1 DEF Request, At
  <2>3. /\ req'[r] = x
        /\ \A q \in Requests \ {r} : req'[q] = req[q]
    BY <1>2, <1>4, <2>1 DEF Step, IInv, TypeOK
  <2>4. Streamed(x, x.todo)
    BY <1>1, <1>2, <2>2, NextPart
  <2>5. /\ DOMAIN x.want \subseteq DOMAIN x.got
        /\ \A n_1 \in DOMAIN x.got :
             /\ x.got[n_1] \in Requests /\ req[x.got[n_1]].pc = "done"
             /\ req[x.got[n_1]].num = n_1
    BY <1>1, <2>2, InProgress
       DEF Collected, Assembles, At, BodyInv, Request, Lists
  <2>6. GoodBody(r, req'[r])
    BY <1>1, <2>2, <2>3, <2>4, <2>5 DEF GoodBody, Early
  <2>7. \A q \in Requests \ {r} : GoodBody(q, req'[q])
    BY <1>1, <2>3, SameBody DEF At
  <2> QED
    BY <1>1, <2>3, <2>6, <2>7, BodyStep DEF Active, At
<1> QED
  BY <1>3, <1>4

(* The object is complete when no part is left.                            *)
LEMMA BodyByPutObject ==
  ASSUME IInv, BodyInv, NEW r \in Requests, PutObject(r)
  PROVE  BodyInv'
<1>1. /\ Active(r) /\ At(r, "read") /\ req[r].todo = {}
      /\ published' = published \cup {r}
      /\ req[r] \in Request
  BY InProgress DEF PutObject, At, Active
<1>2. PICK x : /\ req' = [req EXCEPT ![r] = x]
               /\ \/ x = Done(r, "error")
                  \/ x = [req[r] EXCEPT !.pc = "drop", !.todo = DOMAIN req[r].got]
  BY DEF PutObject, Replied, Step, Fault
<1>3. /\ x.pc \in {"done", "drop"} /\ x.got = req[r].got
      /\ x.want = req[r].want /\ x.body = req[r].body
  BY <1>1, <1>2 DEF Done, Request
<1>4. /\ req'[r] = x
      /\ \A q \in Requests \ {r} : req'[q] = req[q]
  BY <1>2 DEF IInv, TypeOK
<1>5. Streamed(x, {})
  <2>1. Streamed(req[r], {})
    BY <1>1 DEF BodyInv
  <2> QED
    BY <1>3, <2>1 DEF Streamed
<1>6. /\ DOMAIN x.want \subseteq DOMAIN x.got
      /\ \A n \in DOMAIN x.got :
           /\ x.got[n] \in Requests /\ req[x.got[n]].pc = "done"
           /\ req[x.got[n]].num = n
  BY <1>1, <1>3, InProgress
     DEF Collected, Assembles, At, BodyInv, Request, Lists
<1>7. GoodBody(r, req'[r])
  BY <1>3, <1>4, <1>5, <1>6 DEF GoodBody, Early
<1>8. \A q \in Requests \ {r} : GoodBody(q, req'[q])
  BY <1>1, <1>4, SameBody DEF At
<1> QED
  BY <1>1, <1>4, <1>7, <1>8, BodyStep DEF Active, At

(* Requests begin and crash with what they have.                           *)
LEMMA BodyByOthers ==
  ASSUME IInv, BodyInv,
         \/ CreateMultipartUpload \/ Crash \/ UNCHANGED vars
         \/ \E r \in Requests : BeginStep(r)
  PROVE  BodyInv'
<1>1. ASSUME req' = req, published' = published PROVE BodyInv'
  BY <1>1, SameBody, BodyStep DEF At
<1>2. CASE Crash
  <2>1. ASSUME NEW q \in Requests
        PROVE  /\ GoodBody(q, req'[q]) /\ (At(q, "done") => req'[q] = req[q])
    <3>1. published' = published
      BY <1>2 DEF Crash
    <3>2. CASE Active(q)
      <4>1. req'[q] = Done(q, "crashed")
        BY <1>2, <3>2 DEF Crash
      <4>2. ~At(q, "done")
        BY <3>2 DEF Active, At
      <4> QED
        BY <3>1, <4>1, <4>2, NothingStreamed, SameBody DEF IInv, Early
    <3>3. CASE ~Active(q)
      <4>1. req'[q] = req[q]
        BY <1>2, <3>3 DEF Crash
      <4> QED
        BY <3>1, <4>1, SameBody DEF At
    <3> QED
      BY <3>2, <3>3
  <2> QED
    BY <2>1, BodyStep
<1>3. ASSUME NEW r \in Requests, BeginStep(r) PROVE BodyInv'
  <2>1. ASSUME NEW asked, Begin(r, asked), asked \in Request,
               asked.got = <<>>, asked.body = <<>>
        PROVE  BodyInv'
    <3>1. PICK x : x = [asked EXCEPT !.pc = "find", !.prior = Finished]
      OBVIOUS
    <3>2. /\ x.pc = "find" /\ x.got = <<>> /\ x.body = <<>>
      BY <2>1, <3>1 DEF Request
    <3>3. /\ At(r, "idle") /\ published' = published /\ req'[r] = x
          /\ \A q \in Requests \ {r} : req'[q] = req[q]
      BY <2>1, <3>1 DEF Begin, Step, IInv, TypeOK
    <3>4. r \notin published
      BY <3>3 DEF IInv, Collected, At
    <3>5. GoodBody(r, req'[r])
      BY <3>2, <3>3, <3>4 DEF GoodBody, Early
    <3>6. \A q \in Requests \ {r} : GoodBody(q, req'[q])
      BY <3>3, SameBody DEF At
    <3> QED
      BY <3>3, <3>5, <3>6, BodyStep DEF At
  <2>2. PICK asked : Begin(r, asked) /\ IsAsk(asked) /\ asked.body = <<>>
    <3>1. CASE BeginUploadPart(r)
      <4>1. PICK n \in Numbers, d \in Payloads :
              Begin(r, [Idle EXCEPT !.op = "part", !.num = n, !.data = d])
        BY <3>1 DEF BeginUploadPart
      <4>2. [Idle EXCEPT !.op = "part", !.num = n, !.data = d].body = <<>>
        BY DEF Idle
      <4> QED
        BY <4>1, <4>2, AskTypes
    <3>2. CASE BeginComplete(r)
      <4>1. PICK listed \in SUBSET Numbers :
              \E want \in [listed -> Payloads] :
                Begin(r, [Idle EXCEPT !.op = "complete", !.want = want])
        BY <3>2 DEF BeginComplete
      <4>2. PICK want \in Lists(Payloads) :
              Begin(r, [Idle EXCEPT !.op = "complete", !.want = want])
        BY <4>1 DEF Lists
      <4>3. [Idle EXCEPT !.op = "complete", !.want = want].body = <<>>
        BY DEF Idle
      <4> QED
        BY <4>2, <4>3, AskTypes
    <3>3. CASE BeginAbort(r)
      <4>1. [Idle EXCEPT !.op = "abort"].body = <<>>
        BY DEF Idle
      <4> QED
        BY <3>3, <4>1, AskTypes DEF BeginAbort
    <3> QED
      BY <1>3, <3>1, <3>2, <3>3 DEF BeginStep
  <2> QED
    BY <2>1, <2>2 DEF IsAsk
<1> QED
  BY <1>1, <1>2, <1>3 DEF CreateMultipartUpload, vars

(* Handlers that do not stream.                                            *)
LEMMA BodyByTheRest ==
  ASSUME IInv, BodyInv, NEW r \in Requests,
         \/ GetMultipartUpload(r) \/ UploadPartStep(r)
         \/ DropPart(r) \/ RemoveUpload(r) \/ CallFails(r)
  PROVE  BodyInv'
<1>1. TypeOK /\ req[r] \in Request /\ published' = published
  BY DEF IInv, TypeOK, GetMultipartUpload, UploadPartStep, PutPart, SearchPart,
         AddPart, DropPart, RemoveUpload, CallFails
<1>2. Active(r)
  BY DEF GetMultipartUpload, UploadPartStep, PutPart, SearchPart,
         AddPart, DropPart, RemoveUpload, CallFails, At, Active
<1>3. ASSUME NEW x, req' = [req EXCEPT ![r] = x],
             x.got = req[r].got, x.body = req[r].body, x.want = req[r].want,
             x.pc \in Early => req[r].pc \in Early, x.pc # "read"
      PROVE  BodyInv'
  BY <1>1, <1>2, <1>3, QuietHandler
<1>4. ASSUME NEW e \in {"ok", "error", "nosuchupload"},
             req' = [req EXCEPT ![r] = Done(r, e)]
      PROVE  BodyInv'
  BY <1>1, <1>3, <1>4, NothingStreamed DEF Early
<1>5. ASSUME NEW p \in {"put", "search", "parts"}, req[r].pc \in Early,
             req' = [req EXCEPT ![r] = To(r, p)]
      PROVE  BodyInv'
  BY <1>1, <1>3, <1>5, NothingStreamed DEF Early
<1>6. CASE GetMultipartUpload(r)
  <2>1. CASE upload = "removed"
    BY <1>4, <1>6, <2>1 DEF GetMultipartUpload, Step
  <2>2. CASE upload # "removed"
    BY <1>5, <1>6, <2>2 DEF GetMultipartUpload, Step, At, Early
  <2> QED
    BY <2>1, <2>2
<1>7. CASE PutPart(r)
  BY <1>4, <1>5, <1>7 DEF PutPart, Replied, Step, Fault, At, Early
<1>8. CASE SearchPart(r)
  <2>1. ASSUME NEW q, Step(r, [req[r] EXCEPT !.pc = "add", !.found = q])
        PROVE  BodyInv'
    <3>1. PICK x : x = [req[r] EXCEPT !.pc = "add", !.found = q]
      OBVIOUS
    <3>2. /\ x.pc = "add" /\ x.got = req[r].got
          /\ x.body = req[r].body /\ x.want = req[r].want
      BY <1>1, <3>1 DEF Request
    <3> QED
      BY <1>3, <1>8, <2>1, <3>1, <3>2 DEF SearchPart, Step, At, Early
  <2> QED
    BY <1>4, <1>8, <2>1 DEF SearchPart, Step
<1>9. CASE AddPart(r)
  BY <1>4, <1>9 DEF AddPart, Replied, Step, Fault
<1>10. CASE DropPart(r)
  <2>1. PICK n \in req[r].todo :
          req' = [req EXCEPT ![r] = [req[r] EXCEPT !.todo = @ \ {n}]]
    BY <1>10 DEF DropPart, Step, Fault
  <2>2. PICK x : x = [req[r] EXCEPT !.todo = @ \ {n}]
    OBVIOUS
  <2>3. /\ x.pc = "drop" /\ x.got = req[r].got
        /\ x.body = req[r].body /\ x.want = req[r].want
    BY <1>1, <1>10, <2>2 DEF Request, DropPart, At
  <2> QED
    BY <1>3, <2>1, <2>2, <2>3 DEF Early
<1>11. CASE RemoveUpload(r)
  BY <1>4, <1>11 DEF RemoveUpload, Replied, Step, Fault
<1>12. CASE CallFails(r)
  BY <1>4, <1>12 DEF CallFails, Fault
<1> QED
  BY <1>6, <1>7, <1>8, <1>9, <1>10, <1>11, <1>12 DEF UploadPartStep

(* What a Complete streams are, at every moment, the parts it collected    *)
(* for the listed numbers up to the one it is at.                          *)
THEOREM BodyInvariantHolds == Spec => []BodyInv
<1>1. Init => BodyInv
  BY DEF Init, BodyInv, Idle, At
<1>2. IInv /\ BodyInv /\ [Next]_vars => BodyInv'
  BY BodyByOthers, BodyByTheRest, BodyByGetParts, BodyByReadPart,
     BodyByPutObject DEF Next, RequestStep, EndStep
<1> QED
  BY <1>1, <1>2, InvariantHolds, PTL DEF Spec

(* What was streamed into a completed object is what its client listed     *)
(* (CompleteMultipartUpload, multiObjectReader), however many requests     *)
(* work on the upload, and whatever fails.                                 *)
THEOREM CompleteIsAsListed == Spec => []CompletedAsListed
<1>1. IInv /\ BodyInv => CompletedAsListed
  <2> SUFFICES ASSUME IInv, BodyInv, NEW r \in published
               PROVE  LET want == req[r].want
                          body == req[r].body
                      IN /\ \A n \in DOMAIN want :
                              \E i \in DOMAIN body : req[body[i]].num = n
                         /\ \A i \in DOMAIN body :
                              LET part == req[body[i]]
                              IN /\ part.num \in DOMAIN want
                                 /\ part.data = want[part.num]
                                 /\ part.data \in Small => i = Len(body)
                                 /\ \A j \in DOMAIN body :
                                      i < j => part.num < req[body[j]].num
    BY DEF CompletedAsListed
  <2> DEFINE want == req[r].want
             body == req[r].body
             got  == req[r].got
  <2>1. r \in Requests /\ req[r] \in Request
    BY DEF IInv, TypeOK
  <2>2. /\ DOMAIN want \subseteq DOMAIN got
        /\ \A n \in DOMAIN want :
             /\ req[got[n]].data = want[n]
             /\ want[n] \in Small => \A m \in DOMAIN want : m <= n
    BY <2>1 DEF IInv, Collected, Assembles
  <2>3. \A n \in DOMAIN got : req[got[n]].num = n
    BY <2>1 DEF BodyInv
  <2>4. /\ \A n \in DOMAIN want : \E i \in DOMAIN body : body[i] = got[n]
        /\ \A i \in DOMAIN body : \E n \in DOMAIN want : body[i] = got[n]
        /\ \A i, j \in DOMAIN body : i < j => req[body[i]].num < req[body[j]].num
    BY <2>1 DEF BodyInv, Streamed
  <2>5. \A n \in DOMAIN want : \E i \in DOMAIN body : req[body[i]].num = n
    BY <2>2, <2>3, <2>4
  <2>6. ASSUME NEW i \in DOMAIN body
        PROVE  /\ req[body[i]].num \in DOMAIN want
               /\ req[body[i]].data = want[req[body[i]].num]
    BY <2>2, <2>3, <2>4
  <2>7. ASSUME NEW i \in DOMAIN body, req[body[i]].data \in Small
        PROVE  i = Len(body)
    <3>1. PICK l : l = Len(body)
      OBVIOUS
    <3>2. l \in Nat /\ DOMAIN body = 1..l
      BY <2>1, <3>1 DEF Request
    <3>3. l \in DOMAIN body /\ i \in Nat /\ i <= l
      BY <3>2
    <3>4. PICK n \in Nat, m \in Nat : /\ n = req[body[i]].num
                                      /\ m = req[body[l]].num
      <4>1. DOMAIN want \subseteq Nat
        BY <2>1, NumbersArePositive DEF Request, Lists
      <4> QED
        BY <2>6, <3>3, <4>1
    <3>5. m <= n
      BY <2>2, <2>6, <2>7, <3>3, <3>4
    <3>6. i < l => n < m
      BY <2>4, <3>3, <3>4
    <3> QED
      BY <3>1, <3>2, <3>3, <3>5, <3>6
  <2> QED
    BY <2>4, <2>5, <2>6, <2>7
<1> QED
  BY <1>1, InvariantHolds, BodyInvariantHolds, PTL

---------------------------------------------------------------------------
(* The end of the upload *)

(* A Complete that fails, at whatever call, leaves the parts it was told   *)
(* to assemble: payloads go only after the object is stored.               *)
THEOREM FailedCompleteKeepsParts == Spec => []PartsOutliveFailedComplete
<1>1. IInv => PartsOutliveFailedComplete
  BY DEF IInv
<1> QED
  BY <1>1, InvariantHolds, PTL

(* No request that begins after an acknowledged Complete or Abort of an    *)
(* upload is acknowledged.                                                 *)
THEOREM UploadEndsOnce == Spec => []NothingAfterTheEnd
<1>1. IInv => NothingAfterTheEnd
  BY DEF IInv, EndedFor, EndsUpload, NothingAfterTheEnd, At, Acked, AtStep
<1> QED
  BY <1>1, InvariantHolds, PTL
---------------------------------------------------------------------------
(* What is left of an upload when nothing fails *)

(* Every step leaves alone what was asked, and requests that are done.     *)
AsksStay ==
  \A q \in Requests :
    /\ ~At(q, "idle") => SameAsk(req'[q], req[q])
    /\ At(q, "done") => req'[q] = req[q]

(* Other requests may join those at the upload, none ever leaves them.     *)
LEMMA AloneBefore ==
  ASSUME IInv, AsksStay, NEW o \in Requests, ~At(o, "idle"), Alone(o)'
  PROVE  Alone(o)
<1>1. SameAsk(req'[o], req[o])
  BY DEF AsksStay
<1> SUFFICES ASSUME NEW q \in Requests \ {o},
                    req[q].op \in {"part", "complete", "abort"}
             PROVE  /\ req[q].op = "part" => req[q].num # req[o].num
                    /\ req[q].op \in {"complete", "abort"} => ~Overlap(o, q)
  BY DEF Alone
<1>2. AtStep(req[q])
  BY DEF IInv
<1>3. ~At(q, "idle")
  BY <1>2 DEF AtStep, At
<1>4. SameAsk(req'[q], req[q])
  BY <1>3 DEF AsksStay
<1>5. /\ req'[q].op = "part" => req'[q].num # req'[o].num
      /\ req'[q].op \in {"complete", "abort"} =>
           ~(o \notin req'[q].prior /\ q \notin req'[o].prior)
  BY DEF Alone, Overlap
<1> QED
  BY <1>1, <1>4, <1>5 DEF SameAsk, Overlap

(* A part still on its way when the upload is gone ran with its end.       *)
LEMMA LateIsNotAlone ==
  ASSUME IInv, LeftInv, faults = 0, upload = "removed",
         NEW r \in Requests, Active(r), ~At(r, "find"), req[r].op = "part"
  PROVE  ~Alone(r)
<1>1. PICK e \in Requests : EndsUpload(e)
  BY DEF LeftInv
<1>2. e # r /\ e \notin req[r].prior
  BY <1>1, InProgress DEF EndsUpload
<1>3. r \notin req[e].prior
  BY DEF IInv, PriorFinished, Active, At
<1> QED
  BY <1>1, <1>2, <1>3 DEF Alone, Overlap, EndsUpload

(* What a handler may leave behind in x and in the stores for LeftInv to   *)
(* go on: an object it stored or a node it removed is accounted for.       *)
LEMMA LeftStep ==
  ASSUME IInv, LeftInv, faults = 0, NEW r \in Requests, Active(r), NEW x,
         req' = [req EXCEPT ![r] = x], SameAsk(x, req[r]),
         x.pc \notin {"idle", "find"},
         upload' \in {upload, "removed"},
         upload' = "removed" => \/ upload = "removed"
                                \/ x.res = "ok" /\ x.op \in {"complete", "abort"},
         \A o \in objects \cap parts :
           o \in parts' \/ o \notin objects' \/ ~Alone(o),
         objects' \subseteq objects \cup {r},
         x.pc = "done" /\ r \in objects' /\ Alone(r) => r \in parts',
         x.pc \in {"read", "drop"} =>
           \/ req[r].pc \in {"read", "drop"} /\ x.got = req[r].got
           \/ \A o \in parts \cap req[r].prior : Alone(o) =>
                /\ req[o].num \in DOMAIN x.got
                /\ x.got[req[o].num] = o,
         x.pc = "drop" =>
           \A n \in DOMAIN x.got \ x.todo : x.got[n] \notin objects'
  PROVE  LeftInv'
<1>1. /\ req \in [Requests -> Request] /\ req'[r] = x
      /\ \A q \in Requests \ {r} : req'[q] = req[q]
  BY DEF IInv, TypeOK
<1>2. \A q \in Requests : req[q].prior \subseteq Requests
  BY <1>1 DEF Request
<1>3. \A q \in Requests : r \notin req[q].prior
  BY DEF IInv, PriorFinished, Active, At
<1>4. AsksStay
  BY <1>1 DEF AsksStay, SameAsk, Active, At
<1>5. objects \subseteq Requests /\ \A o \in objects : req[o].op = "part"
  BY DEF IInv, TypeOK
<1>6. \A o \in objects : ~At(o, "idle")
  BY <1>5 DEF IInv, AtStep, At
<1>7. upload' # "none"
  BY DEF LeftInv, Active, At
<1>8. upload' = "removed" => \E e \in Requests : EndsUpload(e)'
  <2>1. CASE upload = "removed"
    <3>1. PICK e \in Requests : EndsUpload(e)
      BY <2>1 DEF LeftInv
    <3>2. e # r
      BY <3>1 DEF IInv, EndsUpload, Acked, AtStep, Active
    <3> QED
      BY <3>1, <3>2, <1>1 DEF EndsUpload, Acked
  <2>2. CASE x.res = "ok" /\ x.op \in {"complete", "abort"}
    BY <2>2, <1>1 DEF EndsUpload, Acked
  <2> QED
    BY <2>1, <2>2
<1>9. ASSUME NEW q \in Requests
      PROVE  Drops(q)' /\ (At(q, "find")' => q \notin objects')
  <2>1. CASE q = r
    BY <2>1, <1>1 DEF Drops, At
  <2>2. CASE q # r
    <3>1. Drops(q) /\ (At(q, "find") => q \notin objects)
      BY DEF LeftInv
    <3>2. \A n \in DOMAIN req[q].got : req[q].got[n] # r
      BY DEF IInv, Collected, Active, At
    <3> QED
      BY <2>2, <3>1, <3>2, <1>1 DEF Drops, At
  <2> QED
    BY <2>1, <2>2
<1>10. ASSUME NEW o \in objects', Alone(o)'
       PROVE  /\ At(o, "done")' => o \in parts'
              /\ \A e \in Requests : Knows(e, o)'
  <2>1. o \in Requests /\ ~At(o, "idle")
    BY <1>5, <1>6 DEF Active, At
  <2>2. Alone(o)
    BY <1>4, <1>10, <2>1, AloneBefore
  <2>3. CASE o = r
    <3>1. At(o, "done")' => o \in parts'
      BY <2>2, <2>3, <1>1, <1>10 DEF At
    <3>2. \A e \in Requests : o \notin req'[e].prior
      BY <2>3, <1>1, <1>3 DEF SameAsk
    <3> QED
      BY <3>1, <3>2 DEF Knows
  <2>4. CASE o # r
    <3>1. o \in objects /\ req'[o] = req[o]
      BY <2>1, <2>4, <1>1, <1>10
    <3>2. /\ At(o, "done") => o \in parts
          /\ \A e \in Requests : Knows(e, o)
      BY <2>2, <3>1 DEF LeftInv
    <3>3. At(o, "done")' => o \in parts'
      BY <2>2, <3>1, <3>2, <1>10 DEF At
    <3>4. ASSUME NEW e \in Requests PROVE Knows(e, o)'
      <4>1. CASE e # r
        BY <4>1, <3>1, <3>2, <1>1 DEF Knows
      <4>2. CASE e = r /\ o \in req[r].prior /\ x.pc \in {"read", "drop"}
        <5>1. At(o, "done")
          BY <4>2 DEF IInv, PriorFinished
        <5>2. req[o].num \in DOMAIN x.got /\ x.got[req[o].num] = o
          BY <4>2, <5>1, <3>2, <2>2 DEF Knows
        <5> QED
          BY <4>2, <5>2, <3>1, <1>1 DEF Knows
      <4> QED
        BY <4>1, <4>2, <1>1 DEF Knows, SameAsk
    <3> QED
      BY <3>3, <3>4
  <2> QED
    BY <2>3, <2>4
<1> QED
  BY <1>7, <1>8, <1>9, <1>10 DEF LeftInv

(* A reply that is not lost.                                               *)
LEMMA RepliedInTime ==
  ASSUME NEW r, NEW x, faults \in Nat, faults' = 0, Replied(r, x)
  PROVE  Step(r, x)
BY DEF Replied, Fault

LEMMA LeftByGetMultipartUpload ==
  ASSUME IInv, LeftInv, faults = 0, NEW r \in Requests,
         GetMultipartUpload(r)
  PROVE  LeftInv'
<1>1. /\ Active(r) /\ At(r, "find")
      /\ UNCHANGED <<upload, parts, objects, published>>
  BY DEF GetMultipartUpload, At, Active
<1>2. PICK x : x = IF upload = "removed" THEN Done(r, "nosuchupload")
                   ELSE To(r, IF req[r].op = "part" THEN "put" ELSE "parts")
  OBVIOUS
<1>3. req' = [req EXCEPT ![r] = x]
  BY <1>2 DEF GetMultipartUpload, Step
<1>4. SameAsk(x, req[r])
  BY <1>2, RecordTypes DEF IInv
<1>5. x.pc \in {"done", "put", "parts"}
  BY <1>2 DEF IInv, TypeOK, Request, Done, To
<1>6. r \notin objects
  BY <1>1 DEF LeftInv
<1> QED
  BY <1>1, <1>3, <1>4, <1>5, <1>6, LeftStep

LEMMA LeftByPutPart ==
  ASSUME IInv, LeftInv, faults = 0, faults' = 0, NEW r \in Requests,
         PutPart(r)
  PROVE  LeftInv'
<1>1. /\ Active(r) /\ objects' = objects \cup {r}
      /\ UNCHANGED <<upload, parts, published>>
  BY DEF PutPart, At, Active
<1>2. PICK x : x = To(r, "search")
  OBVIOUS
<1>3. req' = [req EXCEPT ![r] = x]
  BY <1>2, RepliedInTime DEF PutPart, Step
<1>4. SameAsk(x, req[r])
  BY <1>2, RecordTypes DEF IInv
<1>5. x.pc = "search"
  BY <1>2 DEF IInv, TypeOK, Request, To
<1> QED
  BY <1>1, <1>3, <1>4, <1>5, LeftStep

LEMMA LeftBySearchPart ==
  ASSUME IInv, LeftInv, faults = 0, NEW r \in Requests, SearchPart(r)
  PROVE  LeftInv'
<1>1. /\ Active(r) /\ At(r, "search")
      /\ UNCHANGED <<upload, parts, objects, published>>
  BY DEF SearchPart, At, Active
<1>2. req[r] \in Request /\ SamePart(r) \subseteq Requests
  BY DEF IInv, TypeOK, SamePart
<1>3. ASSUME NEW q \in Requests \cup {None},
             Step(r, [req[r] EXCEPT !.pc = "add", !.found = q])
      PROVE  LeftInv'
  <2>1. PICK x : x = [req[r] EXCEPT !.pc = "add", !.found = q]
    OBVIOUS
  <2>2. SameAsk(x, req[r]) /\ x.pc = "add"
    BY <2>1, <1>2 DEF SameAsk, Request
  <2>3. req' = [req EXCEPT ![r] = x]
    BY <2>1, <1>3 DEF Step
  <2> QED
    BY <1>1, <2>2, <2>3, LeftStep
<1>4. CASE upload = "removed" /\ Step(r, Done(r, "error"))
  <2>1. PICK x : x = Done(r, "error")
    OBVIOUS
  <2>2. SameAsk(x, req[r]) /\ x.pc = "done"
    BY <2>1, <1>2 DEF SameAsk, Request, Done
  <2>3. req' = [req EXCEPT ![r] = x]
    BY <2>1, <1>4 DEF Step
  <2>4. req[r].op = "part"
    BY <1>1 DEF IInv, AtStep, At
  <2>5. ~Alone(r)
    BY <1>1, <1>4, <2>4, LateIsNotAlone DEF At
  <2> QED
    BY <1>1, <2>2, <2>3, <2>5, LeftStep
<1> QED
  BY <1>2, <1>3, <1>4 DEF SearchPart

LEMMA LeftByAddPart ==
  ASSUME IInv, LeftInv, faults = 0, faults' = 0, NEW r \in Requests,
         AddPart(r)
  PROVE  LeftInv'
<1>1. Active(r) /\ At(r, "add")
  BY DEF AddPart, At, Active
<1>2. req[r] \in Request
  BY DEF IInv, TypeOK
<1>3. /\ objects' = objects /\ UNCHANGED <<upload, published>>
      /\ parts' = IF upload = "open" THEN parts \cup {r} ELSE parts
  <2>1. req[r].found # Upload
    BY <1>2, IdsDiffer, NoneIsNotUpload DEF Request
  <2> QED
    BY <2>1 DEF AddPart
<1>4. ASSUME NEW y \in {"ok", "error"}, Step(r, Done(r, y)),
             y = "error" => upload = "removed"
      PROVE  LeftInv'
  <2>1. PICK x : x = Done(r, y)
    OBVIOUS
  <2>2. SameAsk(x, req[r]) /\ x.pc = "done"
    BY <2>1, <1>2 DEF SameAsk, Request, Done
  <2>3. req' = [req EXCEPT ![r] = x]
    BY <2>1, <1>4 DEF Step
  <2>4. req[r].op = "part"
    BY <1>1 DEF IInv, AtStep, At
  <2>5. upload = "open" \/ upload = "removed"
    BY <1>1 DEF IInv, TypeOK, LeftInv, At
  <2>6. Alone(r) => r \in parts'
    BY <1>1, <1>3, <2>4, <2>5, LateIsNotAlone DEF At
  <2> QED
    BY <1>1, <1>3, <2>2, <2>3, <2>6, LeftStep
<1> QED
  BY <1>4, RepliedInTime DEF AddPart, IInv, TypeOK

(* Whoever collects the parts is told of those uploaded before, as nothing *)
(* else has their number.                                                  *)
LEMMA LeftByGetParts ==
  ASSUME IInv, LeftInv, faults = 0, NEW r \in Requests, GetParts(r)
  PROVE  LeftInv'
<1>1. /\ Active(r) /\ At(r, "parts")
      /\ UNCHANGED <<upload, parts, objects, published>>
  BY DEF GetParts, At, Active
<1>2. req[r] \in Request
  BY DEF IInv, TypeOK
<1>3. r \notin objects
  BY <1>1 DEF IInv, TypeOK, AtStep, At
<1>4. ASSUME NEW y \in {"error", "invalidpart"}, Step(r, Done(r, y))
      PROVE  LeftInv'
  <2>1. PICK x : x = Done(r, y)
    OBVIOUS
  <2>2. SameAsk(x, req[r]) /\ x.pc = "done"
    BY <2>1, <1>2 DEF SameAsk, Request, Done
  <2>3. req' = [req EXCEPT ![r] = x]
    BY <2>1, <1>4 DEF Step
  <2> QED
    BY <1>1, <1>3, <2>2, <2>3, LeftStep
<1>5. ASSUME NEW got \in PartsByNumber, Step(r, Collect(r, got)),
             req[r].op = "abort" \/ Assembles(req[r].want, got)
      PROVE  LeftInv'
  <2>1. PICK x : x = Collect(r, got)
    OBVIOUS
  <2>2. /\ SameAsk(x, req[r]) /\ x.pc \in {"read", "drop"} /\ x.got = got
        /\ x.pc = "drop" => x.todo = DOMAIN got
    BY <2>1, <1>2, <1>5 DEF SameAsk, Request, Collect
  <2>3. req' = [req EXCEPT ![r] = x]
    BY <2>1, <1>5 DEF Step
  <2>4. ASSUME NEW o \in parts, Alone(o)
        PROVE  req[o].num \in DOMAIN got /\ got[req[o].num] = o
    <3> DEFINE numbers == {req[q].num : q \in parts}
    <3>1. got \in [numbers -> parts] /\ \A n \in numbers : req[got[n]].num = n
      BY DEF PartsByNumber
    <3>2. req[o].num \in numbers
      OBVIOUS
    <3>3. got[req[o].num] \in parts /\ req[got[req[o].num]].num = req[o].num
      BY <3>1, <3>2
    <3>4. \A q \in parts : q \in Requests /\ req[q].op = "part"
      BY DEF IInv, TypeOK
    <3> QED
      BY <2>4, <3>1, <3>2, <3>3, <3>4 DEF Alone
  <2> QED
    BY <1>1, <1>3, <2>2, <2>3, <2>4, LeftStep
<1> QED
  BY <1>4, <1>5 DEF GetParts, Collect

LEMMA LeftByReadPart ==
  ASSUME IInv, LeftInv, faults = 0, NEW r \in Requests, ReadPart(r)
  PROVE  LeftInv'
<1>1. /\ Active(r) /\ At(r, "read")
      /\ UNCHANGED <<upload, parts, objects, published>>
  BY DEF ReadPart, At, Active
<1>2. PICK n \in req[r].todo :
        Step(r, IF req[r].got[n] \in objects
                THEN [req[r] EXCEPT !.todo = @ \ {n},
                                    !.body = Append(@, req[r].got[n])]
                ELSE Done(r, "error"))
  BY DEF ReadPart
<1>3. PICK x : x = IF req[r].got[n] \in objects
                   THEN [req[r] EXCEPT !.todo = @ \ {n},
                                       !.body = Append(@, req[r].got[n])]
                   ELSE Done(r, "error")
  OBVIOUS
<1>4. req' = [req EXCEPT ![r] = x]
  BY <1>2, <1>3 DEF Step
<1>5. /\ SameAsk(x, req[r]) /\ x.pc \in {"read", "done"}
      /\ x.got = req[r].got
  BY <1>1, <1>3 DEF IInv, TypeOK, Request, SameAsk, Done, At
<1>6. r \notin objects
  BY <1>1 DEF IInv, TypeOK, AtStep, At
<1> QED
  BY <1>1, <1>4, <1>5, <1>6, LeftStep DEF At

LEMMA LeftByPutObject ==
  ASSUME IInv, LeftInv, faults = 0, faults' = 0, NEW r \in Requests,
         PutObject(r)
  PROVE  LeftInv'
<1>1. /\ Active(r) /\ At(r, "read")
      /\ UNCHANGED <<upload, parts, objects>>
  BY DEF PutObject, At, Active
<1>2. PICK x : x = [req[r] EXCEPT !.pc = "drop", !.todo = DOMAIN req[r].got]
  OBVIOUS
<1>3. req' = [req EXCEPT ![r] = x]
  BY <1>2, RepliedInTime DEF PutObject, Step
<1>4. /\ SameAsk(x, req[r]) /\ x.pc = "drop"
      /\ x.got = req[r].got /\ x.todo = DOMAIN req[r].got
  BY <1>2 DEF IInv, TypeOK, Request, SameAsk
<1> QED
  BY <1>1, <1>3, <1>4, LeftStep DEF At

LEMMA LeftByDropPart ==
  ASSUME IInv, LeftInv, faults = 0, faults' = 0, NEW r \in Requests,
         DropPart(r)
  PROVE  LeftInv'
<1>1. /\ Active(r) /\ At(r, "drop")
      /\ UNCHANGED <<upload, parts, published>>
  BY DEF DropPart, At, Active
<1>2. PICK n \in req[r].todo :
        LET next == [req[r] EXCEPT !.todo = @ \ {n}]
        IN \/ /\ objects' = objects \ {req[r].got[n]}
              /\ Step(r, next) \/ Fault(r, next)
           \/ UNCHANGED objects /\ Fault(r, next)
  BY DEF DropPart
<1>3. PICK x : x = [req[r] EXCEPT !.todo = @ \ {n}]
  OBVIOUS
<1>4. objects' = objects \ {req[r].got[n]} /\ req' = [req EXCEPT ![r] = x]
  BY <1>2, <1>3 DEF Step, Fault
<1>5. /\ SameAsk(x, req[r]) /\ x.pc = "drop"
      /\ x.got = req[r].got /\ x.todo = req[r].todo \ {n}
  BY <1>1, <1>3 DEF IInv, TypeOK, Request, SameAsk, At
<1>6. \A m \in DOMAIN req[r].got \ req[r].todo : req[r].got[m] \notin objects
  BY <1>1 DEF LeftInv, Drops
<1>7. \A m \in DOMAIN x.got \ x.todo : x.got[m] \notin objects'
  BY <1>4, <1>5, <1>6
<1> QED
  BY <1>1, <1>4, <1>5, <1>7, LeftStep DEF At

(* The part nodes go when the objects of all that were collected are gone. *)
LEMMA LeftByRemoveUpload ==
  ASSUME IInv, LeftInv, faults = 0, faults' = 0, NEW r \in Requests,
         RemoveUpload(r)
  PROVE  LeftInv'
<1>1. /\ Active(r) /\ At(r, "drop") /\ req[r].todo = {}
      /\ upload' = "removed" /\ parts' = {}
      /\ UNCHANGED <<objects, published>>
  BY DEF RemoveUpload, At, Active
<1>2. req[r] \in Request /\ req[r].op \in {"complete", "abort"}
  BY <1>1 DEF IInv, TypeOK, AtStep, At
<1>3. r \notin objects
  BY <1>2 DEF IInv, TypeOK
<1>4. ASSUME NEW o \in objects \cap parts PROVE ~Alone(o)
  <2>1. SUFFICES ASSUME Alone(o) PROVE FALSE
    OBVIOUS
  <2>2. o \in Requests /\ o # r /\ At(o, "done")
    BY <1>3 DEF IInv, TypeOK
  <2>3. r \notin req[o].prior
    BY <1>1, <2>2 DEF IInv, PriorFinished, Active, At
  <2>4. o \in req[r].prior
    BY <1>2, <2>1, <2>2, <2>3 DEF Alone, Overlap
  <2>5. Knows(r, o) /\ Drops(r)
    BY <2>1 DEF LeftInv
  <2>6. req[o].num \in DOMAIN req[r].got /\ req[r].got[req[o].num] = o
    BY <1>1, <2>4, <2>5 DEF Knows, At
  <2> QED
    BY <1>1, <2>5, <2>6 DEF Drops
<1>5. ASSUME NEW y \in {"ok", "error"}, Step(r, Done(r, y)),
             y = "error" => upload = "removed"
      PROVE  LeftInv'
  <2>1. PICK x : x = Done(r, y)
    OBVIOUS
  <2>2. SameAsk(x, req[r]) /\ x.pc = "done" /\ x.res = y
    BY <2>1, <1>2 DEF SameAsk, Request, Done
  <2>3. req' = [req EXCEPT ![r] = x] /\ x.op \in {"complete", "abort"}
    BY <2>1, <2>2, <1>2, <1>5 DEF Step, SameAsk
  <2> QED
    BY <1>1, <1>3, <1>4, <1>5, <2>2, <2>3, LeftStep
<1> QED
  BY <1>5, RepliedInTime DEF RemoveUpload, IInv, TypeOK

LEMMA LeftByBegin ==
  ASSUME IInv, LeftInv, faults = 0, NEW r \in Requests, NEW asked,
         IsAsk(asked), Begin(r, asked)
  PROVE  LeftInv'
<1>1. PICK x : x = [asked EXCEPT !.pc = "find", !.prior = Finished]
  OBVIOUS
<1>2. /\ At(r, "idle") /\ upload # "none" /\ req' = [req EXCEPT ![r] = x]
      /\ UNCHANGED <<upload, parts, objects, published, faults>>
  BY <1>1 DEF Begin, Step
<1>3. x.pc = "find"
  BY <1>1 DEF IsAsk, Request
<1>4. /\ req'[r] = x
      /\ \A q \in Requests \ {r} : req'[q] = req[q]
  BY <1>2 DEF IInv, TypeOK
<1>5. /\ req[r].op = "none" /\ r \notin objects
      /\ \A o \in objects : o \in Requests /\ req[o].op = "part"
  BY <1>2 DEF IInv, TypeOK, AtStep, At
<1>6. \A o \in objects : ~At(o, "idle")
  BY <1>5 DEF IInv, AtStep, At
<1>7. AsksStay
  BY <1>2, <1>4 DEF AsksStay, SameAsk, At
<1>8. upload' = "removed" => \E e \in Requests : EndsUpload(e)'
  <2> SUFFICES ASSUME upload = "removed" PROVE \E e \in Requests : EndsUpload(e)'
    BY <1>2
  <2>1. PICK e \in Requests : EndsUpload(e)
    BY DEF LeftInv
  <2>2. e # r
    BY <2>1, <1>5 DEF EndsUpload
  <2> QED
    BY <2>1, <2>2, <1>4 DEF EndsUpload, Acked
<1>9. ASSUME NEW q \in Requests
      PROVE  Drops(q)' /\ (At(q, "find")' => q \notin objects')
  <2>1. Drops(q) /\ (At(q, "find") => q \notin objects)
    BY DEF LeftInv
  <2> QED
    BY <2>1, <1>2, <1>3, <1>4, <1>5 DEF Drops, At
<1>10. ASSUME NEW o \in objects', Alone(o)'
       PROVE  /\ At(o, "done")' => o \in parts'
              /\ \A e \in Requests : Knows(e, o)'
  <2>1. o \in objects /\ o \in Requests /\ o # r
    BY <1>2, <1>5
  <2>2. Alone(o)
    BY <1>6, <1>7, <1>10, <2>1, AloneBefore
  <2>3. /\ At(o, "done") => o \in parts
        /\ \A e \in Requests : Knows(e, o)
    BY <2>1, <2>2 DEF LeftInv
  <2> QED
    BY <2>1, <2>3, <1>2, <1>3, <1>4 DEF Knows, At
<1> QED
  BY <1>2, <1>8, <1>9, <1>10 DEF LeftInv

LEMMA LeftByStep ==
  ASSUME IInv, LeftInv, [Next]_vars
  PROVE  LeftInv'
<1>1. faults \in Nat
  BY DEF IInv, TypeOK
<1>2. CASE faults' # 0
  BY <1>2 DEF LeftInv
<1>3. CASE faults' = 0
  <2>1. CASE UNCHANGED vars
    BY <2>1 DEF vars, LeftInv, EndsUpload, Acked, Drops, Knows, Alone, Overlap, At
  <2>2. CASE CreateMultipartUpload
    <3>1. /\ faults = 0 /\ upload' = "open"
          /\ UNCHANGED <<parts, objects, published, req, faults>>
      BY <1>3, <2>2 DEF CreateMultipartUpload
    <3>2. \A r \in Requests : Drops(r)' /\ (At(r, "find")' => r \notin objects')
      BY <3>1 DEF LeftInv, Drops, At
    <3>3. \A o \in objects' : Alone(o)' =>
            /\ At(o, "done")' => o \in parts'
            /\ \A e \in Requests : Knows(e, o)'
      BY <3>1 DEF LeftInv, Knows, Alone, Overlap, At
    <3> QED
      BY <3>1, <3>2, <3>3 DEF LeftInv
  <2>3. ASSUME NEW r \in Requests, BeginStep(r) PROVE LeftInv'
    <3>1. ASSUME NEW asked, Begin(r, asked) PROVE faults = 0
      BY <1>3, <3>1 DEF Begin, Step
    <3>2. CASE BeginUploadPart(r)
      BY <3>1, <3>2, AskTypes, LeftByBegin DEF BeginUploadPart
    <3>3. CASE BeginComplete(r)
      <4>1. PICK listed \in SUBSET Numbers :
              \E want \in [listed -> Payloads] :
                Begin(r, [Idle EXCEPT !.op = "complete", !.want = want])
        BY <3>3 DEF BeginComplete
      <4>2. [listed -> Payloads] \subseteq Lists(Payloads)
        BY DEF Lists
      <4> QED
        BY <3>1, <4>1, <4>2, AskTypes, LeftByBegin
    <3>4. CASE BeginAbort(r)
      BY <3>1, <3>4, AskTypes, LeftByBegin DEF BeginAbort
    <3> QED
      BY <2>3, <3>2, <3>3, <3>4 DEF BeginStep
  <2>4. ASSUME NEW r \in Requests, RequestStep(r) PROVE LeftInv'
    <3>1. ASSUME NEW x, Step(r, x) \/ Fault(r, x) PROVE faults = 0
      BY <1>1, <1>3, <3>1 DEF Step, Fault
    <3>2. CASE GetMultipartUpload(r)
      BY <3>1, <3>2, LeftByGetMultipartUpload DEF GetMultipartUpload
    <3>3. CASE PutPart(r)
      BY <1>3, <3>1, <3>3, LeftByPutPart DEF PutPart, Replied
    <3>4. CASE SearchPart(r)
      BY <3>1, <3>4, LeftBySearchPart DEF SearchPart
    <3>5. CASE AddPart(r)
      BY <1>3, <3>1, <3>5, LeftByAddPart DEF AddPart, Replied
    <3>6. CASE GetParts(r)
      BY <3>1, <3>6, LeftByGetParts DEF GetParts
    <3>7. CASE ReadPart(r)
      BY <3>1, <3>7, LeftByReadPart DEF ReadPart
    <3>8. CASE PutObject(r)
      BY <1>3, <3>1, <3>8, LeftByPutObject DEF PutObject, Replied
    <3>9. CASE DropPart(r)
      BY <1>3, <3>1, <3>9, LeftByDropPart DEF DropPart
    <3>10. CASE RemoveUpload(r)
      BY <1>3, <3>1, <3>10, LeftByRemoveUpload DEF RemoveUpload, Replied
    <3> QED
      BY <2>4, <3>2, <3>3, <3>4, <3>5, <3>6, <3>7, <3>8, <3>9, <3>10
         DEF RequestStep, UploadPartStep, EndStep
  <2>5. ASSUME NEW r \in Requests, CallFails(r) PROVE FALSE
    BY <1>1, <1>3, <2>5 DEF CallFails, Fault
  <2>6. CASE Crash
    BY <1>1, <1>3, <2>6 DEF Crash
  <2> QED
    BY <2>1, <2>2, <2>3, <2>4, <2>5, <2>6 DEF Next
<1> QED
  BY <1>2, <1>3

(* While nothing fails a part that nobody else uploads, and whose upload   *)
(* nobody ends meanwhile, keeps its node as long as its object.            *)
THEOREM LeftInvariantHolds == Spec => []LeftInv
<1>1. Init => LeftInv
  BY DEF Init, LeftInv, Idle, Drops, At
<1>2. IInv /\ LeftInv /\ [Next]_vars => LeftInv'
  BY LeftByStep
<1> QED
  BY <1>1, <1>2, InvariantHolds, PTL DEF Spec

(* With no failures the object of a part outlives its upload only if the   *)
(* part was uploaded again, or while the upload was ended.                 *)
THEOREM LeftoversOverlap == Spec => []LeftoverOnlyByOverlap
<1>1. IInv /\ LeftInv => LeftoverOnlyByOverlap
  <2> SUFFICES ASSUME IInv, LeftInv, upload = "removed", faults = 0,
                      \A r \in Requests : ~Active(r),
                      NEW o \in objects, Alone(o)
               PROVE  FALSE
    BY DEF LeftoverOnlyByOverlap, Alone
  <2>1. o \in Requests /\ req[o].op = "part" /\ ~Active(o)
    BY DEF IInv, TypeOK
  <2>2. At(o, "done")
    BY <2>1 DEF IInv, AtStep, Active, At
  <2>3. o \in parts
    BY <2>2 DEF LeftInv
  <2> QED
    BY <2>3 DEF IInv, TypeOK
<1> QED
  BY <1>1, InvariantHolds, LeftInvariantHolds, PTL
=============================================================================
