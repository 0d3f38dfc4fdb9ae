----------------------------- MODULE Multipart -----------------------------
(***************************************************************************)
(* One multipart upload: UploadPart (and UploadPartCopy, whose payload     *)
(* comes from another object), CompleteMultipartUpload and                 *)
(* AbortMultipartUpload, as api/layer/multipart_upload.go and AddPart,     *)
(* GetParts of internal/frostfs/tree.go run them: goroutines that keep the *)
(* payload of a part in FrostFS and its description in a node below the    *)
(* upload's node, in two calls, and end the upload in as many calls as it  *)
(* has parts, and more.  One action is one remote call, or one             *)
(* uninterrupted piece of local work.                                      *)
(*                                                                         *)
(* An UploadPart request r makes at most one object and one node, both     *)
(* with fresh ids: they are called r.                                      *)
(***************************************************************************)
EXTENDS Naturals, FiniteSets, Sequences

CONSTANTS
  Requests,    \* the requests of a behaviour, each made once
  None,        \* no node, no payload
  Upload,      \* node id of the upload
  Numbers,     \* part numbers
  Payloads,    \* part payloads; the ETag of a part is its payload's hash
  Small,       \* the payloads below uploadMinSize
  Parallel,    \* bound: requests in flight at the same time
  MaxFaults    \* bound: failed calls, lost replies and gateway crashes

ASSUME IdsDiffer == None \notin Requests /\ Upload \notin Requests
ASSUME NoneIsNoPayload == None \notin Payloads
ASSUME NoneIsNotUpload == None # Upload
ASSUME NumbersArePositive == Numbers \subseteq Nat \ {0}
ASSUME SmallArePayloads == Small \subseteq Payloads
ASSUME BoundsAreNaturals == Parallel \in Nat /\ MaxFaults \in Nat

VARIABLES
  upload,     \* the upload's node: "none", "open" or "removed"
  parts,      \* nodes below it
  objects,    \* part objects stored in FrostFS
  published,  \* Complete requests whose object got its version node
  req,        \* req[r]: progress of request r
  faults      \* faults so far

vars == <<upload, parts, objects, published, req, faults>>

---------------------------------------------------------------------------
(* op, num, data, want: what the client asked for - a part and its         *)
(* payload, or the ETags of the parts to assemble; pc: what it does next;  *)
(* found: AddPart's foundPartID; got: part number -> OID, as getUploadParts *)
(* returned it; todo: part numbers still to read or to drop; body: the     *)
(* parts streamed into the object so far; res: outcome; prior: requests    *)
(* finished when it began (history only).                                  *)
Idle == [op |-> "none", num |-> 0, data |-> None, want |-> <<>>,
         pc |-> "idle", found |-> None, got |-> <<>>, todo |-> {},
         body |-> <<>>, res |-> "none", prior |-> {}]

At(r, p)  == req[r].pc = p
Active(r) == req[r].pc \notin {"idle", "done"}
Finished  == {r \in Requests : req[r].pc = "done"}
Acked(r)  == req[r].res = "ok"

To(r, p)      == [req[r] EXCEPT !.pc = p]
Done(r, x)    == [req[r] EXCEPT !.pc = "done", !.res = x]
Step(r, next) == req' = [req EXCEPT ![r] = next] /\ UNCHANGED faults

Fault(r, next) == /\ faults < MaxFaults
                  /\ faults' = faults + 1
                  /\ req' = [req EXCEPT ![r] = next]

(* A call that changed its store: the reply arrives, or is lost and the    *)
(* caller sees an error.                                                   *)
Replied(r, next) == Step(r, next) \/ Fault(r, Done(r, "error"))

---------------------------------------------------------------------------
Init ==
  /\ upload = "none" /\ parts = {} /\ objects = {} /\ published = {}
  /\ req = [r \in Requests |-> Idle]
  /\ faults = 0

CreateMultipartUpload ==
  /\ upload = "none"
  /\ upload' = "open"
  /\ UNCHANGED <<parts, objects, published, req, faults>>

(* Clients know the id of the upload once it was created.                  *)
Begin(r, asked) ==
  /\ upload # "none"
  /\ At(r, "idle")
  /\ Cardinality({q \in Requests : Active(q)}) < Parallel
  /\ Step(r, [asked EXCEPT !.pc = "find", !.prior = Finished])
  /\ UNCHANGED <<upload, parts, objects, published>>

BeginUploadPart(r) ==
  \E n \in Numbers, d \in Payloads :
    Begin(r, [Idle EXCEPT !.op = "part", !.num = n, !.data = d])

(* Part lists in ascending order; CompleteMultipartUpload refuses others   *)
(* before it does anything.                                                *)
BeginComplete(r) ==
  \E listed \in SUBSET Numbers \ {{}} :
    \E want \in [listed -> Payloads] :
      Begin(r, [Idle EXCEPT !.op = "complete", !.want = want])

BeginAbort(r) == Begin(r, [Idle EXCEPT !.op = "abort"])

(* GetMultipartUpload, the first call of all three.                        *)
GetMultipartUpload(r) ==
  /\ At(r, "find")
  /\ Step(r, IF upload = "removed" THEN Done(r, "nosuchupload")
             ELSE To(r, IF req[r].op = "part" THEN "put" ELSE "parts"))
  /\ UNCHANGED <<upload, parts, objects, published>>

---------------------------------------------------------------------------
(* UploadPart *)

(* objectPutAndHash of uploadPart.                                         *)
PutPart(r) ==
  /\ At(r, "put")
  /\ objects' = objects \cup {r}
  /\ Replied(r, To(r, "search"))
  /\ UNCHANGED <<upload, parts, published>>

(* Part nodes AddPart takes for an earlier upload of the same part.        *)
SamePart(r) == {q \in parts : req[q].num = req[r].num}

(* The first half of AddPart.  Of several such nodes it takes the first in *)
(* the tree service's order.  Below a removed node the service may find    *)
(* nothing, or report an error.                                            *)
SearchPart(r) ==
  /\ At(r, "search")
  /\ \/ \E q \in IF SamePart(r) = {} THEN {None} ELSE SamePart(r) :
          Step(r, [req[r] EXCEPT !.pc = "add", !.found = q])
     \/ upload = "removed" /\ Step(r, Done(r, "error"))
  /\ UNCHANGED <<upload, parts, objects, published>>

(* The second half of AddPart.  foundPartID # multipartNodeID is its test  *)
(* for a part that was not found.  A node added below a removed one is out *)
(* of everybody's sight, if the tree service accepts it at all.            *)
AddPart(r) ==
  /\ At(r, "add")
  /\ IF req[r].found # Upload
     THEN /\ UNCHANGED objects
          /\ parts' = IF upload = "open" THEN parts \cup {r} ELSE parts
     ELSE /\ objects' = objects \ {req[r].found}
          /\ parts' = (parts \ {req[r].found}) \cup {r}
  /\ \/ Replied(r, Done(r, "ok"))
     \/ upload = "removed" /\ Step(r, Done(r, "error"))
  /\ UNCHANGED <<upload, published>>

---------------------------------------------------------------------------
(* CompleteMultipartUpload and AbortMultipartUpload *)

(* What getUploadParts may make of the part nodes: the last of the nodes   *)
(* with the same number wins, and their order is the tree service's.       *)
PartsByNumber ==
  LET numbers == {req[q].num : q \in parts}
  IN {f \in [numbers -> parts] : \A n \in numbers : req[f[n]].num = n}

(* Every listed part is there with that ETag, and only the last is small.  *)
Assembles(want, got) ==
  /\ DOMAIN want \subseteq DOMAIN got
  /\ \A n \in DOMAIN want :
       /\ req[got[n]].data = want[n]
       /\ want[n] \in Small => \A m \in DOMAIN want : m <= n

(* Mutant: the parts are dropped before the object is put.                 *)
CollectAndDrop(r, got) ==
  [req[r] EXCEPT !.pc = "drop", !.got = got, !.todo = DOMAIN got]

Collect(r, got) ==
  IF req[r].op = "abort"
  THEN [req[r] EXCEPT !.pc = "drop", !.got = got, !.todo = DOMAIN got]
  ELSE IF Assembles(req[r].want, got)
  THEN [req[r] EXCEPT !.pc = "read", !.got = got,
                      !.todo = DOMAIN req[r].want]
  ELSE Done(r, "invalidpart")

GetParts(r) ==
  /\ At(r, "parts")
  /\ \/ \E got \in PartsByNumber : Step(r, Collect(r, got))
     \/ upload = "removed" /\ Step(r, Done(r, "error"))
  /\ UNCHANGED <<upload, parts, objects, published>>

(* Mutant: a part that is gone ends like one that was read to its end.     *)
ReadPartOrSkip(r) ==
  /\ At(r, "read")
  /\ \E n \in req[r].todo :
       /\ \A m \in req[r].todo : n <= m
       /\ Step(r, [req[r] EXCEPT
                    !.todo = @ \ {n},
                    !.body = IF req[r].got[n] \in objects
                             THEN Append(@, req[r].got[n]) ELSE @])
  /\ UNCHANGED <<upload, parts, objects, published>>

(* PutObject streams the parts, in their order, into the object to be      *)
(* (multiObjectReader); a part whose object is gone fails it.              *)
ReadPart(r) ==
  /\ At(r, "read")
  /\ \E n \in req[r].todo :
       /\ \A m \in req[r].todo : n <= m
       /\ Step(r, IF req[r].got[n] \in objects
                  THEN [req[r] EXCEPT !.todo = @ \ {n},
                                      !.body = Append(@, req[r].got[n])]
                  ELSE Done(r, "error"))
  /\ UNCHANGED <<upload, parts, objects, published>>

(* Mutant: Complete drops the parts it assembled, not all it was told of.  *)
PutObjectDropListed(r) ==
  /\ At(r, "read") /\ req[r].todo = {}
  /\ published' = published \cup {r}
  /\ Replied(r, [req[r] EXCEPT !.pc = "drop", !.todo = DOMAIN req[r].want])
  /\ UNCHANGED <<upload, parts, objects>>

(* ... and adds the version of the object that is complete now.            *)
PutObject(r) ==
  /\ At(r, "read") /\ req[r].todo = {}
  /\ published' = published \cup {r}
  /\ Replied(r, [req[r] EXCEPT !.pc = "drop", !.todo = DOMAIN req[r].got])
  /\ UNCHANGED <<upload, parts, objects>>

(* The part objects go, in any order; what fails is logged and left.       *)
DropPart(r) ==
  /\ At(r, "drop")
  /\ \E n \in req[r].todo :
       LET next == [req[r] EXCEPT !.todo = @ \ {n}]
       IN \/ /\ objects' = objects \ {req[r].got[n]}
             /\ Step(r, next) \/ Fault(r, next)
          \/ UNCHANGED objects /\ Fault(r, next)
  /\ UNCHANGED <<upload, parts, published>>

(* Mutant: the upload's node is left behind.                               *)
KeepUpload(r) ==
  /\ At(r, "drop") /\ req[r].todo = {}
  /\ Step(r, Done(r, "ok"))
  /\ UNCHANGED <<upload, parts, objects, published>>

(* DeleteMultipartUpload takes the upload's node and all below it.  The    *)
(* tree service may refuse to remove a node that is already gone.          *)
RemoveUpload(r) ==
  /\ At(r, "drop") /\ req[r].todo = {}
  /\ upload' = "removed"
  /\ parts' = {}
  /\ \/ Replied(r, Done(r, "ok"))
     \/ upload = "removed" /\ Step(r, Done(r, "error"))
  /\ UNCHANGED <<objects, published>>

---------------------------------------------------------------------------
(* The environment *)

(* A call that fails without reaching its store, and ends its handler.     *)
CallFails(r) ==
  /\ \/ req[r].pc \in {"find", "put", "search", "add", "parts", "read"}
     \/ At(r, "drop") /\ req[r].todo = {}
  /\ Fault(r, Done(r, "error"))
  /\ UNCHANGED <<upload, parts, objects, published>>

(* The gateway restarts: its requests are gone.                            *)
Crash ==
  /\ faults < MaxFaults
  /\ faults' = faults + 1
  /\ \E r \in Requests : Active(r)
  /\ req' = [r \in Requests |-> IF Active(r) THEN Done(r, "crashed")
                                             ELSE req[r]]
  /\ UNCHANGED <<upload, parts, objects, published>>

---------------------------------------------------------------------------
UploadPartStep(r) == PutPart(r) \/ SearchPart(r) \/ AddPart(r)

EndStep(r) == \/ GetParts(r) \/ ReadPart(r) \/ PutObject(r)
              \/ DropPart(r) \/ RemoveUpload(r)

BeginStep(r) == BeginUploadPart(r) \/ BeginComplete(r) \/ BeginAbort(r)

RequestStep(r) == GetMultipartUpload(r) \/ UploadPartStep(r) \/ EndStep(r)

Next ==
  \/ CreateMultipartUpload
  \/ \E r \in Requests : BeginStep(r) \/ RequestStep(r) \/ CallFails(r)
  \/ Crash

Spec == Init /\ [][Next]_vars

---------------------------------------------------------------------------
(* Properties *)

Lists(range) == UNION {[numbers -> range] : numbers \in SUBSET Numbers}

Request ==
  [op : {"none", "part", "complete", "abort"},
   num : Numbers \cup {0}, data : Payloads \cup {None},
   want : Lists(Payloads),
   pc : {"idle", "find", "put", "search", "add", "parts", "read", "drop",
         "done"},
   found : Requests \cup {None}, got : Lists(Requests),
   todo : SUBSET Numbers, body : Seq(Requests),
   res : {"none", "ok", "error", "nosuchupload", "invalidpart", "crashed"},
   prior : SUBSET Requests]

(* Part nodes lie below the upload's node only, objects are those of       *)
(* UploadPart requests, and every request is at a step of its handler      *)
(* (data.MultipartInfo, data.PartInfo).                                    *)
TypeOK ==
  /\ upload \in {"none", "open", "removed"}
  /\ parts \subseteq {r \in Requests : req[r].op = "part"}
  /\ parts # {} => upload = "open"
  /\ objects \subseteq {r \in Requests : req[r].op = "part"}
  /\ published \subseteq {r \in Requests : req[r].op = "complete"}
  /\ req \in [Requests -> Request]
  /\ faults \in Nat

(* What was streamed into a completed object is what its client listed:    *)
(* every listed part, in ascending order, each once, none else, each with  *)
(* the payload of the listed ETag, and none but the last small - whatever  *)
(* parts were uploaded again, dropped by others or replaced between the    *)
(* look at their nodes and the reading of their objects.                   *)
CompletedAsListed ==
  \A r \in published :
    LET want == req[r].want
        body == req[r].body
    IN /\ \A n \in DOMAIN want : \E i \in DOMAIN body : req[body[i]].num = n
       /\ \A i \in DOMAIN body :
            LET part == req[body[i]]
            IN /\ part.num \in DOMAIN want /\ part.data = want[part.num]
               /\ part.data \in Small => i = Len(body)
               /\ \A j \in DOMAIN body : i < j => part.num < req[body[j]].num

(* A part that is listed but whose payload is gone was dropped by an Abort *)
(* or by a Complete whose object is stored: a Complete that failed before  *)
(* can be made again, a Complete never loses the only copy of the data.    *)
PartsOutliveFailedComplete ==
  \A p \in parts \ objects :
    \E r \in Requests :
      /\ p \in {req[r].got[n] : n \in DOMAIN req[r].got}
      /\ req[r].op = "abort" \/ r \in published

(* An upload ends once: after an acknowledged Complete or Abort no request *)
(* on it that begins later is acknowledged - no part, no second Complete.  *)
NothingAfterTheEnd ==
  \A e, r \in Requests :
    Acked(e) /\ req[e].op \in {"complete", "abort"} /\ e \in req[r].prior
      => ~Acked(r)

Overlap(q, r) == q \notin req[r].prior /\ r \notin req[q].prior

(* With no failures, a part object outlives its upload only if the same    *)
(* part was uploaded more than once, or the UploadPart ran at the same     *)
(* time as the Complete or Abort that ended the upload.                    *)
LeftoverOnlyByOverlap ==
  upload = "removed" /\ faults = 0 /\ (\A r \in Requests : ~Active(r)) =>
    \A o \in objects :
      \E q \in Requests \ {o} :
        \/ req[q].op = "part" /\ req[q].num = req[o].num
        \/ req[q].op \in {"complete", "abort"} /\ Overlap(o, q)

(* The object of a part that was uploaded again is deleted                 *)
(* (api/layer/tree_service.go:71, AddPart returns it for this).            *)
ReplacedPartIsDeleted ==
  \A q, r \in Requests :
    /\ req[q].op = "part" /\ req[r].op = "part" /\ req[q].num = req[r].num
    /\ Acked(q) /\ Acked(r) /\ q \in req[r].prior
    => q \notin objects

---------------------------------------------------------------------------
(* The inductive invariant they rest on                                    *)

(* What the step a handler is at says of its request.                      *)
AtStep(x) ==
  /\ x.pc = "idle" <=> x.op = "none"
  /\ x.pc = "idle" => x = Idle
  /\ x.pc \in {"put", "search", "add"} => x.op = "part"
  /\ x.pc \in {"parts", "drop"} => x.op \in {"complete", "abort"}
  /\ x.pc = "read" => x.op = "complete"
  /\ x.op = "part" => x.num \in Numbers
  /\ x.pc \in {"find", "put", "search", "add", "parts"} => x.got = <<>>
  /\ x.pc = "drop" => x.todo \subseteq DOMAIN x.got
  /\ x.pc # "done" => x.res = "none"

(* The object of a part is stored before its node is.                      *)
StoredFirst(r) == req[r].pc \in {"search", "add"} => r \in objects

(* What getUploadParts returned are parts whose upload is over; Complete   *)
(* goes on only with those its client listed, and drops none before its    *)
(* object is published.                                                    *)
Collected(r) ==
  /\ \A n \in DOMAIN req[r].got :
       At(req[r].got[n], "done") /\ req[req[r].got[n]].op = "part"
  /\ (At(r, "read") \/ r \in published) =>
       Assembles(req[r].want, req[r].got)
  /\ At(r, "drop") => req[r].op = "abort" \/ r \in published
  /\ r \in published => req[r].pc \in {"drop", "done"}

(* An acknowledged end has removed the upload, and whoever began after it  *)
(* gets no further than the first call.                                    *)
EndsUpload(e) == Acked(e) /\ req[e].op \in {"complete", "abort"}

EndedFor(r) ==
  /\ EndsUpload(r) => upload = "removed"
  /\ (\E e \in req[r].prior : EndsUpload(e)) =>
       \/ At(r, "find")
       \/ At(r, "done") /\ ~Acked(r)

PriorFinished(r) == \A q \in req[r].prior : At(q, "done")

(* All of them in every reachable state, whatever overlaps, fails or       *)
(* crashes; what makes the properties above inductive: part nodes and what *)
(* a Complete or Abort has collected belong to finished UploadParts, whose *)
(* payload and number no step changes any more.                            *)
IInv ==
  /\ TypeOK
  /\ \A p \in parts : At(p, "done")
  /\ PartsOutliveFailedComplete
  /\ \A r \in Requests :
       /\ AtStep(req[r])
       /\ StoredFirst(r)
       /\ Collected(r)
       /\ EndedFor(r)
       /\ PriorFinished(r)

---------------------------------------------------------------------------
(* The invariant behind CompletedAsListed, inductive with IInv             *)

(* Complete x has streamed the parts it collected for the listed numbers   *)
(* but those left, in ascending order.                                     *)
Streamed(x, left) ==
  LET read == DOMAIN x.want \ left IN
  /\ left \subseteq DOMAIN x.want
  /\ \A n \in read, m \in left : n < m
  /\ \A n \in read : \E i \in DOMAIN x.body : x.body[i] = x.got[n]
  /\ \A i \in DOMAIN x.body : \E n \in read : x.body[i] = x.got[n]
  /\ \A i, j \in DOMAIN x.body :
       i < j => req[x.body[i]].num < req[x.body[j]].num

BodyInv ==
  \A r \in Requests :
    LET x == req[r] IN
    /\ x.pc \in {"idle", "find", "put", "search", "add", "parts"} =>
         x.body = <<>>
    /\ \A n \in DOMAIN x.got : req[x.got[n]].num = n
    /\ At(r, "read") => Streamed(x, x.todo)
    /\ r \in published => Streamed(x, {})

---------------------------------------------------------------------------
(* The invariant behind LeftoverOnlyByOverlap, inductive with IInv         *)

(* No other request carries part o, none ends the upload while o runs.     *)
Alone(o) ==
  \A q \in Requests \ {o} :
    /\ req[q].op = "part" => req[q].num # req[o].num
    /\ req[q].op \in {"complete", "abort"} => ~Overlap(o, q)

(* Whoever ends the upload after o was uploaded was told of o ...          *)
Knows(e, o) ==
  req[e].pc \in {"read", "drop"} /\ o \in req[e].prior =>
    req[o].num \in DOMAIN req[e].got /\ req[e].got[req[o].num] = o

(* ... and drops, one by one, the objects of all it was told of.           *)
Drops(e) ==
  At(e, "drop") =>
    \A n \in DOMAIN req[e].got \ req[e].todo : req[e].got[n] \notin objects

(* So while nothing fails the object of an uploaded part has its node.     *)
LeftInv ==
  faults = 0 =>
    /\ upload = "none" => \A r \in Requests : At(r, "idle")
    /\ upload = "removed" => \E e \in Requests : EndsUpload(e)
    /\ \A r \in Requests : Drops(r) /\ (At(r, "find") => r \notin objects)
    /\ \A o \in objects : Alone(o) =>
         /\ At(o, "done") => o \in parts
         /\ \A e \in Requests : Knows(e, o)
=============================================================================
