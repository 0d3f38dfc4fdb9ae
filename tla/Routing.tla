------------------------------ MODULE Routing ------------------------------
(***************************************************************************)
(* Which operation a request is (api/router.go), how it is billed          *)
(* (api/metrics.go), and the answers that let a browser use it             *)
(* (api/handler/cors.go, api/layer/cors.go).                               *)
(***************************************************************************)
EXTENDS Naturals, FiniteSets, Sequences, SequencesExt

CONSTANTS
  Requests,
  Queries,     \* the names of queries a request may carry
  Configs,     \* the CORS configurations a bucket may have
  Origins,     \* the origins browsers come from
  None,
  MaxQueries,  \* bound: queries in one request
  MaxPuts      \* bound: changes of the CORS configuration

VARIABLES
  cors,        \* the configuration of the bucket: a sequence of rules, or None
  puts,
  req          \* req[r]

vars == <<cors, puts, req>>

Methods == {"OPTIONS", "HEAD", "GET", "PUT", "POST", "DELETE"}
Wildcard == "*"

----------------------------------------------------------------------------
(* The routes, in the order they are registered in. "queries" names those  *)
(* that must be there (with the value the route asks for, if it asks for   *)
(* one), "object" says that the path must name an object, "header" that    *)
(* the copy source, or a form as content, must be there.                   *)
Route(op, method, queries) ==
  [op |-> op, method |-> method, queries |-> queries, object |-> FALSE, header |-> None]
OnObject(op, method, queries) == [Route(op, method, queries) EXCEPT !.object = TRUE]
OfCopy(route) == [route EXCEPT !.header = "copy"]

ObjectRoutes == <<
  Route("Options", "OPTIONS", {}),
  OnObject("HeadObject", "HEAD", {}),
  OfCopy(OnObject("UploadPartCopy", "PUT", {"partNumber", "uploadId"})),
  OnObject("UploadPart", "PUT", {"partNumber", "uploadId"}),
  OnObject("ListObjectParts", "GET", {"uploadId"}),
  OnObject("CompleteMultipartUpload", "POST", {"uploadId"}),
  OnObject("CreateMultipartUpload", "POST", {"uploads"}),
  OnObject("AbortMultipartUpload", "DELETE", {"uploadId"}),
  Route("ListMultipartUploads", "GET", {"uploads"}),
  OnObject("GetObjectACL", "GET", {"acl"}),
  OnObject("PutObjectACL", "PUT", {"acl"}),
  OnObject("GetObjectTagging", "GET", {"tagging"}),
  OnObject("PutObjectTagging", "PUT", {"tagging"}),
  OnObject("DeleteObjectTagging", "DELETE", {"tagging"}),
  OnObject("SelectObjectContent", "POST", {"select", "select-type"}),
  OnObject("GetObjectRetention", "GET", {"retention"}),
  OnObject("GetObjectLegalHold", "GET", {"legal-hold"}),
  OnObject("GetObjectAttributes", "GET", {"attributes"}),
  OnObject("GetObject", "GET", {}),
  OfCopy(OnObject("CopyObject", "PUT", {})),
  OnObject("PutObjectRetention", "PUT", {"retention"}),
  OnObject("PutObjectLegalHold", "PUT", {"legal-hold"}),
  OnObject("PutObject", "PUT", {}),
  OnObject("DeleteObject", "DELETE", {}) >>

BucketRoutes == <<
  Route("GetBucketLocation", "GET", {"location"}),
  Route("GetBucketPolicy", "GET", {"policy"}),
  Route("GetBucketLifecycle", "GET", {"lifecycle"}),
  Route("GetBucketEncryption", "GET", {"encryption"}),
  Route("GetBucketCors", "GET", {"cors"}),
  Route("PutBucketCors", "PUT", {"cors"}),
  Route("DeleteBucketCors", "DELETE", {"cors"}),
  Route("GetBucketACL", "GET", {"acl"}),
  Route("PutBucketACL", "PUT", {"acl"}),
  Route("GetBucketWebsite", "GET", {"website"}),
  Route("GetBucketAccelerate", "GET", {"accelerate"}),
  Route("GetBucketRequestPayment", "GET", {"requestPayment"}),
  Route("GetBucketLogging", "GET", {"logging"}),
  Route("GetBucketReplication", "GET", {"replication"}),
  Route("GetBucketTagging", "GET", {"tagging"}),
  Route("DeleteBucketWebsite", "DELETE", {"website"}),
  Route("DeleteBucketTagging", "DELETE", {"tagging"}) >>

ListRoutes == <<
  Route("GetBucketObjectLockConfig", "GET", {"object-lock"}),
  Route("GetBucketVersioning", "GET", {"versioning"}),
  Route("GetBucketNotification", "GET", {"notification"}),
  Route("ListenBucketNotification", "GET", {"events"}),
  Route("ListObjectsV2M", "GET", {"list-type", "metadata"}),
  Route("ListObjectsV2", "GET", {"list-type"}),
  Route("ListBucketVersions", "GET", {"versions"}),
  Route("ListObjectsV1", "GET", {}) >>

BucketChanges == <<
  Route("PutBucketLifecycle", "PUT", {"lifecycle"}),
  Route("PutBucketEncryption", "PUT", {"encryption"}),
  Route("PutBucketPolicy", "PUT", {"policy"}),
  Route("PutBucketObjectLockConfig", "PUT", {"object-lock"}),
  Route("PutBucketTagging", "PUT", {"tagging"}),
  Route("PutBucketVersioning", "PUT", {"versioning"}),
  Route("PutBucketNotification", "PUT", {"notification"}),
  Route("CreateBucket", "PUT", {}),
  Route("HeadBucket", "HEAD", {}),
  [Route("PostObject", "POST", {}) EXCEPT !.header = "form"],
  Route("DeleteMultipleObjects", "POST", {"delete"}),
  Route("DeleteBucketPolicy", "DELETE", {"policy"}),
  Route("DeleteBucketLifecycle", "DELETE", {"lifecycle"}),
  Route("DeleteBucketEncryption", "DELETE", {"encryption"}),
  Route("DeleteBucket", "DELETE", {}) >>

Routes == ObjectRoutes \o BucketRoutes \o ListRoutes \o BucketChanges

Plain == {"GetObject", "CopyObject", "PutObject", "DeleteObject", "ListObjectsV1",
          "CreateBucket", "DeleteBucket"}

(* Mutant: one of the queries is enough.                                   *)
MatchesAny(q, route) ==
  /\ q.method = route.method
  /\ route.queries = {} \/ route.queries \cap q.queries # {}
  /\ route.object => q.level = "object"
  /\ route.header = None \/ route.header = q.header

Matches(q, route) ==
  /\ q.method = route.method
  /\ route.queries \subseteq q.queries
  /\ route.object => q.level = "object"
  /\ route.header = None \/ route.header = q.header

(* The first route that matches.                                           *)
OperationOf(q) ==
  LET i == SelectInSeq(Routes, LAMBDA route : Matches(q, route))
  IN IF q.level = "root" /\ q.method = "GET" THEN "ListBuckets"
     ELSE IF q.level = "root" \/ i = 0 THEN "MethodNotAllowed"
     ELSE Routes[i].op

(* The kind of request an operation is billed as, by RequestTypeFromAPI.   *)
PutOps == {"CreateMultipartUpload", "UploadPartCopy", "UploadPart",
  "CompleteMultipartUpload", "PutObjectACL", "PutObjectTagging", "CopyObject",
  "PutObjectRetention", "PutObjectLegalHold", "PutObject", "PutBucketCors",
  "PutBucketACL", "PutBucketLifecycle", "PutBucketEncryption", "PutBucketPolicy",
  "PutBucketObjectLockConfig", "PutBucketTagging", "PutBucketVersioning",
  "PutBucketNotification", "CreateBucket", "PostObject"}
ListOps == {"ListObjectParts", "ListMultipartUploads", "ListObjectsV2M",
  "ListObjectsV2", "ListBucketVersions", "ListObjectsV1", "ListBuckets"}
GetOps == {"GetObjectACL", "GetObjectTagging", "SelectObjectContent",
  "GetObjectRetention", "getobjectlegalhold", "GetObjectAttributes", "GetObject",
  "GetBucketLocation", "GetBucketPolicy", "GetBucketLifecycle",
  "GetBucketEncryption", "GetBucketCors", "GetBucketACL", "GetBucketWebsite",
  "GetBucketAccelerate", "GetBucketRequestPayment", "GetBucketLogging",
  "GetBucketReplication", "GetBucketTagging", "GetBucketObjectLockConfig",
  "GetBucketVersioning", "GetBucketNotification", "ListenBucketNotification"}
DeleteOps == {"AbortMultipartUpload", "DeleteObjectTagging", "DeleteObject",
  "DeleteBucketCors", "DeleteBucketWebsite", "DeleteBucketTagging",
  "DeleteMultipleObjects", "DeleteBucketPolicy", "DeleteBucketLifecycle",
  "DeleteBucketEncryption", "DeleteBucket"}

RequestTypeFromAPI(op) ==
  IF op \in {"Options", "HeadObject", "HeadBucket"} THEN "HEAD"
  ELSE IF op \in PutOps THEN "PUT" ELSE IF op \in ListOps THEN "LIST"
  ELSE IF op \in GetOps THEN "GET" ELSE IF op \in DeleteOps THEN "DELETE"
  ELSE "UNKNOWN"

----------------------------------------------------------------------------
(* CORS. A rule: origins, methods and headers, sequences.                  *)
Has(seq, x) == \E i \in DOMAIN seq : seq[i] = x

(* PutBucketCORS takes rules whose methods it knows (checkCORS).           *)
Valid(config) ==
  /\ config # <<>>
  /\ \A i \in DOMAIN config :
       Range(config[i].methods) \subseteq {"GET", "PUT", "HEAD", "POST", "DELETE"}

Places(config) == UNION {{i} \X DOMAIN config[i].origins : i \in DOMAIN config}
Before(p, q) == p[1] < q[1] \/ (p[1] = q[1] /\ p[2] <= q[2])
FirstOf(places) == CHOOSE p \in places : \A q \in places : Before(p, q)

(* The origins, in the order of the loops, that speak for the request.     *)
Fitting(config, origin, method) ==
  {p \in Places(config) :
     /\ config[p[1]].origins[p[2]] \in {origin, Wildcard}
     /\ Has(config[p[1]].methods, method)}
OriginAt(config, p) == config[p[1]].origins[p[2]]

Silent == [origin |-> None, credentials |-> FALSE]

(* Mutant: the wildcard is answered as it stands, signed or not.           *)
AppendWildcard(config, q) ==
  LET found == Fitting(config, q.origin, q.method)
      o == OriginAt(config, FirstOf(found))
  IN IF found = {} THEN Silent ELSE [origin |-> o, credentials |-> o # Wildcard]

AppendCORSHeaders(config, q) ==
  LET found == Fitting(config, q.origin, q.method)
      o == OriginAt(config, FirstOf(found))
  IN IF found = {} THEN Silent
     ELSE IF o = Wildcard /\ ~q.signed THEN [origin |-> Wildcard, credentials |-> FALSE]
     ELSE [origin |-> q.origin, credentials |-> TRUE]

(* checkSubslice                                                           *)
HeadersAllowed(allowed, headers) ==
  \/ Has(allowed, Wildcard)
  \/ Len(headers) <= Len(allowed) /\ \A i \in DOMAIN headers : Has(allowed, headers[i])

(* Without an origin the error is written and the loops still run: what    *)
(* they write comes after the answer.                                      *)
Preflight(config, q) ==
  LET found == {p \in Fitting(config, q.origin, q.method) :
                  HeadersAllowed(config[p[1]].headers, q.headers)}
      o == OriginAt(config, FirstOf(found))
  IN IF found = {} \/ q.origin = None THEN Silent
     ELSE [origin |-> o, credentials |-> o # Wildcard]

----------------------------------------------------------------------------
NoQuestion == [level |-> "root", method |-> "GET", queries |-> {}, header |-> None,
               origin |-> None, headers |-> <<>>, signed |-> FALSE]
Idle == [pc |-> "idle", q |-> NoQuestion, op |-> None, asked |-> None, preflight |-> Silent,
         answer |-> Silent, changed |-> FALSE, failed |-> FALSE]

Init == /\ cors = None /\ puts = 0 /\ req = [r \in Requests |-> Idle]

Update(r, rec) == req' = [req EXCEPT ![r] = rec]

(* A client sends a request; a browser asks for its page first.            *)
Arrive(r) ==
  /\ req[r].pc = "idle"
  /\ \E queries \in UNION {kSubset(k, Queries) : k \in 0 .. MaxQueries} :
     \E level \in {"root", "bucket", "object"}, method \in Methods, header \in {None, "copy", "form"} :
       Update(r, [Idle EXCEPT !.pc = "route",
         !.q = [NoQuestion EXCEPT !.level = level, !.method = method,
                                  !.queries = queries, !.header = header]])
  /\ UNCHANGED <<cors, puts>>

Browse(r) ==
  /\ req[r].pc = "idle"
  /\ \E method \in Methods \ {"OPTIONS"}, origin \in Origins \cup {None}, signed \in BOOLEAN :
     \E headers \in {<<>>, <<"h">>, <<"h", "k">>} :
       Update(r, [Idle EXCEPT !.pc = "preflight",
         !.q = [NoQuestion EXCEPT !.level = "object", !.method = method, !.origin = origin,
                                  !.headers = headers, !.signed = signed]])
  /\ UNCHANGED <<cors, puts>>

(* The handler of OPTIONS. Its bucket or its configuration may not be read.*)
AskPreflight(r) ==
  /\ req[r].pc = "preflight"
  /\ \/ /\ cors # None
        /\ Update(r, [req[r] EXCEPT !.pc = "route", !.asked = cors,
                                    !.preflight = Preflight(cors, req[r].q)])
     \/ Update(r, [req[r] EXCEPT !.pc = "route"])
  /\ UNCHANGED <<cors, puts>>

(* The request itself: its route, then appendCORS.                         *)
Serve(r) ==
  /\ req[r].pc = "route"
  /\ LET q == req[r].q
         told == IF cors = None \/ q.origin = None \/ q.method = "OPTIONS" \/ q.level = "root"
                 THEN Silent ELSE AppendCORSHeaders(cors, q)
     IN \/ Update(r, [req[r] EXCEPT !.pc = "done", !.op = OperationOf(q), !.answer = told])
        \/ /\ told # Silent
           /\ Update(r, [req[r] EXCEPT !.pc = "done", !.op = OperationOf(q), !.failed = TRUE])
  /\ UNCHANGED <<cors, puts>>

(* PutBucketCORS and DeleteBucketCORS, as BucketConfig has them in detail. *)
PutCORS ==
  /\ puts < MaxPuts /\ puts' = puts + 1
  /\ \E c \in {d \in Configs : Valid(d)} \cup {None} : c # cors /\ cors' = c
  /\ req' = [r \in Requests |-> [req[r] EXCEPT !.changed = @ \/ req[r].asked # None]]

Next == PutCORS \/ \E r \in Requests :
          Arrive(r) \/ Browse(r) \/ AskPreflight(r) \/ Serve(r)

Spec == Init /\ [][Next]_vars

----------------------------------------------------------------------------
(* Every request is of a kind its record can be in.                        *)
TypeOK ==
  /\ cors \in Configs \cup {None} /\ puts \in 0 .. MaxPuts
  /\ \A r \in Requests :
       /\ req[r].pc \in {"idle", "preflight", "route", "done"}
       /\ req[r].q.method \in Methods /\ req[r].q.queries \subseteq Queries

Done(r) == req[r].pc = "done" /\ req[r].q.level # "root"

(* Routes are tried in the order they are registered in: one never keeps   *)
(* another from the requests that are exactly its own, and a request that  *)
(* names all a more particular route asks for is never served as a plain   *)
(* one (router.go:262-585). PutObjectRetention and PutObjectLegalHold come *)
(* after CopyObject.                                                       *)
OwnRequestsReachTheirRoute ==
  \A r \in Requests : Done(r) =>
    LET q == req[r].q IN
    \A route \in ToSet(Routes) :
      /\ (/\ q.method = route.method /\ q.queries = route.queries
          /\ q.header = route.header /\ route.object = (q.level = "object"))
         => req[r].op = route.op
      /\ (/\ req[r].op \in Plain /\ q.method = route.method
          /\ route.queries \subseteq q.queries /\ route.header \in {None, q.header})
         => \/ route.queries = {}
            \/ route.op \in {"PutObjectRetention", "PutObjectLegalHold"} /\ q.header = "copy"
            \/ route.object # (q.level = "object")

(* What is served is billed as what it is: a request that reads is never   *)
(* counted as one that writes or deletes, and every operation counts as    *)
(* something (metrics.go:49) - but GetObjectLegalHold, whose name is       *)
(* misspelt there.                                                         *)
BilledAsWhatItIs ==
  \A r \in Requests : (Done(r) /\ req[r].op \notin {"MethodNotAllowed", "GetObjectLegalHold"}) =>
    LET type == RequestTypeFromAPI(req[r].op)
        method == req[r].q.method IN
    /\ type # "UNKNOWN"
    /\ type \in {"GET", "LIST"} => method = "GET" \/ req[r].op = "SelectObjectContent"
    /\ type = "PUT" => method \in {"PUT", "POST"}
    /\ type = "DELETE" => method = "DELETE" \/ req[r].op = "DeleteMultipleObjects"

(* A browser that was allowed a request by its preflight can read the      *)
(* answer: the answer names its origin, and allows credentials when the    *)
(* request carried some, whichever rule either of them met first           *)
(* (cors.go:74-183) - unless the configuration was changed in between or   *)
(* could not be read.                                                      *)
AllowedIsUsable ==
  \A r \in Requests :
    (/\ req[r].pc = "done" /\ req[r].preflight # Silent
     /\ ~req[r].changed /\ ~req[r].failed)
    => \/ req[r].answer = [origin |-> req[r].q.origin, credentials |-> TRUE]
       \/ ~req[r].q.signed /\ req[r].answer.origin = Wildcard
=============================================================================
