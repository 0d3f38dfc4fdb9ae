----------------------------- MODULE MCHandlers -----------------------------
(***************************************************************************)
(* A finite instance of each of eight parts of the gateway that do not     *)
(* share state.  A behaviour is one of the part its first state chooses;   *)
(* the other parts stay in a state they may begin in.                      *)
(***************************************************************************)
EXTENDS Naturals, FiniteSets, Sequences, TLC

CONSTANTS
  None, Gates, MaxFaults,                               \* of several parts
  EventRequests, EventObjects, Confs, Enabled,          \* notifications
  RouteRequests, Queries, Origins, Configs,             \* routing
  MaxQueries, MaxPuts,
  AuthRequests, Issuers, Options, Allowed,              \* credentials
  EpochLength, CacheLife, MaxTime, MaxBoxes,
  BucketRequests, MaxContainers,                        \* buckets
  TagRequests, FirstVersion, TagSets, Parallel,         \* tags
  g1, g2, SseKey                                        \* of the instance

VARIABLES
  part,
  aclTable, aclReq, aclFaults,
  kind, nodes, slices, list, walk, changes, listFaults,
  conf, tested, sent, confReq, confFaults,
  cors, puts, route,
  clock, containers, boxes, minted, issue, box, signed, authFaults,
  cnr, named, info, versions, bucket, bucketFaults,
  stored, texts, known, maps, spoiled,
  versioned, tagged, tagNodes, tagCache, nodeCache, tagReq, tagFaults

---------------------------------------------------------------------------
(* Access control lists: three requests; the first two may overlap if they *)
(* write.                                                                  *)
Grant(to, perm) == [to |-> to, perm |-> perm]
Says(to, allow, ops, res) == [to |-> to, allow |-> allow, ops |-> ops, res |-> res]
Own == Grant("o", "FULL_CONTROL")

A == INSTANCE AccessControl WITH
  table <- aclTable, req <- aclReq, faults <- aclFaults,
  Requests <- 1..3, Owner <- "o",
  Acls <- {<<Own>>, <<Own, Grant("all", "READ")>>,
           <<Own, Grant("u", "WRITE"), Grant("v", "FULL_CONTROL")>>},
  Policies <- {<<Says("v", FALSE, <<"get">>, "bucket")>>,
               <<Says("v", TRUE, <<"get", "put">>, "object"),
                 Says("u", FALSE, <<"get">>, "object")>>}

AclBound ==
  /\ \A q, r \in 1..3 : q < r /\ aclReq[q].pc = "idle" => aclReq[r].pc = "idle"
  /\ \A q, r \in 1..3 :
       /\ q < r /\ "idle" \notin {aclReq[q].pc, aclReq[r].pc} /\ A!Overlap(q, r)
       => A!Writes(q) /\ A!Writes(r) /\ r < 3

(* Listing: two clients, of which the second comes along only in one small *)
(* case; a change and a failed HEAD.                                       *)
L == INSTANCE Listing WITH
  cached <- list, faults <- listFaults,
  Clients <- {1, 2}, Keys <- {1, 3, 4, 5}, DirOf <- (1 :> 0 @@ 3 :> 2 @@ 4 :> 2 @@ 5 :> 0),
  Ids <- 1..3, MaxKeys <- 0..2, Starts <- {0, 2}, MaxNodes <- 3, MaxChanges <- 1

ListBound ==
  /\ \A c \in {1, 2} :
       /\ Len(walk[c].pages) <= 3
       /\ kind # "parts" => walk[c].start = 0 /\ (walk[c].pc # "idle" => walk[c].max # 0)
  /\ walk[1].pc = "idle" => walk[2].pc = "idle"
  /\ walk[2].pc # "idle" =>
       /\ kind = "v1" /\ changes = 0 /\ Cardinality(nodes) = 2 /\ Len(slices) <= 2
       /\ \A c \in {1, 2} : walk[c].max = 2

(* Notifications: three requests, a failure.                               *)
Queue(id, events, queue, names) ==
  [id |-> id, events |-> events, queue |-> queue, names |-> names]

N == INSTANCE Notifications WITH
  req <- confReq, faults <- confFaults, Requests <- EventRequests, Objects <- EventObjects

FourConfs ==
  {<<>>,
   <<Queue("a", {"ObjectCreated", "Delete"}, "q1", {"o"}),
     Queue("b", {"Put"}, "q2", {"o", "p"})>>,
   <<Queue("b", {"ObjectRemoved"}, "q1", {"o", "p"}),
     Queue("b", {"Delete", "TaggingPut"}, "q2", {"o"})>>,
   <<Queue("a", {"Restore", "Copy"}, "q1", {"o"}),
     Queue("b", {"Bad"}, "q2", {"o", "p"})>>}

ConfBound ==
  \A q, r \in EventRequests : q < r /\ confReq[q].pc = "idle" => confReq[r].pc = "idle"

(* Routing and CORS: one request of every kind; two changes of the rules,  *)
(* where it has no queries; at most one query with a form.                 *)
RouteBound ==
  /\ route[1].q.queries # {} => puts = 0
  /\ route[1].q.header = "form" => Cardinality(route[1].q.queries) <= 1
Allows(origins, methods, headers) ==
  [origins |-> origins, methods |-> methods, headers |-> headers]

R == INSTANCE Routing WITH req <- route, Requests <- RouteRequests

EighteenQueries ==
  {"partNumber", "uploadId", "uploads", "acl", "tagging", "select", "select-type",
   "retention", "legal-hold", "attributes", "location", "policy", "cors",
   "list-type", "metadata", "versions", "delete", "object-lock"}
FourConfigs ==
  {<<Allows(<<"o">>, <<"GET">>, <<"h">>), Allows(<<"*">>, <<"GET", "PUT">>, <<"*">>)>>,
   <<Allows(<<"*">>, <<"GET">>, <<"h", "k">>), Allows(<<"o">>, <<"PUT">>, <<>>)>>,
   <<Allows(<<"o", "*">>, <<"PUT">>, <<"k">>)>>,
   <<Allows(<<"*">>, <<"TRACE">>, <<>>)>>}

(* Credentials: one box, issued for either gate or both, and one request.  *)
Option(container, gates, rules, life) ==
  [cnr |-> container, gates |-> gates, rules |-> rules, life |-> life]
Session(verb, container) == [verb |-> verb, cnr |-> container]

C == INSTANCE Credentials WITH
  cached <- box, req <- signed, faults <- authFaults, Requests <- AuthRequests

OneAllowed == [g \in {g1, g2} |-> IF g = g1 THEN {} ELSE {1}]
FiveOptions ==
  {Option(None, <<g1>>, <<>>, 1),
   Option(None, <<g2, g1>>, <<Session("DELETE", "c1"), Session("PUT", None),
                              Session("DELETE", None)>>, 2),
   Option(1, <<g1, g2>>, <<Session("DELETE", None), Session("DELETE", "c1")>>, 3),
   Option(None, <<g1>>, <<Session(None, None)>>, 1),
   Option(3, <<g1>>, <<>>, 1)}

(* A request that was altered on its way is one of a box issued at once,   *)
(* and comes early.                                                        *)
AuthBound ==
  signed[1].msg # signed[1].sent => clock < 3 /\ \A b \in boxes : b.at = 0

(* Buckets: four requests on two gates, two at a time, and one at a time   *)
(* once the fourth has come; the first comes to g1, and only it may want   *)
(* object lock; with a fourth there are no failures.                       *)
B == INSTANCE Buckets WITH
  lists <- versions, req <- bucket, faults <- bucketFaults, Requests <- BucketRequests

Begun == {r \in BucketRequests : bucket[r].pc # "idle"}
BucketBound ==
  /\ \A q, r \in BucketRequests : q < r /\ r \in Begun => q \in Begun
  /\ 1 \in Begun => bucket[1].gate = g1
  /\ 4 \in Begun => bucketFaults = 0
  /\ \A r \in BucketRequests \ {1} : ~bucket[r].lock
  /\ Cardinality({r \in BucketRequests : B!Running(bucket[r])}) <= IF 4 \in Begun THEN 1 ELSE 2

(* Reads of objects: two objects, parts that end in the middle of a        *)
(* package, at its end and at once; both put at the same time of a second. *)
O == INSTANCE ObjectReads WITH
  cached <- known, Keys <- {SseKey}, Sizes <- {0, 3, 4}, Dates <- {0, 1},
  Uploads <- {<<4, 4, 2>>, <<2, 4>>, <<4, 0>>, <<0>>, <<3, 3>>},
  BlockSize <- 2, Overhead <- 1, Wrap <- 64, MaxObjects <- 2

ReadBound == Len(stored) = 2 => stored[1].date = stored[2].date

(* Tags: three requests; the second may overlap the third, or the first if *)
(* both write and the third replaces the version; a failure, or an overlap. *)
T == INSTANCE Tagging_proofs WITH
  nodes <- tagged, req <- tagReq, faults <- tagFaults, Requests <- TagRequests,
  First <- FirstVersion

Together(q, r) == ~T!At(q, "idle") /\ ~T!At(r, "idle") /\ T!Overlap(q, r)
TagBound ==
  /\ T!At("r1", "idle") => T!At("r2", "idle")
  /\ T!At("r2", "idle") => T!At("r3", "idle")
  /\ "u" \notin {tagReq["r1"].tags, tagReq["r3"].tags} /\ tagReq["r2"].tags # "t"
  /\ ~Together("r1", "r3")
  /\ tagFaults > 0 => ~Together("r1", "r2") /\ ~Together("r2", "r3")
  /\ Together("r1", "r2") =>
       /\ "get" \notin {tagReq["r1"].op, tagReq["r2"].op}
       /\ tagReq["r3"].op \in {"none", "put"} /\ tagReq["r3"].tags = None
       /\ ~Together("r2", "r3")

---------------------------------------------------------------------------
(* What nobody names is none of what there is.                             *)
ASSUME FaultsAssumption == MaxFaults \in Nat
ASSUME ConfsAssumption ==
  Confs \subseteq Seq([id : STRING, events : SUBSET STRING, queue : STRING,
                       names : SUBSET EventObjects])
Rules         == [verb : {"PUT", "DELETE", "SETEACL", None}, cnr : STRING \cup {None}]
SessionTokens == [rule : Rules, gate : Gates, exp : Nat]
ASSUME OptionsAssumption ==
  /\ EpochLength \in Nat \ {0} /\ CacheLife \in Nat /\ None \notin SessionTokens
  /\ \A o \in Options : o.gates \in Seq(Gates) /\ o.rules \in Seq(Rules) /\ o.life \in Nat
ASSUME BucketsAssumption ==
  /\ MaxContainers \in Nat /\ None \notin 1 .. MaxContainers
  /\ None \notin [there : BOOLEAN, acl : BOOLEAN, lock : BOOLEAN, versioned : BOOLEAN,
                  objects : SUBSET BucketRequests]
ASSUME TagIdsDiffer == T!ConstantsDiffer

---------------------------------------------------------------------------
aclVars    == <<aclTable, aclReq, aclFaults>>
listVars   == <<kind, nodes, slices, list, walk, changes, listFaults>>
confVars   == <<conf, tested, sent, confReq, confFaults>>
routeVars  == <<cors, puts, route>>
authVars   == <<clock, containers, boxes, minted, issue, box, signed, authFaults>>
bucketVars == <<cnr, named, info, versions, bucket, bucketFaults>>
readVars   == <<stored, texts, known, maps, spoiled>>
tagVars    == <<versioned, tagged, tagNodes, tagCache, nodeCache, tagReq, tagFaults>>
vars == <<part, aclVars, listVars, confVars, routeVars, authVars, bucketVars, readVars, tagVars>>

Init ==
  /\ part \in {"acl", "listing", "notifications", "routing", "credentials", "buckets",
              "reads", "tagging"}
  /\ A!Init /\ (part # "acl" => aclTable = A!FirstTable(<<Own>>))
  /\ L!Init /\ (part # "listing" => kind = "v1" /\ nodes = {})
  /\ N!Init /\ R!Init /\ C!Init /\ B!Init /\ O!Init
  /\ T!Init /\ (part # "tagging" => versioned)

Next ==
  /\ part' = part
  /\ \/ /\ part = "acl" /\ A!Next /\ AclBound'
        /\ UNCHANGED <<listVars, confVars, routeVars, authVars, bucketVars, readVars, tagVars>>
     \/ /\ part = "listing" /\ L!Next /\ ListBound'
        /\ UNCHANGED <<aclVars, confVars, routeVars, authVars, bucketVars, readVars, tagVars>>
     \/ /\ part = "notifications" /\ N!Next /\ ConfBound'
        /\ UNCHANGED <<aclVars, listVars, routeVars, authVars, bucketVars, readVars, tagVars>>
     \/ /\ part = "routing" /\ R!Next /\ RouteBound'
        /\ UNCHANGED <<aclVars, listVars, confVars, authVars, bucketVars, readVars, tagVars>>
     \/ /\ part = "credentials" /\ C!Next /\ AuthBound'
        /\ UNCHANGED <<aclVars, listVars, confVars, routeVars, bucketVars, readVars, tagVars>>
     \/ /\ part = "buckets" /\ B!Next /\ BucketBound'
        /\ UNCHANGED <<aclVars, listVars, confVars, routeVars, authVars, readVars, tagVars>>
     \/ /\ part = "reads" /\ O!Next /\ ReadBound'
        /\ UNCHANGED <<aclVars, listVars, confVars, routeVars, authVars, bucketVars, tagVars>>
     \/ /\ part = "tagging" /\ T!Next /\ TagBound'
        /\ UNCHANGED <<aclVars, listVars, confVars, routeVars, authVars, bucketVars, readVars>>

Spec == Init /\ [][Next]_vars
---------------------------------------------------------------------------
(* Every part keeps to its types.                                          *)
TypeOK ==
  /\ part = "acl" => A!TypeOK
  /\ part = "listing" => L!TypeOK
  /\ part = "routing" => R!TypeOK
  /\ part = "credentials" => C!TypeOK
  /\ part = "buckets" => B!TypeOK
  /\ part = "reads" => O!TypeOK
  /\ part = "tagging" => T!TypeOK

(* What an acknowledged request for an ACL or a policy stated is stored,   *)
(* and a GET reports what stands.                                          *)
AclIsAsStated == part = "acl" => A!StatedIsStored /\ A!StatedIsReported

(* A policy that denies something to one user and allows it to another     *)
(* does so (acl_test.go:104 and 134: Effect "Deny" becomes ActionDeny).    *)
EffectsAreKept == part = "acl" => A!EffectsAreKept

(* Changing an ACL changes nothing it does not state (acl.go:245).         *)
OthersKept == [][part = "acl" => A!OthersKeptStep]_aclVars

(* A walk through a listing shows all that was there throughout, in pages  *)
(* that follow one another, each full if there is more.                    *)
ListingIsWhole ==
  part = "listing" => L!WalkIsComplete /\ L!PagesAdvance /\ L!FullPages

(* An operation tells the queues that asked to be told, and no other, and  *)
(* those took a test event before.                                         *)
NotifiedAsConfigured ==
  part = "notifications" => N!SavedIsTested /\ N!ToldAreThoseWhoAsked

(* A request reaches the route that was made for it, and is billed as the  *)
(* operation it is.                                                        *)
RoutedAsMeant ==
  part = "routing" => R!OwnRequestsReachTheirRoute /\ R!BilledAsWhatItIs

(* What a preflight allowed, a browser can use.                            *)
AllowedIsUsable == part = "routing" => R!AllowedIsUsable

(* A request signed with a secret that lives is taken, and one that is     *)
(* taken is the one that was signed.                                       *)
SignatureDecides == part = "credentials" => C!SignedIsTaken /\ C!TakenIsSigned

(* A gate gets the tokens of a box that are its own, for as long as was    *)
(* asked for and no longer, and uses the session that fits a request.      *)
CredentialsAsIssued ==
  part = "credentials" =>
    C!GateGetsItsOwn /\ C!LivesAsAsked /\ C!ExpiredIsForgotten /\ C!SessionFits

(* Only by a failure a bucket lacks its access table or its versioning;    *)
(* only by an overlap or an old list objects are deleted with their        *)
(* bucket, and only by a race a gate knows a bucket that is gone.          *)
BucketsAreWhole ==
  part = "buckets" =>
    B!HalfMadeOnlyByFailure /\ B!LostOnlyByStaleList /\ B!GhostOnlyByRace

(* A range of an object, encrypted or not, is served as it was sent, and   *)
(* the pages of its parts are all of its parts.                            *)
ObjectIsServed == part = "reads" => O!RangeIsServed /\ O!AttributePagesAreParts

(* The objects cache answers as FrostFS would.                             *)
CacheIsTransparent == part = "reads" => O!CacheIsTransparent

(* But for failures, overlaps and aliases a version has the tags that were *)
(* put last, none of those of the version it replaced, and no stale ones   *)
(* in the cache.                                                           *)
TagsAreOfTheirVersion == part = "tagging" => T!TagsAreOfTheirVersion
=============================================================================
