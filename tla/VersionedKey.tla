--------------------------- MODULE VersionedKey ---------------------------
(***************************************************************************)
(* What the gateway promises about the versions of ONE object name of one  *)
(* bucket: every request takes effect at one instant.  A PUT adds a        *)
(* version (or replaces the null version), a DELETE removes a version or   *)
(* adds a delete marker, a HEAD and a listing answer what is stored.       *)
(* There are no caches here, no remote calls and no failures; a request is *)
(* identified with the OID of the version it writes.                       *)
(***************************************************************************)
EXTENDS Naturals

CONSTANTS
  Requests,   \* the client requests; a version is named by its writer
  None        \* "no answer yet"

VARIABLES
  versioning, \* versioning state of the bucket
  versions,   \* the stored versions and delete markers
  clock,      \* number of writes so far: orders the versions
  ask,        \* ask[r]: the operation and version id of request r
  applied,    \* the writes that took effect
  answer      \* answer[r]: what a read returned, None before it did

vars == <<versioning, versions, clock, ask, applied, answer>>

NoAsk == [op |-> "none", vid |-> "latest"]

Newest(V) == {v \in V : \A w \in V : w.at <= v.at}
NullOf(V) == {v \in V : v.null}

(* The versions a version id names: "latest" the newest one, "null" the    *)
(* null version, otherwise the version with that OID.                      *)
Named(id) == CASE id = "latest" -> Newest(versions)
               [] id = "null"   -> NullOf(versions)
               [] OTHER         -> {v \in versions : v.oid = id}

Oids(V) == {v.oid : v \in V}

Init ==
  /\ versioning \in {"Unversioned", "Enabled"}
  /\ versions = {} /\ clock = 0
  /\ ask = [r \in Requests |-> NoAsk]
  /\ applied = {}
  /\ answer = [r \in Requests |-> None]

SetVersioning(m) ==
  /\ versioning' = m
  /\ UNCHANGED <<versions, clock, ask, applied, answer>>

Asks == [op : {"put", "delete", "head", "list"},
         vid : {"latest", "null"} \cup Requests]

Issue(r, q) ==
  /\ ask[r] = NoAsk
  /\ ask' = [ask EXCEPT ![r] = q]
  /\ UNCHANGED <<versioning, versions, clock, applied>>

(* Version r becomes the newest one; a null version takes the place of the *)
(* previous null version.                                                  *)
Write(r, marker) ==
  LET null == versioning # "Enabled"
      kept == IF null THEN versions \ NullOf(versions) ELSE versions
  IN /\ versions' = kept \cup {[oid |-> r, null |-> null, marker |-> marker,
                                at |-> clock + 1]}
     /\ clock' = clock + 1

Put(r) == ask[r].op = "put" /\ Write(r, FALSE)

(* A DELETE that names a version, or that comes to a bucket that was never *)
(* versioned, removes that version; otherwise it adds a delete marker,     *)
(* except that a suspended bucket without a null version is left alone.    *)
Delete(r) ==
  /\ ask[r].op = "delete"
  /\ IF ask[r].vid # "latest" \/ versioning = "Unversioned"
     THEN versions' = versions \ Named(ask[r].vid) /\ UNCHANGED clock
     ELSE IF versioning = "Suspended" /\ NullOf(versions) = {}
     THEN UNCHANGED <<versions, clock>>
     ELSE Write(r, TRUE)

Apply(r) ==
  /\ r \notin applied
  /\ Put(r) \/ Delete(r)
  /\ applied' = applied \cup {r}
  /\ UNCHANGED <<versioning, ask, answer>>

(* A read answers the OID of the version it names, nothing when that is a  *)
(* delete marker or does not exist; a listing answers every version.       *)
Reply(q) ==
  IF q.op = "head" THEN Oids({v \in Named(q.vid) : ~v.marker})
                   ELSE Oids(versions)

Read(r) ==
  /\ ask[r].op \in {"head", "list"}
  /\ answer[r] = None
  /\ answer' = [answer EXCEPT ![r] = Reply(ask[r])]
  /\ UNCHANGED <<versioning, versions, clock, ask, applied>>

(* A read the gateway answers from a cache is issued and answered at once. *)
IssueRead(r, q) ==
  /\ Issue(r, q)
  /\ q.op \in {"head", "list"}
  /\ answer' = [answer EXCEPT ![r] = Reply(q)]

Next ==
  \/ \E m \in {"Enabled", "Suspended"} : SetVersioning(m)
  \/ \E r \in Requests :
        \/ \E q \in Asks : Issue(r, q) /\ UNCHANGED answer
        \/ \E q \in Asks : IssueRead(r, q)
        \/ Apply(r)
        \/ Read(r)

Spec == Init /\ [][Next]_vars
============================================================================
