------------------------- MODULE MCObjectVersions -------------------------
(***************************************************************************)
(* Finite instances of ObjectVersions, and its refinement of VersionedKey  *)
(* when requests come one at a time.                                       *)
(***************************************************************************)
EXTENDS ObjectVersions, TLC

Symmetry == Permutations(Requests)

Begun == {r \in Requests : ~At(r, "idle")}

(* Three requests that were all in flight at the same time.                *)
Crowd == \E q, r, s \in Begun :
           /\ Cardinality({q, r, s}) = 3
           /\ Overlap(q, r) /\ Overlap(r, s) /\ Overlap(q, s)

(* Bound: three in flight together are PUTs and DELETEs; any requests, two  *)
(* at a time.                                                              *)
Bound == Crowd => \A r \in Begun : req[r].op \in {"put", "delete"}

(* No request is left: the only way an instance may stop.                  *)
Rest == Begun \subseteq Finished /\ Begun # {} /\ UNCHANGED vars

MCSpec == Init /\ [][(Next /\ (Begun' # Begun => Bound')) \/ Rest]_vars
---------------------------------------------------------------------------
(* What the requests and the stores look like from outside.                *)

Reads == {"head", "list"}

VersionOf(n) == [oid |-> tree[n].oid, null |-> tree[n].null,
                 marker |-> tree[n].marker, at |-> tree[n].ts]

StoredVersions == {VersionOf(n) : n \in Nodes}

Asked == [r \in Requests |-> [op |-> req[r].op, vid |-> req[r].vid]]

Applied == {r \in Requests :
              /\ req[r].op \in {"put", "delete"}
              /\ req[r].pc \in {"clear", "lock", "cache", "clean", "done"}}

Answers == [r \in Requests |-> IF req[r].op \in Reads /\ At(r, "done")
                               THEN req[r].ans ELSE None]

Key == INSTANCE VersionedKey WITH
  versions <- StoredVersions, ask <- Asked, applied <- Applied, answer <- Answers

(* Requests made one after another, with no failure, cannot tell the two   *)
(* stores and three caches from a single versioned register: every PUT and *)
(* DELETE takes effect once, as its S3 operation says, and every HEAD and  *)
(* listing answers what is stored at that moment.                          *)
SerialRequestsSeeOneStore == Key!Spec

=============================================================================
