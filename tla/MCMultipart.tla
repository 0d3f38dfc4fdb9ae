---------------------------- MODULE MCMultipart ----------------------------
(***************************************************************************)
(* Finite instances of Multipart.                                          *)
(***************************************************************************)
EXTENDS Multipart, TLC

Symmetry == Permutations(Requests)

Begun == {r \in Requests : ~At(r, "idle")}

(* Three requests that were all in flight at the same time.                *)
Crowd == \E q, r, s \in Begun :
           /\ Cardinality({q, r, s}) = 3
           /\ Overlap(q, r) /\ Overlap(r, s) /\ Overlap(q, s)

(* Bound: three requests if all are in flight together, else any number,   *)
(* two at a time, the fourth only where nothing failed before.             *)
Bound == Cardinality(Begun) > 3 =>
           /\ faults = 0
           /\ ~Crowd
           /\ \A r \in Begun :
                /\ req[r].op = "part" => req[r].data \notin Small
                /\ req[r].op = "complete" =>
                     \A n \in DOMAIN req[r].want : req[r].want[n] \notin Small

(* No request is left: the only way an instance may stop.                  *)
Rest == Begun \subseteq Finished /\ Begun # {} /\ UNCHANGED vars

MCSpec == Init /\ [][(Next /\ (Begun' # Begun => Bound')) \/ Rest]_vars
=============================================================================
