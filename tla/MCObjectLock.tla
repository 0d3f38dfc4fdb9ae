---------------------------- MODULE MCObjectLock ----------------------------
(***************************************************************************)
(* Finite instances of ObjectLock.                                         *)
(***************************************************************************)
EXTENDS ObjectLock

Symmetry == Permutations(Requests)

Begun == {r \in Requests : ~At(r, "idle")}
Alone == \A q, r \in Begun : q = r \/ ~Overlap(q, r)

(* Bound: requests in flight together change locks by version id; any      *)
(* requests, one at a time, one date, to which a governed one gives way.   *)
Bound == IF Alone THEN \A r \in Begun : /\ req[r].until \in {0, 1}
                                        /\ req[r].op = "retain" => req[r].bypass
         ELSE \A r \in Begun : req[r].op \notin {"put", "get"} /\ req[r].vid # "latest"

(* No request is left: the only way an instance may stop.                  *)
Rest == Begun \subseteq Finished /\ Begun # {} /\ UNCHANGED vars

MCSpec == Init /\ [][(Next /\ (Begun' # Begun => Bound')) \/ Rest]_vars
=============================================================================
