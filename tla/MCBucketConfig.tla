-------------------------- MODULE MCBucketConfig --------------------------
(***************************************************************************)
(* Finite instances of BucketConfig.                                       *)
(***************************************************************************)
EXTENDS BucketConfig, TLC

Symmetry == Permutations(Requests)

(* No request is left: the only way an instance may stop.                  *)
Rest == Finished = Requests /\ UNCHANGED vars

MCSpec == Init /\ [][Next \/ Rest]_vars
=============================================================================
