----------------------------- MODULE Resolver -----------------------------
(***************************************************************************)
(* The resolution of bucket names by a list of resolvers that a reload may *)
(* replace (api/resolver/resolver.go): Resolve holds the read lock of a    *)
(* sync.RWMutex while it asks one resolver after another, UpdateResolvers  *)
(* the write lock while it creates the new ones.                           *)
(***************************************************************************)
EXTENDS Naturals, Sequences

CONSTANTS
  Requests,    \* goroutines that resolve names, again and again
  Lists,       \* lists of names a configuration may have
  Known,       \* the names a resolver can be made of: dns, nns
  MaxUpdates,  \* bound: reloads
  None

VARIABLES
  resolvers,   \* the list in force
  req,         \* req[r]: [pc, at, list, res]
  new,         \* the list a reload asks for, None if there is no reload
  locked,      \* the reload has the write lock
  updates

vars == <<resolvers, req, new, locked, updates>>

Buildable(l) == \A i \in DOMAIN l : l[i] \in Known
Readers   == {r \in Requests : req[r].pc = "ask"}
Idle == [pc |-> "idle", at |-> 0, list |-> <<>>, res |-> None]

Init ==
  /\ resolvers \in {l \in Lists : Buildable(l)}
  /\ req = [r \in Requests |-> Idle]
  /\ new = None /\ locked = FALSE /\ updates = 0

(* RLock waits for a writer, also for one that waits itself.               *)
MayRead == new = None

BeginResolve(r) ==
  /\ req[r].pc # "ask" /\ MayRead
  /\ req' = [req EXCEPT ![r] = [Idle EXCEPT !.pc = "ask", !.at = 1,
                                            !.list = resolvers]]
  /\ UNCHANGED <<resolvers, new, locked, updates>>

(* The next resolver answers, or fails; the first that answers decides.    *)
Resolve(r) ==
  LET q == req[r]
  IN /\ q.pc = "ask"
     /\ \/ q.at <= Len(resolvers)
           /\ \/ req' = [req EXCEPT ![r].pc = "done", ![r].res = resolvers[q.at]]
              \/ req' = [req EXCEPT ![r].at = q.at + 1]
        \/ q.at > Len(resolvers)
           /\ req' = [req EXCEPT ![r].pc = "done", ![r].res = "error"]
     /\ UNCHANGED <<resolvers, new, locked, updates>>

UpdateResolvers ==
  /\ new = None /\ updates < MaxUpdates /\ updates' = updates + 1
  /\ new' \in Lists
  /\ UNCHANGED <<resolvers, req, locked>>

(* Mutant: the reload does not wait for those who resolve.                 *)
MayWriteAnyway == TRUE
MayWrite == Readers = {}

LockResolvers ==
  /\ new # None /\ ~locked /\ MayWrite /\ locked' = TRUE
  /\ UNCHANGED <<resolvers, req, new, updates>>

(* The same names are no change; a name nobody knows, or an endpoint that  *)
(* cannot be dialled, leaves the old list.                                 *)
CreateResolvers ==
  /\ locked /\ locked' = FALSE /\ new' = None
  /\ \/ resolvers' = IF Buildable(new) THEN new ELSE resolvers
     \/ "nns" \in {new[i] : i \in DOMAIN new} /\ UNCHANGED resolvers
  /\ UNCHANGED <<req, updates>>

Next ==
  \/ \E r \in Requests : BeginResolve(r) \/ Resolve(r)
  \/ UpdateResolvers \/ LockResolvers \/ CreateResolvers

(* Resolvers answer or fail, and the goroutines go on.                     *)
Fairness == /\ \A r \in Requests : WF_vars(Resolve(r))
            /\ WF_vars(LockResolvers) /\ WF_vars(CreateResolvers)
Spec == Init /\ [][Next]_vars /\ Fairness

---------------------------------------------------------------------------
(* A name is resolved by resolvers of one list only, that in force when    *)
(* the request began, and fails only when all of them were asked; what a   *)
(* reload does meanwhile is not seen.                                      *)
OneListPerRequest ==
  \A r \in Requests :
    LET q == req[r]
    IN /\ q.pc = "ask" => resolvers = q.list
       /\ q.pc = "done" =>
            IF q.res = "error" THEN q.at = Len(q.list) + 1
            ELSE q.at <= Len(q.list) /\ q.res = q.list[q.at]

(* A reload is not held up for ever by requests that keep coming.          *)
ReloadEnds == new # None ~> new = None
=============================================================================
