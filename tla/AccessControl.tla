--------------------------- MODULE AccessControl ---------------------------
(***************************************************************************)
(* The extended ACL of a bucket's container, which holds bucket ACLs,      *)
(* object ACLs and bucket policies alike.  A request reads the table,      *)
(* turns it into a tree of resources and their operations, merges its own  *)
(* statements into that and writes the whole table back                    *)
(* (api/handler/acl.go:245-281, put.go:577-635).                           *)
(*                                                                         *)
(* The five reading operations of FrostFS always come together: "get".     *)
(* Everyone ("all users", FrostFS' OTHERS) is the empty set of users, as   *)
(* in astOperation.  A resource is the bucket, an object or a version of   *)
(* it; a record stands with the resource its service record or its filters *)
(* name.                                                                   *)
(***************************************************************************)
EXTENDS Naturals, FiniteSets, SequencesExt

CONSTANTS
  Requests,    \* the requests of a behaviour, each made once
  None,        \* no value
  Owner,       \* the key that made the bucket, and issues the bearer token
  Acls,        \* ACLs asked for: sequences of grants [to, perm], perm one of
               \* READ, WRITE and FULL_CONTROL
  Policies,    \* policies asked for: sequences of statements
  Parallel,    \* bound: requests in flight at the same time
  MaxFaults    \* bound: failed calls and lost replies

VARIABLES
  table,       \* the container's eACL: records, the first that matches decides
  req,         \* req[r]: progress of request r
  faults       \* faults so far

vars == <<table, req, faults>>

Everyone   == {}
Named(who) == IF who = Everyone THEN {"all"} ELSE who
Resources == {"bucket", "object", "version"}
AllOps    == <<"get", "put", "delete">>

(* op: "put", "getacl" or "getpolicy"; child: the tree of what it states;  *)
(* seen: the table it read; ans: what a GET answered; res: outcome;        *)
(* stated: what the client's ACL or policy says itself, and prior: the     *)
(* requests finished when it began (both history only).                    *)
Idle == [op |-> "none", pc |-> "idle", child |-> <<>>, seen |-> <<>>,
         ans |-> None, res |-> "none", stated |-> {}, prior |-> {}]

At(r, p)  == req[r].pc = p
Active(r) == req[r].pc \notin {"idle", "done"}
Finished  == {r \in Requests : req[r].pc = "done"}
Done(r, x)    == [req[r] EXCEPT !.pc = "done", !.res = x]
Step(r, next) == req' = [req EXCEPT ![r] = next] /\ UNCHANGED faults
Fault(r) == /\ faults < MaxFaults
            /\ faults' = faults + 1
            /\ req' = [req EXCEPT ![r] = Done(r, "error")]

---------------------------------------------------------------------------
(* Operations of a resource: [op, who, allow], who a set of users.         *)

SameGroup(x, y) == x.op = y.op /\ (x.who = Everyone) = (y.who = Everyone)
Matching(ops, e) == {i \in DOMAIN ops : SameGroup(ops[i], e)}

(* Mutant: one user per operation, the last one.                           *)
AddToOverwriting(ops, e) ==
  IF Matching(ops, e) = {} THEN Append(ops, e)
  ELSE [ops EXCEPT ![Max(Matching(ops, e))].who = e.who]

(* Users of the same operation share an entry, whatever its action says.   *)
AddTo(ops, e) ==
  IF Matching(ops, e) = {} THEN Append(ops, e)
  ELSE [ops EXCEPT ![Max(Matching(ops, e))].who = @ \cup e.who]

Each(ops, who, allow) ==
  [i \in DOMAIN ops |-> [op |-> ops[i], who |-> who, allow |-> allow]]

(* Mutant: an operation that is none of a table's.                         *)
PermissionOpsUnknown(perm, res) == << perm >>

(* What a permission on a resource means, through the S3 actions.          *)
PermissionOps(perm, res) ==
  SelectSeq(AllOps, LAMBDA o :
    IF res # "bucket" THEN o = "get" /\ perm # "WRITE"
    ELSE perm = "FULL_CONTROL" \/ (o = "get") = (perm = "READ"))

Grantee(g) == IF g.to = "all" THEN Everyone ELSE {g.to}

(* aclToAst: a lone grant means private: everyone is denied.               *)
AclToAst(acl, res) ==
  LET ops    == IF res = "bucket" THEN AllOps ELSE <<"get">>
      start  == (IF Len(acl) < 2 THEN Each(ops, Everyone, FALSE) ELSE <<>>)
                  \o Each(ops, {Owner}, TRUE)
      others == SelectSeq(acl, LAMBDA g : g.to # Owner)
      Give(list, g) == FoldLeft(AddTo, list,
                         Each(PermissionOps(g.perm, res), Grantee(g), TRUE))
  IN << [res |-> res, ops |-> FoldLeft(Give, start, others)] >>

(* A statement: [to, allow, ops, res].                                     *)
AclToPolicy(acl, res) ==
  LET Say(g, allow) == [to |-> g.to, allow |-> allow, res |-> res,
                        ops |-> PermissionOps(g.perm, res)]
      full(to) == [to |-> to, perm |-> "FULL_CONTROL"]
      others   == SelectSeq(acl, LAMBDA g : g.to # Owner)
  IN (IF Len(acl) < 2 THEN << Say(full("all"), FALSE) >> ELSE <<>>)
       \o << Say(full(Owner), TRUE) >>
       \o [i \in DOMAIN others |-> Say(others[i], TRUE)]

(* The resources of a policy come in the order of a Go map: any.           *)
PolicyToAsts(policy) ==
  LET names == {policy[i].res : i \in DOMAIN policy}
      Give(list, s) == FoldLeft(AddTo, list,
                                Each(s.ops, Grantee(s), s.allow))
      Ops(n) == FoldLeft(Give, <<>>,
                         SelectSeq(policy, LAMBDA s : s.res = n))
  IN {[i \in DOMAIN order |-> [res |-> order[i], ops |-> Ops(order[i])]] :
        order \in SetToSeqs(names)}

---------------------------------------------------------------------------
(* What a client states: [res, op, who, allow], grant by grant of an ACL   *)
(* and statement by statement of a policy.                                 *)

State(res, ops, who, allow) ==
  {[res |-> res, op |-> o, who |-> who, allow |-> allow] : o \in ToSet(ops)}

AclStates(acl, res) ==
  (IF Len(acl) < 2
   THEN State(res, PermissionOps("FULL_CONTROL", res), Everyone, FALSE)
   ELSE {})
    \cup UNION {State(res, PermissionOps(g.perm, res), Grantee(g), TRUE) :
                  g \in ToSet(acl)}

PolicyStates(policy) ==
  UNION {State(s.res, s.ops, Grantee(s), s.allow) : s \in ToSet(policy)}

---------------------------------------------------------------------------
(* Table and tree: in the tree the last comes first, on both levels.       *)

AstToTable(ast) ==
  Reverse(FlattenSeq([i \in DOMAIN ast |->
    [j \in DOMAIN ast[i].ops |->
       [res |-> ast[i].res, op |-> ast[i].ops[j].op,
        who |-> ast[i].ops[j].who, allow |-> ast[i].ops[j].allow]]]))

TableToAst(t) ==
  LET First(n)  == Min({i \in DOMAIN t : t[i].res = n})
      names     == {t[i].res : i \in DOMAIN t}
      Entry(x)  == [op |-> x.op, who |-> x.who, allow |-> x.allow]
      records(n) == SelectSeq(t, LAMBDA x : x.res = n)
      Ops(n)    == FoldLeft(AddTo, <<>>,
                     [i \in DOMAIN records(n) |-> Entry(records(n)[i])])
      order     == SetToSortSeq(names, LAMBDA m, n : First(m) > First(n))
  IN [i \in DOMAIN order |->
        [res |-> order[i], ops |-> Reverse(Ops(order[i]))]]

(* bucketACLToTable, for a new bucket.                                     *)
FirstTable(acl) ==
  LET Records(ops, who, allow) ==
        [i \in DOMAIN ops |-> [res |-> "bucket", op |-> ops[i],
                               who |-> who, allow |-> allow]]
      Given(g) == Records(PermissionOps(g.perm, "bucket"), Grantee(g), TRUE)
  IN FlattenSeq([i \in DOMAIN acl |-> Given(acl[i])])
       \o (IF \E i \in DOMAIN acl : acl[i].to = Owner THEN <<>>
           ELSE Records(AllOps, {Owner}, TRUE))
       \o Records(AllOps, Everyone, FALSE)

---------------------------------------------------------------------------
(* mergeAst                                                                *)

WithoutUsers(ops, i, who) ==
  IF ops[i].who \subseteq who THEN RemoveAt(ops, i)
  ELSE [ops EXCEPT ![i].who = @ \ who]

(* Mutant: an entry counts as everyone's whatever its action says.         *)
MergeEveryoneKeeping(s, e, with, against) == s

MergeEveryone(s, e, with, against) ==
  IF against = {} THEN s
  ELSE LET i == Min(against)
       IN [s EXCEPT !.upd = TRUE,
             !.ops = IF with = {} THEN [@ EXCEPT ![i].allow = e.allow]
                     ELSE RemoveAt(@, i)]

(* Users leave the entry with the other action and join, or start, that    *)
(* with their own.  Starting one alone does not count as an update.        *)
MergeUsers(s, e, with, against) ==
  LET joined == IF with = {} THEN Append(s.ops, e)
                ELSE [s.ops EXCEPT ![Min(with)].who = @ \cup e.who]
      news   == \E i \in with : ~(e.who \subseteq s.ops[i].who)
      leave  == {i \in against : s.ops[i].who \cap e.who # {}}
  IN [s EXCEPT !.upd = @ \/ news \/ leave # {},
               !.ops = IF leave = {} THEN joined
                       ELSE WithoutUsers(joined, Min(leave), e.who)]

MergeOp(s, e) ==
  LET same    == Matching(s.ops, e)
      with    == {i \in same : s.ops[i].allow = e.allow}
      against == same \ with
  IN IF same = {} THEN [s EXCEPT !.new = Append(@, e), !.upd = TRUE]
     ELSE IF e.who = Everyone THEN MergeEveryone(s, e, with, against)
     ELSE MergeUsers(s, e, with, against)

MergeResource(m, x) ==
  LET known == {i \in DOMAIN m.ast : m.ast[i].res = x.res}
  IN IF known = {} THEN [ast |-> Append(m.ast, x), upd |-> TRUE]
     ELSE LET i == Min(known)
              s == FoldLeft(MergeOp, [ops |-> m.ast[i].ops, new |-> <<>>,
                                      upd |-> m.upd], x.ops)
          IN [ast |-> [m.ast EXCEPT ![i].ops = s.new \o s.ops],
              upd |-> s.upd]

MergeAst(parent, child) ==
  FoldLeft(MergeResource, [ast |-> parent, upd |-> FALSE], child)

---------------------------------------------------------------------------
(* GET of the ACL of the bucket or of a version tells who is allowed       *)
(* something there: it goes by the version, which is empty for a bucket    *)
(* and for an object without one.                                          *)
Granted(t, res) ==
  LET ast == TableToAst(t)
  IN {g \in UNION {{ast[i].ops[j] : j \in DOMAIN ast[i].ops} :
              i \in {k \in DOMAIN ast :
                       (ast[k].res = "version") = (res = "version")}} :
        g.allow}

GranteesOf(t, res) ==
  UNION {Named(g.who) : g \in Granted(t, res)}

(* GET of the policy tells who may do what, or may not.                    *)
PolicyOf(t) ==
  LET ast == TableToAst(t)
  IN UNION {UNION {
       {[res |-> ast[i].res, to |-> u, op |-> ast[i].ops[j].op,
         allow |-> ast[i].ops[j].allow] :
          u \in Named(ast[i].ops[j].who)} :
       j \in DOMAIN ast[i].ops} : i \in DOMAIN ast}

---------------------------------------------------------------------------
Init ==
  /\ table \in {FirstTable(a) : a \in Acls}
  /\ req = [r \in Requests |-> Idle]
  /\ faults = 0

Begin(r, op, child, stated) ==
  /\ At(r, "idle")
  /\ Cardinality({q \in Requests : Active(q)}) < Parallel
  /\ Step(r, [Idle EXCEPT !.op = op, !.pc = "read", !.child = child,
                          !.stated = stated, !.prior = Finished])
  /\ UNCHANGED table

PutACL(r) == \E a \in Acls, res \in {"bucket", "version"} :
               Begin(r, "put", AclToAst(a, res), AclStates(a, res))
PutPolicy(r) == \E p \in Policies : \E child \in PolicyToAsts(p) :
                  Begin(r, "put", child, PolicyStates(p))

(* PutObject with ACL headers, once its object is stored.                  *)
PutObjectWithACL(r) ==
  \E a \in Acls : \E child \in PolicyToAsts(AclToPolicy(a, "version")) :
    Begin(r, "put", child, AclStates(a, "version"))

GetACL(r) == \E res \in {"bucket", "version"} :
               Begin(r, "getacl", << [res |-> res, ops |-> <<>>] >>, {})
GetPolicy(r) == Begin(r, "getpolicy", <<>>, {})

(* GetContainerEACL, and what a GET makes of it; a PUT merges, and is done *)
(* if that changes nothing.                                                *)
ReadTable(r) ==
  /\ At(r, "read")
  /\ \/ LET x == [req[r] EXCEPT !.seen = table]
            done == [x EXCEPT !.pc = "done", !.res = "ok"]
        IN Step(r,
             IF x.op = "getacl"
             THEN [done EXCEPT !.ans = GranteesOf(table, x.child[1].res)]
             ELSE IF x.op = "getpolicy" THEN [done EXCEPT !.ans = PolicyOf(table)]
             ELSE IF MergeAst(TableToAst(table), x.child).upd
             THEN [x EXCEPT !.pc = "write"]
             ELSE done)
     \/ Fault(r)
  /\ UNCHANGED table

(* SetContainerEACL waits until the table is in force, or gives up.        *)
WriteTable(r) ==
  /\ At(r, "write")
  /\ \/ /\ table' = AstToTable(MergeAst(TableToAst(req[r].seen),
                                        req[r].child).ast)
        /\ Step(r, Done(r, "ok")) \/ Fault(r)
     \/ UNCHANGED table /\ Fault(r)

RequestStep(r) ==
  \/ PutACL(r) \/ PutPolicy(r) \/ PutObjectWithACL(r)
  \/ GetACL(r) \/ GetPolicy(r)
  \/ ReadTable(r) \/ WriteTable(r)

Next == \E r \in Requests : RequestStep(r)
Spec == Init /\ [][Next]_vars

---------------------------------------------------------------------------
(* Properties                                                              *)

Acked(r)      == req[r].res = "ok"
Overlap(q, r) == q \notin req[r].prior /\ r \notin req[q].prior
Writes(r)     == req[r].op = "put"
Alone(r)      == \A q \in Requests \ {r} : Writes(q) => ~Overlap(q, r)

(* The action that decides in table t for one user, or for everyone, by    *)
(* name; empty if there is none.                                           *)
Says(t, res, op, u) ==
  LET is == {k \in DOMAIN t :
               t[k].res = res /\ t[k].op = op /\ u \in Named(t[k].who)}
  IN IF is = {} THEN {} ELSE {t[Min(is)].allow}

(* Table t says what e states.                                             *)
Stands(t, e) ==
  \A u \in Named(e.who) : Says(t, e.res, e.op, u) = {e.allow}

(* Some users are allowed, and others denied, the same operation by name.  *)
Mixed(t, res, op) ==
  Cardinality({t[i].allow : i \in {k \in DOMAIN t :
     t[k].res = res /\ t[k].op = op /\ t[k].who # Everyone}}) > 1

(* A request that allows some, or some users, what it denies others: they  *)
(* share an entry of its tree, with the action of the first (addTo).       *)
Divided(r, e) ==
  \E f \in req[r].stated :
    f.res = e.res /\ SameGroup(f, e) /\ f.allow # e.allow

(* A user's statement against the action of the users listed so far does   *)
(* not count as an update (acl.go:738); without another that does, nothing *)
(* is written.                                                             *)
Uncounted(r, e) ==
  LET tree == TableToAst(req[r].seen) IN
  /\ e.who # Everyone
  /\ ~MergeAst(tree, req[r].child).upd
  /\ \E i \in DOMAIN tree : tree[i].res = e.res /\
       \E j \in Matching(tree[i].ops, e) : tree[i].ops[j].allow # e.allow

TypeOK ==
  /\ \A i \in DOMAIN table :
       /\ table[i].res \in Resources /\ table[i].op \in ToSet(AllOps)
       /\ table[i].allow \in BOOLEAN
  /\ \A r \in Requests :
       /\ req[r].pc \in {"idle", "read", "write", "done"}
       /\ req[r].res \in {"none", "ok", "error"}
       /\ req[r].prior \subseteq Requests
  /\ faults \in 0..MaxFaults

(* What an acknowledged request stated is what the table says of those     *)
(* users and that resource, until a request that is not over by then       *)
(* states something of the same operation and users there: merging its     *)
(* statements over the table that others wrote neither loses nor inverts   *)
(* them.  Open exceptions: effects that divide its own users, or those of  *)
(* a table it or a later one merges; statements that are not counted; and  *)
(* a request that read the table before they were there and wrote it back  *)
(* after.                                                                  *)
StatedIsStored ==
  \A r \in Requests : Writes(r) /\ Acked(r) =>
    \A e \in req[r].stated :
      \/ Stands(table, e) \/ Divided(r, e) \/ Uncounted(r, e)
      \/ \E q \in Requests \ req[r].prior :
           Writes(q) /\ Mixed(req[q].seen, e.res, e.op)
      \/ \E q \in Requests \ (req[r].prior \cup {r}) :
           /\ Writes(q) /\ req[q].seen # <<>>
           /\ \/ \E f \in req[q].stated :
                   /\ f.res = e.res /\ f.op = e.op
                   /\ Named(f.who) \cap Named(e.who) # {}
              \/ Overlap(q, r) /\ ~Stands(req[q].seen, e)

(* A request that no other overlaps changes nothing of what the table says *)
(* of users, operations and resources it does not state, unless the table  *)
(* allows some users what it denies others: reading that merges them.      *)
OthersKeptStep ==
  \A r \in Requests :
    At(r, "write") /\ table' # table /\ req'[r] # req[r] /\ Alone(r) =>
      \A i \in DOMAIN table : \A u \in Named(table[i].who) :
        LET x == table[i] IN
          \/ \E e \in req[r].stated :
               e.res = x.res /\ e.op = x.op /\ u \in Named(e.who)
          \/ Mixed(table, x.res, x.op)
          \/ Says(table', x.res, x.op, u) = Says(table, x.res, x.op, u)
OthersKept == [][OthersKeptStep]_vars

(* A GET of an ACL names everyone whom a request before it allowed         *)
(* something there, and a GET of the policy says what requests before it   *)
(* stated, of all that stands in the table it read; unless that allows     *)
(* some users what it denies others.                                       *)
StatedIsReported ==
  \A r, q \in Requests :
    /\ req[r].op \in {"getacl", "getpolicy"} /\ Acked(r)
    /\ Writes(q) /\ q \in req[r].prior
    =>
    \A e \in req[q].stated :
      \/ ~Stands(req[r].seen, e) \/ Mixed(req[r].seen, e.res, e.op)
      \/ IF req[r].op = "getpolicy"
         THEN \A u \in Named(e.who) :
                [res |-> e.res, to |-> u, op |-> e.op, allow |-> e.allow]
                  \in req[r].ans
         ELSE e.allow /\ e.res = req[r].child[1].res =>
                Named(e.who) \subseteq req[r].ans

(* A policy keeps its effects: what the only request that ever wrote       *)
(* stated is allowed if it said Allow and denied if it said Deny           *)
(* (acl_test.go:91, TestPolicyToAst).                                      *)
EffectsAreKept ==
  \A r \in Requests :
    Writes(r) /\ Acked(r) /\ (\A q \in Requests \ {r} : ~Writes(q)) =>
      \A e \in req[r].stated : Stands(table, e) \/ Uncounted(r, e)
=============================================================================
