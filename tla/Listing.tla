------------------------------ MODULE Listing ------------------------------
(***************************************************************************)
(* Clients that page through a bucket: the latest objects (ListObjects V1  *)
(* and V2), all versions, the uploads in progress, the parts of an upload; *)
(* api/handler/object_list.go, api/layer/object.go:423-796,                *)
(* api/layer/versioning.go, api/layer/multipart_upload.go:479-695.         *)
(*                                                                         *)
(* A name is its place in the order of names: a key, or the directory the  *)
(* delimiter cuts some keys to.  What is listed are nodes: versions of     *)
(* objects, uploads or parts; ids are as random as object ids are, so a    *)
(* new node takes any free one.  A change and the cleaning of the list     *)
(* cache are one step here (their races are those of ObjectVersions).      *)
(***************************************************************************)
EXTENDS Naturals, FiniteSets, SequencesExt

CONSTANTS
  Clients,     \* each makes one walk
  Keys,        \* keys of objects, a set of positive numbers
  DirOf,       \* the directory of each key, 0 if it has none: a number below
               \* the key that is no key itself
  Ids,         \* ids of nodes
  MaxKeys,     \* sizes of a page that clients ask for
  Starts,      \* markers a walk may begin with
  MaxNodes,    \* bound: nodes at the beginning
  MaxChanges,  \* bound: changes of the bucket during the walks
  MaxFaults    \* bound: pages with failed HEADs

VARIABLES
  kind,        \* what is listed: "v1", "v2", "versions", "uploads", "parts"
  nodes,       \* what there is: [key, id, ts, gone], gone a delete marker
  slices,      \* lists read from the tree: [seq, sorting, spoiled]
  cached,      \* the slice in the list cache, 0 if none
  walk,        \* walk[c]: what a client has asked for and got
  changes, faults

vars == <<kind, nodes, slices, cached, walk, changes, faults>>

(* Parts have numbers only, and an object of an unversioned bucket has one *)
(* version.                                                                *)
Node == [key : Keys, id : Ids, ts : Nat, gone : BOOLEAN]
IsLatest(n, s) == \A m \in s : m.key = n.key => m.ts <= n.ts
LatestOf(s)    == {n \in s : IsLatest(n, s)}
Place(n) == IF DirOf[n.key] = 0 THEN n.key ELSE DirOf[n.key]
IsDir(i) == i.name \notin Keys
Item(name, n) == [name |-> name, id |-> n.id]
Names(page) == [i \in DOMAIN page |-> page[i].name]
Take(s, n) == SubSeq(s, 1, IF Len(s) < n THEN Len(s) ELSE n)

Unstarted ==
  [pc |-> "idle", max |-> 0, start |-> 0, marker |-> 0, id |-> 0, slice |-> 0,
   pages |-> <<>>, steady |-> {}, marks |-> {}, spoiled |-> FALSE,
   lost |-> FALSE, faulty |-> FALSE]

---------------------------------------------------------------------------
(* Pages: [items, more, marker, id], the last two for the next request.    *)

LastPage(items) == [items |-> items, more |-> FALSE, marker |-> 0, id |-> 0]

(* shouldSkip: a key of a directory stands for all of it; with a token,    *)
(* everything before the node of that object is skipped.                   *)
ShouldSkip(w, acc, n) ==
  \/ n.gone
  \/ Place(n) \in acc.existed
  \/ Place(n) <= w.marker
  \/ ~acc.on /\ n.id # w.id

(* nodesGenerator: one more than asked for, to know whether there is more. *)
NodesGenerator(w, seq) ==
  LET Give(acc, n) ==
        IF Len(acc.out) = w.max + 1 \/ ShouldSkip(w, acc, n) THEN acc
        ELSE [out |-> Append(acc.out, Item(Place(n), n)), on |-> TRUE,
              existed |-> acc.existed \cup {Place(n)}]
  IN FoldLeft(Give, [out |-> <<>>, existed |-> {}, on |-> w.id = 0], seq).out

ByName(i, j) == i.name < j.name

(* Mutant: nobody knows whether there is more.                             *)
LatestPageShort(w, seq) ==
  LastPage(Take(SortSeq(NodesGenerator(w, seq), ByName), w.max))

(* The pool of workers reorders the objects; they are sorted again.  A     *)
(* failed HEAD leaves what the tree knows of an object.                    *)
LatestPage(w, seq) ==
  LET all == SortSeq(NodesGenerator(w, seq), ByName)
  IN IF w.max = 0 \/ Len(all) <= w.max THEN LastPage(Take(all, w.max))
     ELSE [items |-> Take(all, w.max), more |-> TRUE,
           marker |-> IF kind = "v1" THEN all[w.max].name ELSE w.start,
           id     |-> IF kind = "v2" THEN all[w.max + 1].id ELSE 0]

(* One entry for a directory, of any of its nodes.                         *)
OfDirs(s) ==
  LET dirs == {Place(n) : n \in s} \ Keys
  IN {{Item(d, pick[d]) : d \in dirs} :
        pick \in {f \in [dirs -> s] : \A d \in dirs : Place(f[d]) = d}}

(* All versions, newest first; a delete marker stands by its own key.  A   *)
(* version whose HEAD fails is left out.                                   *)
AllVersions(s, failed) ==
  LET good  == {n \in s \ failed : ~n.gone}
      whole == {n \in s \ failed : n.gone \/ DirOf[n.key] = 0}
      TsOf(i) == IF IsDir(i) THEN 0
                 ELSE (CHOOSE n \in s : n.key = i.name /\ n.id = i.id).ts
  IN {SetToSortSeq(dirs \cup {Item(n.key, n) : n \in whole},
        LAMBDA i, j : i.name < j.name \/ (i.name = j.name /\ TsOf(i) > TsOf(j))) :
      dirs \in OfDirs(good \ whole)}

(* From the first entry whose name and whose id are not before the marks,  *)
(* from the beginning if there is none.  Prefixes are not counted.         *)
VersionsPage(w, all) ==
  LET from == {i \in DOMAIN all : all[i].name >= w.marker /\ all[i].id >= w.id}
      rest == IF from = {} THEN all ELSE SubSeq(all, Min(from), Len(all))
      keys == SelectSeq(rest, LAMBDA i : ~IsDir(i))
      dirs == SelectSeq(rest, IsDir)
  IN IF Len(keys) <= w.max THEN LastPage(dirs \o keys)
     ELSE [items |-> dirs \o Take(keys, w.max), more |-> TRUE,
           marker |-> keys[w.max + 1].name, id |-> keys[w.max + 1].id]

AllUploads(s) ==
  {SetToSortSeq(dirs \cup {Item(n.key, n) : n \in {m \in s : DirOf[m.key] = 0}},
     LAMBDA i, j : i.name < j.name \/ (i.name = j.name /\ i.id < j.id)) :
   dirs \in OfDirs({m \in s : DirOf[m.key] # 0})}

(* trimAfterUploadIDAndKey, trimAfterUploadKey                             *)
UploadsAfter(w, all) ==
  SelectSeq(all, LAMBDA i :
    \/ w.marker = 0
    \/ w.id = 0 /\ i.name > w.marker
    \/ w.id # 0 /\ i.name >= w.marker /\ i.id > w.id)

UploadsPage(w, all) ==
  LET rest == UploadsAfter(w, all)
  IN IF w.max = 0 \/ Len(rest) <= w.max THEN LastPage(Take(rest, w.max))
     ELSE [items |-> Take(rest, w.max), more |-> TRUE,
           marker |-> rest[w.max].name, id |-> rest[w.max].id]

(* A mark behind the last part lists all of them; a page of no parts is an *)
(* index out of range, which ends the request.                             *)
PartsPage(w, s) ==
  LET all   == SetToSortSeq({Item(n.key, n) : n \in s}, ByName)
      after == SelectSeq(all, LAMBDA i : i.name > w.marker)
      rest  == IF after = <<>> THEN all ELSE after
  IN IF Len(rest) <= w.max THEN LastPage(rest)
     ELSE [items |-> Take(rest, w.max), more |-> TRUE,
           marker |-> rest[w.max].name, id |-> 0]

Panics(w, s) == kind = "parts" /\ w.max = 0 /\ s # {}

---------------------------------------------------------------------------
Buckets ==
  {s \in UNION {kSubset(n, [key : Keys, id : Ids, ts : {0}, gone : {FALSE}]) :
                  n \in 0..MaxNodes} :
     \A n, m \in s : n # m => n.id # m.id /\ (kind # "uploads" => n.key # m.key)}

Init ==
  /\ kind \in {"v1", "v2", "versions", "uploads", "parts"}
  /\ nodes \in Buckets
  /\ slices = <<>> /\ cached = 0
  /\ walk = [c \in Clients |-> Unstarted]
  /\ changes = 0 /\ faults = 0

Moved(s) == [c \in Clients |-> [walk[c] EXCEPT !.steady = @ \cap s]]

Change(s) ==
  /\ changes < MaxChanges /\ changes' = changes + 1
  /\ nodes' = s /\ cached' = 0 /\ walk' = Moved(s)
  /\ UNCHANGED <<kind, slices, faults>>

(* A new version, upload or part; a delete marker.                         *)
Add ==
  \E k \in Keys, i \in Ids \ {n.id : n \in nodes}, gone \in BOOLEAN :
    LET new == [key |-> k, id |-> i, ts |-> changes + 1, gone |-> gone]
    IN /\ gone => kind \in {"v1", "v2", "versions"}
       /\ Change({n \in nodes : n.key = k => kind \in {"versions", "uploads"}}
                   \cup {new})

Delete == kind # "parts" /\ \E n \in nodes : Change(nodes \ {n})

(* An entry of the list cache expires.                                     *)
Expire == cached # 0 /\ cached' = 0
          /\ UNCHANGED <<kind, nodes, slices, walk, changes, faults>>

Begin(c) ==
  /\ walk[c].pc = "idle"
  /\ \E m \in MaxKeys, s \in Starts :
       /\ kind = "versions" => m > 0
       /\ walk' = [walk EXCEPT ![c] =
            [Unstarted EXCEPT !.pc = IF kind \in {"v1", "v2"} THEN "list"
                                     ELSE "page",
                              !.max = m, !.start = s, !.marker = s,
                              !.steady = nodes]]
  /\ UNCHANGED <<kind, nodes, slices, cached, changes, faults>>

(* The cached list, or the tree's, in no order, which is cached as it is.  *)
GetList(c) ==
  /\ walk[c].pc = "list"
  /\ IF cached # 0
     THEN /\ walk' = [walk EXCEPT ![c].pc = "sort", ![c].slice = cached]
          /\ slices' = [slices EXCEPT ![cached].sorting = @ \cup {c},
                          ![cached].spoiled = @ \/ slices[cached].sorting # {}]
          /\ UNCHANGED cached
     ELSE \E seq \in SetToSeqs(LatestOf(nodes)) :
            /\ slices' = Append(slices, [seq |-> seq, sorting |-> {c},
                                         spoiled |-> FALSE])
            /\ cached' = Len(slices')
            /\ walk' = [walk EXCEPT ![c].pc = "sort",
                                    ![c].slice = Len(slices')]
  /\ UNCHANGED <<kind, nodes, changes, faults>>

(* Two that sort the same slice at the same time swap under each other.    *)
Sorted(l) ==
  IF l.spoiled THEN [DOMAIN l.seq -> ToSet(l.seq)]
  ELSE {SortSeq(l.seq, LAMBDA n, m : n.key < m.key)}

SortList(c) ==
  /\ walk[c].pc = "sort"
  /\ LET i == walk[c].slice
     IN \E seq \in Sorted(slices[i]) :
          slices' = [slices EXCEPT ![i].seq = seq, ![i].sorting = @ \ {c}]
  /\ walk' = [walk EXCEPT ![c].pc = "page"]
  /\ UNCHANGED <<kind, nodes, cached, changes, faults>>

(* What a client is given, and what it asks for next.                      *)
Receive(c, w, page) ==
  walk' = [walk EXCEPT ![c] =
    [w EXCEPT !.pages = Append(@, page.items),
              !.pc = IF ~page.more THEN "done"
                     ELSE IF kind \in {"v1", "v2"} THEN "list" ELSE "page",
              !.marker = page.marker, !.id = page.id, !.slice = 0,
              !.marks = IF page.more
                        THEN @ \cup {[name |-> page.marker, id |-> page.id]}
                        ELSE @]]

(* A reader of a slice another sorts sees it half swapped.                 *)
ListObjects(c) ==
  LET w == walk[c]  l == slices[w.slice]
      v == [w EXCEPT !.spoiled = @ \/ l.spoiled,
                     !.lost = @ \/ (w.id # 0 /\ \A n \in LatestOf(nodes) :
                                      n.id # w.id \/ n.gone)]
  IN /\ w.pc = "page" /\ kind \in {"v1", "v2"}
     /\ \E seq \in IF l.sorting = {} THEN {l.seq} ELSE Sorted(l) :
          Receive(c, v, LatestPage(w, seq))
     /\ UNCHANGED <<kind, nodes, slices, cached, changes, faults>>

ListObjectVersions(c) ==
  LET w == walk[c]
  IN /\ w.pc = "page" /\ kind = "versions"
     /\ \E failed \in SUBSET {n \in nodes : ~n.gone /\ DirOf[n.key] = 0} :
          /\ failed # {} => faults < MaxFaults
          /\ faults' = IF failed = {} THEN faults ELSE faults + 1
          /\ \E all \in AllVersions(nodes, failed) :
               Receive(c, [w EXCEPT !.faulty = @ \/ failed # {},
                                    !.lost = @ \/ (w.id # 0 /\
                                       \A n \in nodes : n.id # w.id)],
                       VersionsPage(w, all))
     /\ UNCHANGED <<kind, nodes, slices, cached, changes>>

ListMultipartUploads(c) ==
  /\ walk[c].pc = "page" /\ kind = "uploads"
  /\ \E all \in AllUploads(nodes) : Receive(c, walk[c], UploadsPage(walk[c], all))
  /\ UNCHANGED <<kind, nodes, slices, cached, changes, faults>>

ListParts(c) ==
  /\ walk[c].pc = "page" /\ kind = "parts"
  /\ IF Panics(walk[c], nodes)
     THEN walk' = [walk EXCEPT ![c].pc = "broken"]
     ELSE Receive(c, walk[c], PartsPage(walk[c], nodes))
  /\ UNCHANGED <<kind, nodes, slices, cached, changes, faults>>

Next ==
  \/ Add \/ Delete \/ Expire
  \/ \E c \in Clients :
       \/ Begin(c) \/ GetList(c) \/ SortList(c) \/ ListObjects(c)
       \/ ListObjectVersions(c) \/ ListMultipartUploads(c) \/ ListParts(c)

Spec == Init /\ [][Next]_vars

---------------------------------------------------------------------------
(* Properties                                                              *)

TypeOK ==
  /\ nodes \subseteq Node
  /\ cached \in 0..Len(slices)
  /\ \A i \in DOMAIN slices :
       /\ slices[i].sorting \subseteq Clients
       /\ ToSet(slices[i].seq) \subseteq Node
  /\ \A c \in Clients :
       /\ walk[c].pc \in {"idle", "list", "sort", "page", "done", "broken"}
       /\ walk[c].slice \in 0..Len(slices)
       /\ walk[c].steady \subseteq Node

Shown(w) == UNION {ToSet(w.pages[i]) : i \in DOMAIN w.pages}

(* What the walk has to show of a node.                                    *)
Shows(w, n) ==
  LET name == IF n.gone \/ kind = "parts" THEN n.key ELSE Place(n)
  IN \E i \in Shown(w) : i.name = name /\ (IsDir(i) \/ i.id = n.id)

Due(n, w) == /\ kind = "parts" \/ Place(n) > w.start
             /\ kind \in {"v1", "v2"} => ~n.gone

(* A walk that ends has shown everything that was there, unchanged, from   *)
(* its beginning to its end.  Left out are: entries of a list that two     *)
(* sorted at once; all that follows a token or mark whose own object has   *)
(* gone since; a version whose HEAD failed; an upload of a later name      *)
(* whose id is not after that of a mark.                                   *)
WalkIsComplete ==
  \A c \in Clients :
    LET w == walk[c]
    IN w.pc = "done" /\ w.max > 0 =>
         \A n \in w.steady : Due(n, w) =>
           \/ Shows(w, n)
           \/ w.spoiled \/ w.lost \/ w.faulty
           \/ kind = "uploads" /\ \E m \in w.marks :
                Place(n) >= m.name /\ (DirOf[n.key] # 0 \/ n.id <= m.id)
           \/ kind = "parts" /\ n.key <= w.start

(* Every page lists names, or uploads, after all of the pages before it:   *)
(* nothing is listed twice, and a walk of a bucket at rest comes to its    *)
(* end.  Pages of versions do not, and neither do those of a list two      *)
(* sorted at once.                                                         *)
PagesAdvance ==
  \A c \in Clients :
    LET w == walk[c]
        all == FlattenSeq(w.pages)
    IN kind # "versions" /\ ~w.spoiled =>
         \A i, j \in DOMAIN all : i < j =>
           \/ all[i].name < all[j].name
           \/ kind = "uploads" /\ all[i].name = all[j].name /\ all[i].id < all[j].id

(* A page never has more entries than were asked for, and has exactly as   *)
(* many whenever the listing says that it goes on, so that a client that   *)
(* stops at a short page misses nothing.  On a page of versions the common *)
(* prefixes come on top.                                                   *)
Truncated(w, i) == i < Len(w.pages) \/ w.pc # "done"
FullPages ==
  \A c \in Clients :
    LET w == walk[c]
    IN \A i \in DOMAIN w.pages :
         LET keys == SelectSeq(w.pages[i], LAMBDA x : ~IsDir(x))
             n == IF kind = "versions" THEN Len(keys) ELSE Len(w.pages[i])
         IN n <= w.max /\ (Truncated(w, i) => n = w.max)
=============================================================================
