--------------------------- MODULE Notifications ---------------------------
(***************************************************************************)
(* Notifications of what happens to the objects of a bucket, through NATS  *)
(* (api/handler/notifications.go, api/notifications/controller.go): a PUT  *)
(* of the configuration tests each queue before it is saved, an operation  *)
(* that has succeeded sends its event to the queues that asked for it.     *)
(* What is saved, and how, is the subject of BucketConfig.                 *)
(***************************************************************************)
EXTENDS Naturals, FiniteSets, SequencesExt

CONSTANTS
  Requests,
  Confs,       \* configurations: sequences of [id, events, queue, names],
               \* names those of the objects its filter rules let pass
  Objects,
  Enabled,     \* notifications are configured
  MaxFaults    \* bound: failed calls

(* What the gateway tells of, and what may be asked for besides.           *)
Created  == {"Put", "Post", "Copy", "Complete"}
Removed  == {"Delete", "DeleteMarkerCreated"}
Types    == Created \cup Removed \cup {"TaggingPut", "TaggingDelete", "AclPut"}
Families == [f \in {"ObjectCreated", "ObjectRemoved", "ObjectTagging"} |->
               CASE f = "ObjectCreated" -> Created
                 [] f = "ObjectRemoved" -> Removed
                 [] OTHER -> {"TaggingPut", "TaggingDelete"}]
ValidEvents == Types \cup DOMAIN Families \cup {"Restore"}

VARIABLES
  conf,        \* the configuration saved
  req,         \* req[r]: [op, pc, conf, i, event, obj, todo, res]
  tested,      \* queues that took a test event
  sent,        \* what was published: [r, id, queue]
  faults

vars == <<conf, req, tested, sent, faults>>

Idle == [op |-> "none", pc |-> "idle", conf |-> <<>>, i |-> 0,
         event |-> "none", obj |-> "none", todo |-> {}, lost |-> {}]
Step(r, next) == req' = [req EXCEPT ![r] = next]
Fails == faults < MaxFaults /\ faults' = faults + 1

Init == /\ conf = <<>> /\ tested = {} /\ sent = {} /\ faults = 0
        /\ req = [r \in Requests |-> Idle]

---------------------------------------------------------------------------
(* PutBucketNotification                                                   *)

CheckEvents(t) == t.events \subseteq ValidEvents

BeginPut(r) ==
  /\ req[r].pc = "idle"
  /\ \E c \in Confs : Step(r, [Idle EXCEPT !.op = "put", !.pc = "check",
                                           !.conf = c, !.i = 1])
  /\ UNCHANGED <<conf, tested, sent, faults>>

Checked(r) == req[r].i > Len(req[r].conf)

(* A queue whose events are not valid, or that does not take its test      *)
(* event, ends the request: those before it have had theirs.               *)
CheckQueue(r) ==
  LET q == req[r]  t == q.conf[q.i]  end == [q EXCEPT !.pc = "done"]
  IN /\ q.pc = "check" /\ q.i <= Len(q.conf)
     /\ IF ~CheckEvents(t)
        THEN Step(r, end) /\ UNCHANGED <<tested, faults>>
        ELSE \/ /\ Step(r, [q EXCEPT !.i = @ + 1])
                /\ tested' = IF Enabled THEN tested \cup {t.queue} ELSE tested
                /\ UNCHANGED faults
             \/ Enabled /\ Fails /\ Step(r, end) /\ UNCHANGED tested
     /\ UNCHANGED <<conf, sent>>

Save(r) ==
  /\ req[r].pc = "check" /\ Checked(r)
  /\ \/ conf' = req[r].conf /\ UNCHANGED faults
     \/ Fails /\ UNCHANGED conf
  /\ Step(r, [req[r] EXCEPT !.pc = "done"])
  /\ UNCHANGED <<tested, sent>>

---------------------------------------------------------------------------
(* sendNotifications                                                       *)

(* An event is compared with what is asked for less its last character, as *)
(* if that were a star.                                                    *)
Matches(event, e) ==
  \/ event = e
  \/ e \in DOMAIN Families /\ event \in Families[e]
  \/ e = "Delete" /\ event = "DeleteMarkerCreated"

(* Mutant: the filter rules of the name are not looked at.                 *)
FilterSubjectsByEvent(c, event, obj) ==
  {[id |-> c[i].id, queue |-> c[i].queue] : i \in
     {j \in DOMAIN c : \E e \in c[j].events : Matches(event, e)}}

(* Topics by id: of two with the same id, the last.                        *)
FilterSubjects(c, event, obj) ==
  LET asks == {j \in DOMAIN c : /\ obj \in c[j].names
                                /\ \E e \in c[j].events : Matches(event, e)}
  IN {[id |-> c[i].id, queue |-> c[i].queue] : i \in
        {j \in asks : \A k \in asks : c[k].id = c[j].id => k <= j}}

(* An operation on an object has succeeded; its configuration is read.     *)
SendNotifications(r) ==
  /\ req[r].pc = "idle" /\ Enabled
  /\ \E event \in Types, obj \in Objects :
       LET q == [Idle EXCEPT !.op = "send", !.event = event, !.obj = obj,
                             !.conf = conf]
       IN \/ /\ Step(r, [q EXCEPT !.pc = "publish",
                                  !.todo = FilterSubjects(conf, event, obj)])
             /\ UNCHANGED faults
          \/ Fails /\ Step(r, [q EXCEPT !.pc = "failed"])
  /\ UNCHANGED <<conf, tested, sent>>

AfterFailure(q, t) == q.todo \ {t}

(* The topics come in the order of a Go map; one that fails is logged.     *)
Publish(r) ==
  LET q == req[r]
  IN /\ q.pc = "publish"
     /\ \/ q.todo = {} /\ Step(r, [q EXCEPT !.pc = "done"])
           /\ UNCHANGED <<sent, faults>>
        \/ \E t \in q.todo :
             \/ /\ sent' = sent \cup {[r |-> r, id |-> t.id, queue |-> t.queue]}
                /\ Step(r, [q EXCEPT !.todo = @ \ {t}]) /\ UNCHANGED faults
             \/ /\ Fails /\ UNCHANGED sent
                /\ Step(r, [q EXCEPT !.todo = AfterFailure(q, t),
                                     !.lost = @ \cup {t}])
     /\ UNCHANGED <<conf, tested>>

Next == \E r \in Requests :
          \/ BeginPut(r) \/ CheckQueue(r) \/ Save(r)
          \/ SendNotifications(r) \/ Publish(r)
Spec == Init /\ [][Next]_vars

---------------------------------------------------------------------------
(* Properties                                                              *)

(* With notifications enabled, every queue of the configuration in force   *)
(* has taken a test event.                                                 *)
SavedIsTested == Enabled => \A i \in DOMAIN conf : conf[i].queue \in tested

Asked(t, event, obj) ==
  /\ obj \in t.names
  /\ \E e \in t.events : event = e \/ (e \in DOMAIN Families /\ event \in Families[e])

(* When an operation has sent its notifications, every queue whose events  *)
(* and filter the operation meets has been told, save one that failed and  *)
(* one whose id another has; and nobody else has been told anything, save  *)
(* those who asked for deletions of the markers of deletion.               *)
ToldAreThoseWhoAsked ==
  \A r \in Requests :
    LET q == req[r]
        mine == {s \in sent : s.r = r}
    IN q.op = "send" /\ q.pc = "done" =>
         /\ \A i \in DOMAIN q.conf :
              LET t == q.conf[i] IN
              Asked(t, q.event, q.obj) =>
                \/ \E s \in mine : s.id = t.id /\ s.queue = t.queue
                \/ [id |-> t.id, queue |-> t.queue] \in q.lost
                \/ \E j \in DOMAIN q.conf : j > i /\ q.conf[j].id = t.id
         /\ \A s \in mine : \E i \in DOMAIN q.conf :
              LET t == q.conf[i] IN
              /\ t.id = s.id /\ t.queue = s.queue
              /\ \/ Asked(t, q.event, q.obj)
                 \/ /\ q.event = "DeleteMarkerCreated"
                    /\ Asked(t, "Delete", q.obj)
=============================================================================
