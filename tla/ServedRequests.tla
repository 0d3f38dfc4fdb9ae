-------------------------- MODULE ServedRequests --------------------------
(***************************************************************************)
(* A request on its way through the middlewares to its handler and back:   *)
(* authentication, the statistics, the limit of clients                    *)
(* (api/user_auth.go, api/metrics.go, api/max_clients.go), and those who   *)
(* read the statistics (api/metrics_collector.go, metrics/billing.go).     *)
(***************************************************************************)
EXTENDS Naturals, FiniteSets, Sequences

CONSTANTS
  Requests,
  MaxClients,  \* places: requests served at the same time
  MaxDumps,    \* bound: times the billing metrics are read
  MaxToggles   \* bound: times a reload turns the metrics on or off

ASSUME PlacesAssumption == MaxClients \in Nat \ {0}

VARIABLES
  pc,          \* where a request is
  code,        \* its status code: none, ok, err
  pool,        \* the places taken
  current,     \* counters: requests between Inc and Dec
  total,       \* requests that came back from their handler
  errors,      \* those with a status code that is no success
  users,       \* requests in the statistics of users
  dumps,       \* dumps[n]: what the n-th reader of those was given
  enabled,     \* the metrics
  toggles,
  gone         \* clients that gave up

vars == <<pc, code, pool, current, total, errors, users, dumps, enabled,
          toggles, gone>>

Waits   == {r \in Requests : pc[r] = "wait"}
Served  == {r \in Requests : pc[r] = "serve"}
Counted == {r \in Requests :
              pc[r] \in {"wait", "serve", "leave", "user", "total", "error", "dec"}}

Go(r, next) == pc' = [pc EXCEPT ![r] = next]
Init ==
  /\ pc = [r \in Requests |-> "new"] /\ code = [r \in Requests |-> "none"]
  /\ pool = {} /\ current = 0 /\ total = 0 /\ errors = 0
  /\ users = {} /\ dumps = <<>> /\ enabled \in BOOLEAN /\ toggles = 0
  /\ gone = {}

Counters == UNCHANGED <<current, total, errors>>
Billing  == UNCHANGED <<users, dumps, enabled, toggles>>

(* A request that is not authenticated ends here; one without a signature  *)
(* goes on as anonymous.                                                   *)
AuthMiddleware(r) ==
  /\ pc[r] = "new"
  /\ \/ Go(r, "done") /\ code' = [code EXCEPT ![r] = "err"] /\ UNCHANGED current
     \/ Go(r, "wait") /\ current' = current + 1 /\ UNCHANGED code
  /\ UNCHANGED <<pool, total, errors, gone>> /\ Billing

ClientGone(r) ==
  /\ pc[r] \in {"wait", "serve"} /\ gone' = gone \cup {r}
  /\ UNCHANGED <<pc, code, pool>> /\ Counters /\ Billing

FreePlace == Cardinality(pool) < MaxClients

(* Handle of maxClients: whichever is ready of a place, the deadline and   *)
(* the end of the client.                                                  *)
TakePlace(r) ==
  /\ pc[r] = "wait" /\ FreePlace
  /\ pool' = pool \cup {r} /\ Go(r, "serve")
  /\ UNCHANGED <<code, gone>> /\ Counters /\ Billing

(* Mutant: a deadline only for those whose client has gone.                *)
DeadlineOfGone(r) ==
  /\ pc[r] = "wait" /\ r \in gone /\ Go(r, "user")
  /\ code' = [code EXCEPT ![r] = "err"]
  /\ UNCHANGED <<pool, gone>> /\ Counters /\ Billing

Deadline(r) ==
  /\ pc[r] = "wait" /\ Go(r, "user") /\ code' = [code EXCEPT ![r] = "err"]
  /\ UNCHANGED <<pool, gone>> /\ Counters /\ Billing

GiveUp(r) ==
  /\ pc[r] = "wait" /\ r \in gone /\ Go(r, "user")
  /\ UNCHANGED <<code, pool, gone>> /\ Counters /\ Billing

(* The handler answers; one that only writes a body sets no code.          *)
Answer(r) ==
  /\ pc[r] = "serve" /\ Go(r, "leave")
  /\ \E c \in {"none", "ok", "err"} : code' = [code EXCEPT ![r] = c]
  /\ UNCHANGED <<pool, gone>> /\ Counters /\ Billing

(* Mutant: the place is given back only by a handler that returns.         *)
PlacesAfterPanicKept(r) == pool
PlacesAfterPanic(r) == pool \ {r}

(* The handler panics: what was deferred is run, nothing else.             *)
Panic(r) ==
  /\ pc[r] = "serve" /\ pool' = PlacesAfterPanic(r) /\ Go(r, "dec")
  /\ UNCHANGED <<code, gone>> /\ Counters /\ Billing

Leave(r) ==
  /\ pc[r] = "leave" /\ pool' = pool \ {r} /\ Go(r, "user")
  /\ UNCHANGED <<code, gone>> /\ Counters /\ Billing

(* The rest of Stats.                                                      *)
UpdateUsers(r) ==
  /\ pc[r] = "user" /\ Go(r, "total")
  /\ users' = IF enabled THEN users \cup {r} ELSE users
  /\ UNCHANGED <<code, pool, gone, dumps, enabled, toggles>> /\ Counters

(* Mutant: an error is counted before its request.                         *)
CountErrorFirst(r) ==
  /\ total' = total
  /\ errors' = IF code[r] = "err" THEN errors + 1 ELSE errors

CountTotal(r) == total' = total + 1 /\ UNCHANGED errors
Total(r) ==
  /\ pc[r] = "total" /\ CountTotal(r)
  /\ Go(r, IF code[r] = "err" THEN "error" ELSE "dec")
  /\ UNCHANGED <<code, pool, gone, current>> /\ Billing

CountError(r) ==
  /\ pc[r] = "error" /\ errors' = errors + 1 /\ Go(r, "dec")
  /\ UNCHANGED <<code, pool, gone, current, total>> /\ Billing

Dec(r) ==
  /\ pc[r] = "dec" /\ current' = (IF current > 0 THEN current - 1 ELSE 0)
  /\ Go(r, "done")
  /\ UNCHANGED <<code, pool, gone, total, errors>> /\ Billing

Reset == users' = {}

(* DumpMetrics gives the statistics of users to who reads them, and resets *)
(* them, under the lock.                                                   *)
DumpMetrics ==
  /\ Len(dumps) < MaxDumps /\ users # {}
  /\ dumps' = Append(dumps, users)
  /\ Reset
  /\ UNCHANGED <<pc, code, pool, gone, enabled, toggles>> /\ Counters

SetEnabled ==
  /\ toggles < MaxToggles /\ toggles' = toggles + 1 /\ enabled' = ~enabled
  /\ UNCHANGED <<pc, code, pool, gone, users, dumps>> /\ Counters

Back(r) == Leave(r) \/ UpdateUsers(r) \/ Total(r) \/ CountError(r) \/ Dec(r)
Next ==
  \/ \E r \in Requests :
       \/ AuthMiddleware(r) \/ ClientGone(r) \/ TakePlace(r) \/ Deadline(r)
       \/ GiveUp(r) \/ Answer(r) \/ Panic(r) \/ Back(r)
  \/ DumpMetrics \/ SetEnabled

(* The timer of a request fires, and what follows the handler is run.  A   *)
(* handler may take for ever, and its place with it.                       *)
Fairness == \A r \in Requests : WF_vars(Deadline(r)) /\ WF_vars(Back(r))
Spec == Init /\ [][Next]_vars /\ Fairness

---------------------------------------------------------------------------
(* Properties                                                              *)

TypeOK ==
  /\ pc \in [Requests -> {"new", "wait", "serve", "leave", "user", "total",
                          "error", "dec", "done"}]
  /\ code \in [Requests -> {"none", "ok", "err"}]
  /\ pool \subseteq Requests /\ gone \subseteq Requests
  /\ users \subseteq Requests
  /\ current \in Nat /\ total \in Nat /\ errors \in Nat

(* A place is taken by a request that is served and by no other: neither   *)
(* a panic, nor a deadline, nor a client that is gone leaves one taken,    *)
(* and never are more requests served than there are places.               *)
PlacesAreServed ==
  /\ pool = {r \in Requests : pc[r] \in {"serve", "leave"}}
  /\ Cardinality(pool) <= MaxClients

(* The gauge of running requests tells their number, whatever became of    *)
(* their handlers, and no more errors are counted than requests.           *)
GaugesAreTrue == current = Cardinality(Counted) /\ errors <= total

(* Each request that came back is billed once at most, and once if the     *)
(* metrics are always enabled: it is in the statistics that are still to   *)
(* be read, or in one dump.                                                *)
BilledOnce ==
  /\ enabled /\ toggles = 0 =>
       \A r \in Requests : pc[r] \in {"total", "error"} =>
         r \in users \/ \E n \in DOMAIN dumps : r \in dumps[n]
  /\ \A n, m \in DOMAIN dumps :
       dumps[n] \cap users = {} /\ (n # m => dumps[n] \cap dumps[m] = {})

(* The statistics tell the truth: gauge, counters and bills.               *)
StatisticsAreTrue == GaugesAreTrue /\ BilledOnce

AtError == {r \in Requests : pc[r] = "error"}
Past    == {r \in Requests : pc[r] \in {"total", "error", "dec", "done"}}

(* The inductive invariant behind these.  An error is counted after its    *)
(* request, so the requests that stand between the two counters make up    *)
(* for the difference; who is in the statistics, read or not, is past the  *)
(* step that enters it there, and never comes back to it; and the sets     *)
(* that are counted are finite, however many requests there are.           *)
IInv ==
  /\ TypeOK
  /\ dumps \in Seq(SUBSET Requests) /\ toggles \in Nat
  /\ PlacesAreServed /\ IsFiniteSet(pool)
  /\ current = Cardinality(Counted) /\ IsFiniteSet(Counted)
  /\ errors + Cardinality(AtError) <= total /\ IsFiniteSet(AtError)
  /\ users \subseteq Past /\ \A n \in DOMAIN dumps : dumps[n] \subseteq Past
  /\ BilledOnce

(* Whoever waits for a place is answered, even if no place is ever free.   *)
WaitersAreAnswered == \A r \in Requests : pc[r] = "wait" ~> pc[r] # "wait"
=============================================================================
