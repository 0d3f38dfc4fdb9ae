-------------------------- MODULE Services_proofs --------------------------
(***************************************************************************)
(* Proofs about the three parts of the process in MCServices: the requests *)
(* it serves, for any set of them, an infinite one included, any number of *)
(* places, of readers of the statistics and of switches of the metrics;    *)
(* the resolution of names, for any lists of resolvers; the life of the    *)
(* process, for any contents of its configuration file.                    *)
(***************************************************************************)
EXTENDS MCServices, FiniteSetTheorems, TLAPS

(* The counted sets grow and shrink by one request.                        *)
LEMMA OneMore ==
  ASSUME NEW S, NEW x, IsFiniteSet(S), x \notin S
  PROVE  IsFiniteSet(S \cup {x}) /\ Cardinality(S \cup {x}) = Cardinality(S) + 1
BY FS_AddElement

LEMMA OneLess ==
  ASSUME NEW S, NEW x, IsFiniteSet(S), x \in S
  PROVE  IsFiniteSet(S \ {x}) /\ Cardinality(S \ {x}) = Cardinality(S) - 1
BY FS_RemoveElement

LEMMA CountsAreNaturals ==
  ASSUME NEW S, IsFiniteSet(S)
  PROVE  Cardinality(S) \in Nat
BY FS_CardinalityType

LEMMA InitHolds == Init => IInv
<1> SUFFICES ASSUME Init PROVE IInv
  OBVIOUS
<1>1. pool = {} /\ Counted = {} /\ AtError = {} /\ {r \in Requests : pc[r] \in {"serve", "leave"}} = {}
  BY DEF Init, Counted, AtError
<1>2. IsFiniteSet({}) /\ Cardinality({}) = 0
  BY FS_EmptySet
<1>3. TypeOK /\ dumps \in Seq(SUBSET Requests) /\ toggles \in Nat /\ dumps = <<>>
  BY DEF Init, TypeOK
<1>4. PlacesAreServed
  BY <1>1, <1>2, PlacesAssumption DEF PlacesAreServed
<1>5. BilledOnce
  BY <1>3 DEF BilledOnce, Init
<1>6. users \subseteq Past /\ \A n \in DOMAIN dumps : dumps[n] \subseteq Past
  BY <1>3 DEF Init
<1> QED
  BY <1>1, <1>2, <1>3, <1>4, <1>5, <1>6 DEF IInv, Init

(* A step of one request, which brings it to its next place, keeps the     *)
(* sets that do not turn on it.                                            *)
LEMMA RequestMoves ==
  ASSUME IInv, NEW r \in Requests, NEW next, Go(r, next),
         next \in {"new", "wait", "serve", "leave", "user", "total", "error", "dec", "done"}
  PROVE  /\ pc' \in [Requests -> {"new", "wait", "serve", "leave", "user", "total",
                                  "error", "dec", "done"}]
         /\ pc'[r] = next /\ \A q \in Requests \ {r} : pc'[q] = pc[q]
BY DEF IInv, TypeOK, Go

Counting == {"wait", "serve", "leave", "user", "total", "error", "dec"}

LEMMA CountedKept ==
  ASSUME IInv, NEW r \in Requests, pc'[r] \in Counting <=> pc[r] \in Counting,
         \A q \in Requests \ {r} : pc'[q] = pc[q]
  PROVE  Counted' = Counted
BY DEF Counted, Counting

LEMMA AtErrorKept ==
  ASSUME IInv, NEW r \in Requests, pc'[r] # "error", pc[r] # "error",
         \A q \in Requests \ {r} : pc'[q] = pc[q]
  PROVE  AtError' = AtError
BY DEF AtError

LEMMA ServedKept ==
  ASSUME IInv, NEW r \in Requests, pc'[r] \in {"serve", "leave"} <=> pc[r] \in {"serve", "leave"},
         \A q \in Requests \ {r} : pc'[q] = pc[q], pool' = pool
  PROVE  PlacesAreServed' /\ IsFiniteSet(pool')
BY DEF IInv, PlacesAreServed

(* What steps that leave the statistics alone do to them: a request goes   *)
(* forward, and not yet past them.                                         *)
LEMMA BillingKept ==
  ASSUME IInv, NEW r \in Requests, Billing,
         \A q \in Requests \ {r} : pc'[q] = pc[q],
         pc[r] \in {"total", "error", "dec", "done"} => pc'[r] \in {"total", "error", "dec", "done"},
         pc'[r] \in {"total", "error"} => pc[r] \in {"total", "error"}
  PROVE  /\ dumps' \in Seq(SUBSET Requests) /\ toggles' \in Nat
         /\ users' \subseteq Past' /\ \A n \in DOMAIN dumps' : dumps'[n] \subseteq Past'
         /\ BilledOnce'
<1>1. /\ users' = users /\ dumps' = dumps /\ enabled' = enabled /\ toggles' = toggles
  BY DEF Billing
<1>2. Past \subseteq Past'
  BY DEF Past
<1>3. BilledOnce'
  BY <1>1 DEF IInv, BilledOnce
<1> QED
  BY <1>1, <1>2, <1>3 DEF IInv

---------------------------------------------------------------------------
LEMMA AuthMiddlewareKeeps ==
  ASSUME IInv, NEW r \in Requests, AuthMiddleware(r)
  PROVE  IInv'
<1>1. PICK next \in {"wait", "done"} :
        /\ Go(r, next)
        /\ next = "wait" => current' = current + 1 /\ code' = code
        /\ next = "done" => current' = current /\ code' = [code EXCEPT ![r] = "err"]
  BY DEF AuthMiddleware
<1>2. /\ pc[r] = "new" /\ pool' = pool /\ total' = total /\ errors' = errors /\ gone' = gone
      /\ Billing
  BY DEF AuthMiddleware
<1>3. /\ pc'[r] = next /\ \A q \in Requests \ {r} : pc'[q] = pc[q]
      /\ pc' \in [Requests -> {"new", "wait", "serve", "leave", "user", "total",
                               "error", "dec", "done"}]
  BY <1>1, RequestMoves
<1>4. Counted' = IF next = "wait" THEN Counted \cup {r} ELSE Counted
  BY <1>2, <1>3 DEF Counted
<1>5. r \notin Counted
  BY <1>2 DEF Counted
<1>6. current' = Cardinality(Counted') /\ IsFiniteSet(Counted')
  BY <1>1, <1>4, <1>5, OneMore DEF IInv
<1>7. TypeOK'
  BY <1>1, <1>2, <1>3 DEF IInv, TypeOK, Billing
<1>8. PlacesAreServed' /\ IsFiniteSet(pool') /\ AtError' = AtError
  BY <1>2, <1>3, ServedKept, AtErrorKept
<1>9. /\ dumps' \in Seq(SUBSET Requests) /\ toggles' \in Nat /\ BilledOnce'
      /\ users' \subseteq Past' /\ \A n \in DOMAIN dumps' : dumps'[n] \subseteq Past'
  BY <1>2, <1>3, BillingKept
<1> QED
  BY <1>2, <1>6, <1>7, <1>8, <1>9 DEF IInv

(* A step to another place at which a request is counted the same.         *)
LEMMA QuietStep ==
  ASSUME IInv, NEW r \in Requests, NEW next, Go(r, next), pc[r] \in Counting, next \in Counting,
         next # "error", pc[r] # "error",
         code' \in [Requests -> {"none", "ok", "err"}], gone' \subseteq Requests,
         pool' \subseteq Requests, Counters, Billing,
         PlacesAreServed' /\ IsFiniteSet(pool'),
         pc[r] \in {"total", "error", "dec", "done"} => next \in {"total", "error", "dec", "done"},
         next \notin {"total", "error"}
  PROVE  IInv'
<1>1. /\ pc'[r] = next /\ \A q \in Requests \ {r} : pc'[q] = pc[q]
      /\ pc' \in [Requests -> {"new", "wait", "serve", "leave", "user", "total",
                               "error", "dec", "done"}]
  BY RequestMoves DEF Counting
<1>2. Counted' = Counted
  BY <1>1, CountedKept
<1>3. AtError' = AtError
  BY <1>1, AtErrorKept
<1>4. TypeOK'
  BY <1>1 DEF IInv, TypeOK, Counters, Billing
<1>5. /\ dumps' \in Seq(SUBSET Requests) /\ toggles' \in Nat /\ BilledOnce'
      /\ users' \subseteq Past' /\ \A n \in DOMAIN dumps' : dumps'[n] \subseteq Past'
  BY <1>1, BillingKept
<1> QED
  BY <1>2, <1>3, <1>4, <1>5 DEF IInv, Counters

LEMMA TakePlaceKeeps ==
  ASSUME IInv, NEW r \in Requests, TakePlace(r)
  PROVE  IInv'
<1>1. /\ pc[r] = "wait" /\ pool' = pool \cup {r} /\ Go(r, "serve") /\ FreePlace
      /\ code' = code /\ gone' = gone /\ Counters /\ Billing
  BY DEF TakePlace
<1>2. pc'[r] = "serve" /\ \A q \in Requests \ {r} : pc'[q] = pc[q]
  BY <1>1, RequestMoves
<1>3. pool' = {q \in Requests : pc'[q] \in {"serve", "leave"}}
  BY <1>1, <1>2 DEF IInv, PlacesAreServed
<1>4. r \notin pool
  BY <1>1 DEF IInv, PlacesAreServed
<1>5. IsFiniteSet(pool') /\ Cardinality(pool') = Cardinality(pool) + 1
  BY <1>1, <1>4, OneMore DEF IInv
<1>6. Cardinality(pool') <= MaxClients
  BY <1>1, <1>5, CountsAreNaturals, PlacesAssumption DEF FreePlace, IInv
<1>7. PlacesAreServed' /\ IsFiniteSet(pool') /\ pool' \subseteq Requests
  BY <1>3, <1>5, <1>6 DEF PlacesAreServed
<1> QED
  BY <1>1, <1>7, QuietStep DEF IInv, TypeOK, Counting

(* Whoever leaves gives the place back, by returning or by a panic.        *)
LEMMA PlaceGivenBack ==
  ASSUME IInv, NEW r \in Requests, pc[r] \in {"serve", "leave"}, pool' = pool \ {r},
         pc'[r] \notin {"serve", "leave"}, \A q \in Requests \ {r} : pc'[q] = pc[q]
  PROVE  PlacesAreServed' /\ IsFiniteSet(pool') /\ pool' \subseteq Requests
<1>1. pool' = {q \in Requests : pc'[q] \in {"serve", "leave"}}
  BY DEF IInv, PlacesAreServed
<1>2. r \in pool
  BY DEF IInv, PlacesAreServed
<1>3. IsFiniteSet(pool') /\ Cardinality(pool') = Cardinality(pool) - 1
  BY <1>2, OneLess DEF IInv
<1>4. Cardinality(pool') <= MaxClients
  BY <1>3, CountsAreNaturals, PlacesAssumption DEF IInv, PlacesAreServed
<1> QED
  BY <1>1, <1>3, <1>4 DEF PlacesAreServed, IInv, TypeOK

LEMMA PanicKeeps ==
  ASSUME IInv, NEW r \in Requests, Panic(r)
  PROVE  IInv'
<1>1. /\ pc[r] = "serve" /\ pool' = pool \ {r} /\ Go(r, "dec")
      /\ code' = code /\ gone' = gone /\ Counters /\ Billing
  BY DEF Panic, PlacesAfterPanic
<1>2. pc'[r] = "dec" /\ \A q \in Requests \ {r} : pc'[q] = pc[q]
  BY <1>1, RequestMoves
<1>3. PlacesAreServed' /\ IsFiniteSet(pool') /\ pool' \subseteq Requests
  BY <1>1, <1>2, PlaceGivenBack
<1> QED
  BY <1>1, <1>3, QuietStep DEF IInv, TypeOK, Counting

LEMMA LeaveKeeps ==
  ASSUME IInv, NEW r \in Requests, Leave(r)
  PROVE  IInv'
<1>1. /\ pc[r] = "leave" /\ pool' = pool \ {r} /\ Go(r, "user")
      /\ code' = code /\ gone' = gone /\ Counters /\ Billing
  BY DEF Leave
<1>2. pc'[r] = "user" /\ \A q \in Requests \ {r} : pc'[q] = pc[q]
  BY <1>1, RequestMoves
<1>3. PlacesAreServed' /\ IsFiniteSet(pool') /\ pool' \subseteq Requests
  BY <1>1, <1>2, PlaceGivenBack
<1> QED
  BY <1>1, <1>3, QuietStep DEF IInv, TypeOK, Counting

(* An answer, and whoever is sent away from the queue.                     *)
LEMMA AnsweredKeeps ==
  ASSUME IInv, NEW r \in Requests, Deadline(r) \/ GiveUp(r) \/ Answer(r)
  PROVE  IInv'
<1>1. PICK next \in {"user", "leave"} :
        /\ Go(r, next) /\ pc[r] = (IF next = "user" THEN "wait" ELSE "serve")
  BY DEF Deadline, GiveUp, Answer
<1>2. pool' = pool /\ gone' = gone /\ Counters /\ Billing
  BY DEF Deadline, GiveUp, Answer
<1>3. code' \in [Requests -> {"none", "ok", "err"}]
  BY DEF Deadline, GiveUp, Answer, IInv, TypeOK
<1>4. pc'[r] = next /\ \A q \in Requests \ {r} : pc'[q] = pc[q]
  BY <1>1, RequestMoves
<1>5. PlacesAreServed' /\ IsFiniteSet(pool')
  BY <1>1, <1>2, <1>4, ServedKept
<1> QED
  BY <1>1, <1>2, <1>3, <1>5, QuietStep DEF IInv, TypeOK, Counting

---------------------------------------------------------------------------
(* The user's statistics: the request was in none before.                  *)
LEMMA UpdateUsersKeeps ==
  ASSUME IInv, NEW r \in Requests, UpdateUsers(r)
  PROVE  IInv'
<1>1. /\ pc[r] = "user" /\ Go(r, "total") /\ code' = code /\ pool' = pool /\ gone' = gone
      /\ dumps' = dumps /\ enabled' = enabled /\ toggles' = toggles /\ Counters
      /\ users' = IF enabled THEN users \cup {r} ELSE users
  BY DEF UpdateUsers
<1>2. /\ pc'[r] = "total" /\ \A q \in Requests \ {r} : pc'[q] = pc[q]
      /\ pc' \in [Requests -> {"new", "wait", "serve", "leave", "user", "total",
                               "error", "dec", "done"}]
  BY <1>1, RequestMoves
<1>3. r \notin users /\ \A n \in DOMAIN dumps : r \notin dumps[n]
  BY <1>1 DEF IInv, Past
<1>4. Past' = Past \cup {r}
  BY <1>1, <1>2 DEF Past
<1>5. Counted' = Counted /\ AtError' = AtError
  BY <1>1, <1>2, CountedKept, AtErrorKept DEF Counting
<1>6. PlacesAreServed' /\ IsFiniteSet(pool')
  BY <1>1, <1>2, ServedKept
<1>7. TypeOK'
  BY <1>1, <1>2 DEF IInv, TypeOK, Counters
<1>8. BilledOnce'
  <2>1. ASSUME enabled', toggles' = 0, NEW q \in Requests, pc'[q] \in {"total", "error"}
        PROVE  q \in users' \/ \E n \in DOMAIN dumps' : q \in dumps'[n]
    <3>1. CASE q = r
      BY <1>1, <2>1, <3>1
    <3>2. CASE q # r
      BY <1>1, <1>2, <2>1, <3>2 DEF IInv, BilledOnce
    <3> QED
      BY <3>1, <3>2
  <2>2. ASSUME NEW n \in DOMAIN dumps', NEW m \in DOMAIN dumps'
        PROVE  dumps'[n] \cap users' = {} /\ (n # m => dumps'[n] \cap dumps'[m] = {})
    BY <1>1, <1>3, <2>2 DEF IInv, BilledOnce
  <2> QED
    BY <2>1, <2>2 DEF BilledOnce
<1> QED
  BY <1>1, <1>4, <1>5, <1>6, <1>7, <1>8 DEF IInv, Counters

(* A request is counted before its error.                                  *)
LEMMA TotalKeeps ==
  ASSUME IInv, NEW r \in Requests, Total(r)
  PROVE  IInv'
<1>1. PICK next \in {"error", "dec"} : Go(r, next)
  BY DEF Total
<1>2. /\ pc[r] = "total" /\ code' = code /\ pool' = pool /\ gone' = gone /\ current' = current
      /\ total' = total + 1 /\ errors' = errors /\ Billing
  BY DEF Total, CountTotal
<1>3. /\ pc'[r] = next /\ \A q \in Requests \ {r} : pc'[q] = pc[q]
      /\ pc' \in [Requests -> {"new", "wait", "serve", "leave", "user", "total",
                               "error", "dec", "done"}]
  BY <1>1, RequestMoves
<1>4. Counted' = Counted
  BY <1>2, <1>3, CountedKept DEF Counting
<1>5. AtError' = IF next = "error" THEN AtError \cup {r} ELSE AtError
  BY <1>2, <1>3 DEF AtError
<1>6. r \notin AtError
  BY <1>2 DEF AtError
<1>7. IsFiniteSet(AtError') /\ Cardinality(AtError') <= Cardinality(AtError) + 1
  <2>1. IsFiniteSet(AtError) /\ Cardinality(AtError) \in Nat
    BY CountsAreNaturals DEF IInv
  <2>2. CASE next = "error"
    <3>1. AtError' = AtError \cup {r}
      BY <1>5, <2>2
    <3>2. /\ IsFiniteSet(AtError \cup {r})
          /\ Cardinality(AtError \cup {r}) = Cardinality(AtError) + 1
      BY <1>6, <2>1, OneMore
    <3> QED
      BY <2>1, <3>1, <3>2
  <2>3. CASE next = "dec"
    BY <1>5, <2>1, <2>3
  <2> QED
    BY <2>2, <2>3
<1>8. errors' + Cardinality(AtError') <= total'
  BY <1>2, <1>7, CountsAreNaturals DEF IInv, TypeOK
<1>9. PlacesAreServed' /\ IsFiniteSet(pool')
  BY <1>2, <1>3, ServedKept
<1>10. TypeOK'
  BY <1>2, <1>3 DEF IInv, TypeOK, Billing
<1>11. /\ dumps' \in Seq(SUBSET Requests) /\ toggles' \in Nat /\ BilledOnce'
       /\ users' \subseteq Past' /\ \A n \in DOMAIN dumps' : dumps'[n] \subseteq Past'
  BY <1>2, <1>3, BillingKept
<1> QED
  BY <1>2, <1>4, <1>7, <1>8, <1>9, <1>10, <1>11 DEF IInv

LEMMA CountErrorKeeps ==
  ASSUME IInv, NEW r \in Requests, CountError(r)
  PROVE  IInv'
<1>1. /\ pc[r] = "error" /\ code' = code /\ pool' = pool /\ gone' = gone /\ current' = current
      /\ total' = total /\ errors' = errors + 1 /\ Billing /\ Go(r, "dec")
  BY DEF CountError
<1>2. /\ pc'[r] = "dec" /\ \A q \in Requests \ {r} : pc'[q] = pc[q]
      /\ pc' \in [Requests -> {"new", "wait", "serve", "leave", "user", "total",
                               "error", "dec", "done"}]
  BY <1>1, RequestMoves
<1>3. Counted' = Counted
  BY <1>1, <1>2, CountedKept DEF Counting
<1>4. AtError' = AtError \ {r} /\ r \in AtError
  BY <1>1, <1>2 DEF AtError
<1>5. IsFiniteSet(AtError') /\ Cardinality(AtError') = Cardinality(AtError) - 1
  BY <1>4, OneLess DEF IInv
<1>6. errors' + Cardinality(AtError') <= total'
  BY <1>1, <1>5, CountsAreNaturals DEF IInv, TypeOK
<1>7. PlacesAreServed' /\ IsFiniteSet(pool')
  BY <1>1, <1>2, ServedKept
<1>8. TypeOK'
  BY <1>1, <1>2 DEF IInv, TypeOK, Billing
<1>9. /\ dumps' \in Seq(SUBSET Requests) /\ toggles' \in Nat /\ BilledOnce'
      /\ users' \subseteq Past' /\ \A n \in DOMAIN dumps' : dumps'[n] \subseteq Past'
  BY <1>1, <1>2, BillingKept
<1> QED
  BY <1>1, <1>3, <1>5, <1>6, <1>7, <1>8, <1>9 DEF IInv

(* The gauge is never zero for a request that still counts.                *)
LEMMA DecKeeps ==
  ASSUME IInv, NEW r \in Requests, Dec(r)
  PROVE  IInv'
<1>1. /\ pc[r] = "dec" /\ code' = code /\ pool' = pool /\ gone' = gone
      /\ current' = (IF current > 0 THEN current - 1 ELSE 0)
      /\ total' = total /\ errors' = errors /\ Billing /\ Go(r, "done")
  BY DEF Dec
<1>2. /\ pc'[r] = "done" /\ \A q \in Requests \ {r} : pc'[q] = pc[q]
      /\ pc' \in [Requests -> {"new", "wait", "serve", "leave", "user", "total",
                               "error", "dec", "done"}]
  BY <1>1, RequestMoves
<1>3. Counted' = Counted \ {r} /\ r \in Counted
  BY <1>1, <1>2 DEF Counted
<1>4. /\ IsFiniteSet(Counted') /\ Cardinality(Counted') = Cardinality(Counted) - 1
      /\ Cardinality(Counted') \in Nat
  BY <1>3, OneLess, CountsAreNaturals DEF IInv
<1>5. current' = Cardinality(Counted') /\ current' \in Nat
  BY <1>1, <1>4 DEF IInv, TypeOK
<1>6. AtError' = AtError
  BY <1>1, <1>2, AtErrorKept
<1>7. PlacesAreServed' /\ IsFiniteSet(pool')
  BY <1>1, <1>2, ServedKept
<1>8. TypeOK'
  BY <1>1, <1>2, <1>5 DEF IInv, TypeOK, Billing
<1>9. /\ dumps' \in Seq(SUBSET Requests) /\ toggles' \in Nat /\ BilledOnce'
      /\ users' \subseteq Past' /\ \A n \in DOMAIN dumps' : dumps'[n] \subseteq Past'
  BY <1>1, <1>2, BillingKept
<1> QED
  BY <1>1, <1>4, <1>5, <1>6, <1>7, <1>8, <1>9 DEF IInv

---------------------------------------------------------------------------
(* Steps that move no request.                                             *)
LEMMA StandStill ==
  ASSUME IInv, pc' = pc, pool' = pool, code' = code, Counters, gone' \subseteq Requests,
         users' \subseteq users, dumps' \in Seq(SUBSET Requests), toggles' \in Nat,
         \A n \in DOMAIN dumps' : dumps'[n] \subseteq Past, BilledOnce'
  PROVE  IInv'
<1>1. Counted' = Counted /\ AtError' = AtError /\ Past' = Past
  BY DEF Counted, AtError, Past
<1>2. TypeOK'
  BY DEF IInv, TypeOK, Counters
<1>3. PlacesAreServed'
  BY DEF IInv, PlacesAreServed
<1> QED
  BY <1>1, <1>2, <1>3 DEF IInv, Counters

LEMMA DumpMetricsKeeps ==
  ASSUME IInv, DumpMetrics
  PROVE  IInv'
<1>1. /\ dumps' = Append(dumps, users) /\ users' = {} /\ pc' = pc /\ pool' = pool
      /\ code' = code /\ gone' = gone /\ enabled' = enabled /\ toggles' = toggles /\ Counters
  BY DEF DumpMetrics, Reset
<1>2. /\ dumps \in Seq(SUBSET Requests) /\ users \in SUBSET Requests
      /\ users \subseteq Past /\ BilledOnce
      /\ \A n \in DOMAIN dumps : dumps[n] \subseteq Past
  BY DEF IInv, TypeOK
<1>3. /\ dumps' \in Seq(SUBSET Requests) /\ Len(dumps') = Len(dumps) + 1
      /\ dumps'[Len(dumps) + 1] = users
      /\ DOMAIN dumps' = DOMAIN dumps \cup {Len(dumps) + 1}
      /\ \A n \in DOMAIN dumps : dumps'[n] = dumps[n]
  BY <1>1, <1>2
<1>4. \A n \in DOMAIN dumps' : dumps'[n] \subseteq Past
  BY <1>2, <1>3
<1>5. ASSUME NEW n \in DOMAIN dumps', NEW m \in DOMAIN dumps', n # m
      PROVE  dumps'[n] \cap dumps'[m] = {}
  BY <1>2, <1>3, <1>5 DEF BilledOnce
<1>6. ASSUME enabled', toggles' = 0, NEW q \in Requests, pc'[q] \in {"total", "error"}
      PROVE  \E n \in DOMAIN dumps' : q \in dumps'[n]
  <2>1. q \in users \/ \E n \in DOMAIN dumps : q \in dumps[n]
    BY <1>1, <1>2, <1>6 DEF BilledOnce
  <2> QED
    BY <1>3, <2>1
<1>7. BilledOnce'
  BY <1>1, <1>5, <1>6 DEF BilledOnce
<1> QED
  BY <1>1, <1>3, <1>4, <1>7, StandStill DEF IInv, TypeOK

LEMMA SetEnabledKeeps ==
  ASSUME IInv, SetEnabled
  PROVE  IInv'
<1>1. /\ toggles' = toggles + 1 /\ dumps' = dumps /\ users' = users /\ pc' = pc
      /\ pool' = pool /\ code' = code /\ gone' = gone /\ Counters
  BY DEF SetEnabled
<1>2. toggles' \in Nat /\ toggles' # 0
  BY <1>1 DEF IInv
<1>3. BilledOnce'
  BY <1>1, <1>2 DEF IInv, BilledOnce
<1> QED
  BY <1>1, <1>2, <1>3, StandStill DEF IInv, TypeOK

LEMMA ClientGoneKeeps ==
  ASSUME IInv, NEW r \in Requests, ClientGone(r)
  PROVE  IInv'
<1>1. /\ gone' = gone \cup {r} /\ pc' = pc /\ pool' = pool /\ code' = code /\ Counters
      /\ users' = users /\ dumps' = dumps /\ enabled' = enabled /\ toggles' = toggles
  BY DEF ClientGone, Billing
<1>2. BilledOnce'
  BY <1>1 DEF IInv, BilledOnce
<1> QED
  BY <1>1, <1>2, StandStill DEF IInv, TypeOK

LEMMA StutterKeeps ==
  ASSUME IInv, UNCHANGED vars
  PROVE  IInv'
<1>1. BilledOnce'
  BY DEF IInv, BilledOnce, vars
<1> QED
  BY <1>1, StandStill DEF vars, IInv, TypeOK, Counters

LEMMA NextKeeps == IInv /\ [Next]_vars => IInv'
<1> SUFFICES ASSUME IInv, [Next]_vars PROVE IInv'
  OBVIOUS
<1>1. ASSUME NEW r \in Requests,
             \/ AuthMiddleware(r) \/ ClientGone(r) \/ TakePlace(r) \/ Deadline(r)
             \/ GiveUp(r) \/ Answer(r) \/ Panic(r) \/ Back(r)
      PROVE  IInv'
  BY <1>1, AuthMiddlewareKeeps, ClientGoneKeeps, TakePlaceKeeps, AnsweredKeeps, PanicKeeps,
     LeaveKeeps, UpdateUsersKeeps, TotalKeeps, CountErrorKeeps, DecKeeps DEF Back
<1>2. CASE DumpMetrics
  BY <1>2, DumpMetricsKeeps
<1>3. CASE SetEnabled
  BY <1>3, SetEnabledKeeps
<1>4. CASE UNCHANGED vars
  BY <1>4, StutterKeeps
<1> QED
  BY <1>1, <1>2, <1>3, <1>4 DEF Next

(* The places, the counters and the statistics tell the truth in every     *)
(* reachable state: the invariant behind the next two theorems.            *)
THEOREM InvariantHolds == Spec => []IInv
<1> QED
  BY InitHolds, NextKeeps, PTL DEF Spec

(* A request that is served, and no other, holds one of the places of      *)
(* maxClients, whatever panics, times out or goes away                     *)
(* (api/max_clients.go).                                                   *)
THEOREM PlacesHold == Spec => []PlacesAreServed
<1>1. IInv => PlacesAreServed
  BY DEF IInv
<1> QED
  BY <1>1, InvariantHolds, PTL

(* The gauge of running requests never runs off, errors are never more     *)
(* than requests (api/metrics.go), and no request is in two dumps of the   *)
(* billing, or in a dump and in what is still to be dumped                 *)
(* (metrics/billing.go).                                                   *)
THEOREM StatisticsHold == Spec => []StatisticsAreTrue
<1>1. IInv => GaugesAreTrue
  BY CountsAreNaturals DEF IInv, GaugesAreTrue, TypeOK
<1>2. IInv => BilledOnce
  BY DEF IInv
<1>3. IInv => StatisticsAreTrue
  BY <1>1, <1>2 DEF StatisticsAreTrue
<1> QED
  BY <1>3, InvariantHolds, PTL

---------------------------------------------------------------------------
(* The resolution of names, for any number of goroutines and of reloads.   *)

(* The names of resolvers; none of them is the error of a request that     *)
(* found no answer.                                                        *)
Name == STRING \ {"error"}

LEMMA ListsAreOfNames == Lists \subseteq Seq(Name)
<1> SUFFICES ASSUME NEW l \in Lists PROVE l \in Seq(Name)
  OBVIOUS
<1>1. l \in Seq(STRING) /\ \A i \in DOMAIN l : l[i] # "error"
  BY ListsAssumption
<1>2. l \in [1..Len(l) -> Name] /\ Len(l) \in Nat
  BY <1>1 DEF Name
<1> QED
  BY <1>2

AskRecord == [pc : {"idle", "ask", "done"}, at : Nat, list : Seq(Name),
           res : Name \cup {None, "error"}]

(* A request as Resolve leaves it at each of its steps: while it asks, the *)
(* list in force is the one it began with, and all before `at` failed.     *)
AsResolved(q) ==
  /\ q.pc = "ask" => q.list = resolvers /\ q.at >= 1 /\ q.at <= Len(q.list) + 1
  /\ q.pc = "done" =>
       IF q.res = "error" THEN q.at = Len(q.list) + 1
       ELSE q.at <= Len(q.list) /\ q.res = q.list[q.at]

(* OneListPerRequest is not inductive: it takes the two locks.  Nobody     *)
(* asks while the list may be replaced, and the position in the list goes  *)
(* up one by one.                                                          *)
NamesInv ==
  /\ asking \in [Requests -> AskRecord] /\ resolvers \in Seq(Name)
  /\ new # None => new \in Seq(Name)
  /\ locked => new # None /\ Names!Readers = {}
  /\ \A r \in Requests : AsResolved(asking[r])

LEMMA NamesStart == Names!Init => NamesInv
<1> SUFFICES ASSUME Names!Init PROVE NamesInv
  OBVIOUS
<1>1. resolvers \in Seq(Name)
  BY ListsAreOfNames DEF Names!Init
<1>2. Names!Idle \in AskRecord /\ Names!Idle.pc = "idle"
  BY DEF Names!Idle, AskRecord
<1>3. asking \in [Requests -> AskRecord] /\ \A r \in Requests : asking[r] = Names!Idle
  BY <1>2 DEF Names!Init
<1>4. new = None /\ ~locked
  BY DEF Names!Init
<1> QED
  BY <1>1, <1>2, <1>3, <1>4 DEF NamesInv, AsResolved

(* A step of one request leaves the others, and the list, as they are.     *)
LEMMA OneRequestStep ==
  ASSUME NamesInv, NEW r \in Requests, NEW x \in AskRecord, asking' = [asking EXCEPT ![r] = x],
         AsResolved(x), ~locked, UNCHANGED <<resolvers, new, locked>>
  PROVE  NamesInv'
<1>1. /\ asking' \in [Requests -> AskRecord] /\ asking'[r] = x
      /\ \A q \in Requests \ {r} : asking'[q] = asking[q]
  BY DEF NamesInv
<1>2. \A q \in Requests : AsResolved(asking[q])'
  BY <1>1 DEF NamesInv, AsResolved
<1> QED
  BY <1>1, <1>2 DEF NamesInv

LEMMA BeginResolveKeeps ==
  ASSUME NamesInv, NEW r \in Requests, Names!BeginResolve(r)
  PROVE  NamesInv'
<1> DEFINE x == [Names!Idle EXCEPT !.pc = "ask", !.at = 1, !.list = resolvers]
<1>1. asking' = [asking EXCEPT ![r] = x] /\ UNCHANGED <<resolvers, new, locked>> /\ new = None
  BY DEF Names!BeginResolve, Names!MayRead
<1>2. x.pc = "ask" /\ x.at = 1 /\ x.list = resolvers /\ x.res = None
  BY DEF Names!Idle
<1>3. x \in AskRecord
  BY DEF Names!Idle, AskRecord, NamesInv
<1>4. Len(resolvers) \in Nat
  BY DEF NamesInv
<1>5. AsResolved(x)
  BY <1>2, <1>4 DEF AsResolved
<1>6. ~locked
  BY <1>1 DEF NamesInv
<1> HIDE DEF x
<1> QED
  BY <1>1, <1>3, <1>5, <1>6, OneRequestStep

LEMMA TwoFields ==
  ASSUME NEW f \in [Requests -> AskRecord], NEW r \in Requests, NEW v
  PROVE  [f EXCEPT ![r].pc = "done", ![r].res = v]
           = [f EXCEPT ![r] = [f[r] EXCEPT !.pc = "done", !.res = v]]
OBVIOUS

LEMMA ResolveKeeps ==
  ASSUME NamesInv, NEW r \in Requests, Names!Resolve(r)
  PROVE  NamesInv'
<1> DEFINE q == asking[r]
<1>1. /\ q \in AskRecord /\ q.pc = "ask" /\ AsResolved(q) /\ ~locked
      /\ UNCHANGED <<resolvers, new, locked>>
  BY DEF Names!Resolve, NamesInv, Names!Readers
<1>2. /\ q.list = resolvers /\ q.at \in Nat /\ q.at >= 1 /\ q.at <= Len(resolvers) + 1
      /\ resolvers \in Seq(Name)
  BY <1>1 DEF AsResolved, NamesInv, AskRecord
<1>3. PICK x :
        /\ asking' = [asking EXCEPT ![r] = x]
        /\ \/ q.at <= Len(resolvers) /\ x = [q EXCEPT !.pc = "done", !.res = resolvers[q.at]]
           \/ q.at <= Len(resolvers) /\ x = [q EXCEPT !.at = q.at + 1]
           \/ q.at > Len(resolvers) /\ x = [q EXCEPT !.pc = "done", !.res = "error"]
  BY TwoFields DEF Names!Resolve, NamesInv
<1>4. CASE q.at <= Len(resolvers) /\ x = [q EXCEPT !.pc = "done", !.res = resolvers[q.at]]
  <2>1. resolvers[q.at] \in Name
    BY <1>2, <1>4
  <2>2. /\ x \in AskRecord /\ x.pc = "done" /\ x.res = resolvers[q.at] /\ x.list = resolvers
        /\ x.at = q.at
    BY <1>1, <1>2, <1>4, <2>1 DEF AskRecord, Name
  <2>3. AsResolved(x)
    BY <1>4, <2>1, <2>2 DEF AsResolved, Name
  <2> QED
    BY <1>1, <1>3, <2>2, <2>3, OneRequestStep
<1>5. CASE q.at <= Len(resolvers) /\ x = [q EXCEPT !.at = q.at + 1]
  <2>1. x \in AskRecord /\ x.pc = "ask" /\ x.list = resolvers /\ x.at = q.at + 1
    BY <1>1, <1>2, <1>5 DEF AskRecord
  <2>2. AsResolved(x)
    BY <1>2, <1>5, <2>1 DEF AsResolved
  <2> QED
    BY <1>1, <1>3, <2>1, <2>2, OneRequestStep
<1>6. CASE q.at > Len(resolvers) /\ x = [q EXCEPT !.pc = "done", !.res = "error"]
  <2>1. x \in AskRecord /\ x.pc = "done" /\ x.res = "error" /\ x.list = resolvers /\ x.at = q.at
    BY <1>1, <1>2, <1>6 DEF AskRecord
  <2>2. AsResolved(x)
    BY <1>2, <1>6, <2>1 DEF AsResolved
  <2> QED
    BY <1>1, <1>3, <2>1, <2>2, OneRequestStep
<1> QED
  BY <1>3, <1>4, <1>5, <1>6

---------------------------------------------------------------------------
(* The list is replaced while nobody asks.                                 *)
LEMMA CreateResolversKeeps ==
  ASSUME NamesInv, Names!CreateResolvers
  PROVE  NamesInv'
<1>1. /\ locked /\ ~locked' /\ new' = None /\ asking' = asking
      /\ resolvers' = new \/ resolvers' = resolvers
  BY DEF Names!CreateResolvers
<1>2. new \in Seq(Name) /\ Names!Readers = {}
  BY <1>1 DEF NamesInv
<1>3. \A r \in Requests : AsResolved(asking[r])'
  BY <1>1, <1>2 DEF NamesInv, AsResolved, Names!Readers
<1> QED
  BY <1>1, <1>2, <1>3 DEF NamesInv

LEMMA ListReloadKeeps ==
  ASSUME NamesInv, Names!UpdateResolvers \/ Names!LockResolvers \/ UNCHANGED Names!vars
  PROVE  NamesInv'
<1>1. resolvers' = resolvers /\ asking' = asking
  BY DEF Names!UpdateResolvers, Names!LockResolvers, Names!vars
<1>2. \A r \in Requests : AsResolved(asking[r])'
  BY <1>1 DEF NamesInv, AsResolved
<1>3. new' # None => new' \in Seq(Name)
  BY ListsAreOfNames DEF Names!UpdateResolvers, Names!LockResolvers, Names!vars, NamesInv
<1>4. locked' => new' # None /\ Names!Readers' = {}
  BY DEF Names!UpdateResolvers, Names!LockResolvers, Names!MayWrite, Names!vars, NamesInv,
         Names!Readers
<1> QED
  BY <1>1, <1>2, <1>3, <1>4 DEF NamesInv

LEMMA NamesNextKeeps == NamesInv /\ [Names!Next]_Names!vars => NamesInv'
<1> SUFFICES ASSUME NamesInv, [Names!Next]_Names!vars PROVE NamesInv'
  OBVIOUS
<1>1. ASSUME NEW r \in Requests, Names!BeginResolve(r) \/ Names!Resolve(r) PROVE NamesInv'
  BY <1>1, BeginResolveKeeps, ResolveKeeps
<1>2. CASE Names!CreateResolvers
  BY <1>2, CreateResolversKeeps
<1>3. CASE Names!UpdateResolvers \/ Names!LockResolvers \/ UNCHANGED Names!vars
  BY <1>3, ListReloadKeeps
<1> QED
  BY <1>1, <1>2, <1>3 DEF Names!Next

(* A bucket name is resolved by one list of resolvers, that in force when  *)
(* its request began, however many reloads replace the list meanwhile      *)
(* (api/resolver/resolver.go): the locks of Resolve and UpdateResolvers    *)
(* see to it.                                                              *)
THEOREM OneListHolds == ServicesSpec => []OneListPerRequest
<1>1. ServicesInit => NamesInv
  BY NamesStart DEF ServicesInit
<1>2. NamesInv /\ [ServicesNext]_allVars => NamesInv'
  <2> SUFFICES ASSUME NamesInv, [ServicesNext]_allVars PROVE NamesInv'
    OBVIOUS
  <2>1. [Names!Next]_Names!vars
    BY DEF ServicesNext, allVars, resolveVars, Names!vars
  <2> QED
    BY <2>1, NamesNextKeeps
<1>3. NamesInv => OneListPerRequest
  BY DEF NamesInv, AsResolved, OneListPerRequest, Names!OneListPerRequest
<1> QED
  BY <1>1, <1>2, <1>3, PTL DEF ServicesSpec

---------------------------------------------------------------------------
(* The life of the process, for any contents of the configuration file,    *)
(* any number of servers, edits, signals and instances of the service.     *)

(* The phases of a reload, in their order, before each of which a setting  *)
(* read is not in force yet.                                               *)
BeforeResolvers == {"resolvers"}
BeforeServers   == BeforeResolvers \cup {"servers"}
BeforeSettings  == BeforeServers \cup {"stopservices", "stopping", "startservices", "settings"}
Steps == BeforeSettings \cup {"boot", "serve", "loop", "metrics", "stop", "closing", "closed",
                              "done"}

ResolversRead(u, c) ==
  u.res.order = App!OrderOf(c) \/ ~App!KnownResolvers(c) \/ App!Undialled(c)
CertsRead(u, c) ==
  \A s \in 1..Servers :
    u.certs[s] = c.certs[s] \/ c.certs[s] = "gone" \/ \E b \in 1..s : c.certs[b] = "bad"
PoliciesRead(u, c) ==
  (u.policy = c.policy /\ u.regions = c.regions) \/ "bad" \in {c.policy, c.regions}
LevelRead(u, c) == u.level = c.level \/ c.level = "bad"

(* What the steps of a reload done so far have put in force.               *)
SettingsInForce ==
  /\ used = [res |-> used.res, certs |-> used.certs, policy |-> used.policy,
             regions |-> used.regions, level |-> used.level]
  /\ <<cfg.policy, cfg.regions>> \in pairs /\ <<used.policy, used.regions>> \in pairs
  /\ serve \notin BeforeResolvers => ResolversRead(used, cfg)
  /\ serve \notin BeforeServers   => CertsRead(used, cfg)
  /\ serve \notin BeforeSettings  => PoliciesRead(used, cfg) /\ LevelRead(used, cfg)

(* Those an instance that is shut down, and one that has the port, is in.  *)
Shut    == {"newdown", "checkeddown", "opendown", "closed", "failed"}
Holding == {"open", "opendown", "serving"}
States  == Shut \cup Holding \cup {"none", "new", "checked"}

(* ProcessIsSound is not inductive: the port is free for a new instance    *)
(* because all before it are shut down, by the steps of Serve, and those   *)
(* of them that may still listen were shut down between their check and    *)
(* their listening.                                                        *)
InstancesInTurn ==
  /\ svc \in [1..MaxGens -> States]
  /\ serve = "boot" => gen = 0
  /\ serve # "boot" => gen >= 1
  /\ \A g \in 1..MaxGens :
       /\ svc[g] = "none" <=> g > gen
       /\ port = g <=> svc[g] \in Holding
       /\ svc[g] \in {"checkeddown", "opendown"} => g \in raced
       /\ svc[g] = "failed" => \E h \in raced : h <= g
       /\ g < gen => svc[g] \in Shut
       /\ g = gen /\ serve \in {"stopping", "startservices", "closed", "done"} => svc[g] \in Shut

AppTypes ==
  /\ hup \in {0, 1} /\ health \in {0, 1} /\ metrics \in BOOLEAN
  /\ gen \in 0..MaxGens /\ port \in 0..MaxGens /\ busy \in 0..MaxGens
  /\ ended \in {"no", "hup", "busy", "listener"}
  /\ serve \in Steps
  /\ cfg.metrics \in BOOLEAN
  /\ file = Broken \/ file.metrics \in BOOLEAN \cup {Unset}

HealthTold == metrics /\ main = "done?" => health = 1

AppInv == AppTypes /\ SettingsInForce /\ InstancesInTurn /\ HealthTold

(* A step that puts nothing in force and reads nothing.                    *)
LEMMA SettingsStay ==
  ASSUME SettingsInForce, UNCHANGED <<cfg, used, pairs>>,
         serve \in BeforeResolvers => serve' \in BeforeResolvers,
         serve \in BeforeServers => serve' \in BeforeServers,
         serve \in BeforeSettings => serve' \in BeforeSettings
  PROVE  SettingsInForce'
BY DEF SettingsInForce

(* A step that starts and stops no instance.                               *)
LEMMA InstancesStay ==
  ASSUME InstancesInTurn, UNCHANGED <<svc, gen, port, raced>>,
         serve' = "boot" <=> serve = "boot",
         serve' \in {"stopping", "startservices", "closed", "done"}
           => serve \in {"stopping", "startservices", "closed", "done"}
  PROVE  InstancesInTurn'
BY DEF InstancesInTurn

LEMMA AppStarts == App!Init => AppInv
<1> SUFFICES ASSUME App!Init PROVE AppInv
  OBVIOUS
<1>1. AppTypes
  BY SettingsAssumption DEF App!Init, AppTypes, Steps, BeforeSettings, BeforeServers, BeforeResolvers
<1>2. cfg = First /\ used = App!InForce(First) /\ pairs = {<<First.policy, First.regions>>}
  BY DEF App!Init
<1>3. SettingsInForce
  BY <1>2 DEF SettingsInForce, App!InForce, App!Resolvers, ResolversRead, CertsRead, PoliciesRead,
              LevelRead
<1>4. InstancesInTurn
  BY SettingsAssumption DEF App!Init, InstancesInTurn, States, Shut, Holding
<1>5. HealthTold
  BY DEF App!Init, HealthTold
<1> QED
  BY <1>1, <1>3, <1>4, <1>5 DEF AppInv

(* The steps that leave settings in force, and instances, as they are.     *)
LEMMA OperatorKeeps ==
  ASSUME AppInv, App!Operator
  PROVE  AppInv'
<1>1. /\ UNCHANGED <<cfg, used, pairs, svc, gen, port, busy, raced, serve, metrics, health, main>>
      /\ hup' \in {hup, 1} /\ ended' \in {ended, "hup"}
  BY DEF App!Operator, App!Edit, App!Hup, App!Term, App!Notified, App!srvs, App!gauge, App!ops
<1>2. file' = Broken \/ file'.metrics \in BOOLEAN \cup {Unset}
  <2>1. CASE UNCHANGED file
    BY <2>1 DEF AppInv, AppTypes
  <2>2. ASSUME NEW f \in Files, App!Edit(f) PROVE 
                  file' = Broken \/ file'.metrics \in BOOLEAN \cup {Unset}
    <3>1. CASE f = Broken
      BY <2>2, <3>1 DEF App!Edit
    <3>2. CASE f # Broken
      <4>1. f = [k \in App!Keys |-> f[k]] /\ f.metrics \in BOOLEAN \cup {Unset}
        BY <3>2, SettingsAssumption
      <4>2. file' = [f EXCEPT !.edit = edits + 1]
        BY <2>2, <3>2 DEF App!Edit
      <4>3. "metrics" \in DOMAIN f
        BY <4>1 DEF App!Keys
      <4>4. file'.metrics = f.metrics
        BY <4>1, <4>2 DEF App!Keys
      <4> QED
        BY <4>1, <4>4
    <3> QED
      BY <3>1, <3>2
  <2> QED
    BY <2>1, <2>2 DEF App!Operator, App!Hup, App!Term, App!ops
<1>3. AppTypes'
  BY <1>1, <1>2 DEF AppInv, AppTypes
<1>4. SettingsInForce' /\ InstancesInTurn' /\ HealthTold'
  BY <1>1, SettingsStay, InstancesStay DEF AppInv, HealthTold
<1> QED
  BY <1>3, <1>4 DEF AppInv

(* Steps of Serve, and of main, that only go on.                           *)
LEMMA QuietKeeps ==
  ASSUME AppInv,
         \/ App!ServeFails \/ App!Notify \/ App!TakeTerm \/ App!EndStop \/ App!ReloadMetrics
         \/ App!ShutdownMetrics \/ App!Wait \/ UNCHANGED App!vars
         \/ \E g \in 1..MaxGens : App!Use(g) \/ App!Used(g)
  PROVE  AppInv'
<1> USE DEF App!ServeFails, App!Notify, App!TakeTerm, App!EndStop, App!ReloadMetrics,
            App!ShutdownMetrics, App!Wait, App!WaitChecks, App!WaitSets, App!Finish, App!Use,
            App!Used, App!Serving, App!TellsHealth, App!TimedOut
<1>1. UNCHANGED <<cfg, used, pairs, svc, gen, port, raced, file, hup>>
  BY DEF App!Frame, App!MainFrame, App!SvcFrame, App!srvs, App!gauge, App!ops, App!vars
<1>2. \/ UNCHANGED serve
      \/ serve = "serve" /\ serve' = "loop"
      \/ serve = "loop" /\ serve' = "stop"
      \/ serve = "stopping" /\ serve' = "startservices"
      \/ serve = "closed" /\ serve' = "done"
      \/ serve = "metrics" /\ serve' = "loop"
      \/ serve = "stop" /\ serve' = "closing"
  BY DEF App!MainFrame, App!SvcFrame, App!vars
<1>3. /\ busy' \in {0, busy} \cup 1..MaxGens /\ ended' \in {ended, "listener", "busy"}
      /\ metrics' \in {metrics, cfg.metrics, FALSE} /\ health' \in {health, 0, 1}
  BY DEF App!Frame, App!MainFrame, App!SvcFrame, App!srvs, App!gauge, App!ops, App!life, App!vars
<1>4. \/ UNCHANGED <<metrics, health, main>>
      \/ metrics' = cfg.metrics /\ health' = (IF cfg.metrics THEN 1 ELSE health)
      \/ metrics' = FALSE
      \/ metrics' = metrics /\ (main' # "done?" \/ ~metrics \/ health' = 1)
  BY DEF App!Frame, App!MainFrame, App!SvcFrame, App!gauge, App!life, App!vars
<1> USE DEF AppInv
<1>5. AppTypes'
  <2>1. serve' \in Steps
    BY <1>2 DEF AppTypes, Steps, BeforeSettings, BeforeServers, BeforeResolvers
  <2>2. busy' \in 0..MaxGens
    BY <1>3, SettingsAssumption DEF AppTypes
  <2>3. ended' \in {"no", "hup", "busy", "listener"} /\ health' \in {0, 1} /\ metrics' \in BOOLEAN
    BY <1>3 DEF AppTypes
  <2> HIDE DEF App!ServeFails, App!Notify, App!TakeTerm, App!EndStop, App!ReloadMetrics,
               App!ShutdownMetrics, App!Wait, App!WaitChecks, App!WaitSets, App!Finish, App!Use,
               App!Used, App!Serving, App!TellsHealth, App!TimedOut
  <2> QED
    BY <1>1, <2>1, <2>2, <2>3 DEF AppTypes
<1>6. SettingsInForce'
  BY <1>1, <1>2, SettingsStay DEF BeforeSettings, BeforeServers, BeforeResolvers
<1>7. InstancesInTurn'
  BY <1>1, <1>2, InstancesStay
<1>8. HealthTold'
  BY <1>4, <1>5 DEF HealthTold, AppTypes
<1> QED
  BY <1>5, <1>6, <1>7, <1>8

---------------------------------------------------------------------------
(* The reload.                                                             *)

(* A setting is in force, or refused, once its step has run.               *)
LEMMA ResolversUpdated ==
  ASSUME NEW u, NEW c, "res" \in DOMAIN u
  PROVE  ResolversRead(App!UpdateResolvers(u, c), c)
<1>1. CASE u.res.order = App!OrderOf(c) \/ ~App!KnownResolvers(c) \/ App!Undialled(c)
  BY <1>1 DEF ResolversRead, App!UpdateResolvers
<1>2. CASE ~(u.res.order = App!OrderOf(c) \/ ~App!KnownResolvers(c) \/ App!Undialled(c))
  <2>1. App!UpdateResolvers(u, c) = [u EXCEPT !.res = App!Resolvers(c)]
    BY <1>2 DEF App!UpdateResolvers
  <2>2. App!UpdateResolvers(u, c).res.order = App!OrderOf(c)
    BY <2>1 DEF App!Resolvers
  <2> QED
    BY <2>2 DEF ResolversRead
<1> QED
  BY <1>1, <1>2

LEMMA CertsUpdated ==
  ASSUME NEW u, NEW c, "certs" \in DOMAIN u
  PROVE  CertsRead(App!UpdateServers(u, c), c)
<1> DEFINE bad == {s \in 1..Servers : c.certs[s] = "bad"}
           upTo(s) == \A b \in bad : s < b
           done == App!UpdateServers(u, c)
<1>1. SUFFICES ASSUME NEW s \in 1..Servers
               PROVE  \/ done.certs[s] = c.certs[s] \/ c.certs[s] = "gone"
                      \/ \E b \in 1..s : c.certs[b] = "bad"
  BY DEF CertsRead
<1>2. done.certs[s] = IF upTo(s) /\ c.certs[s] # "gone" THEN c.certs[s] ELSE u.certs[s]
  BY DEF App!UpdateServers
<1>3. ASSUME ~upTo(s) PROVE \E b \in 1..s : c.certs[b] = "bad"
  <2>1. PICK b \in bad : ~(s < b)
    BY <1>3
  <2>2. b \in 1..s
    BY <2>1, SettingsAssumption
  <2> QED
    BY <2>1, <2>2
<1> QED
  BY <1>2, <1>3

LEMMA SettingsUpdated ==
  ASSUME NEW u, NEW c, {"level", "policy", "regions"} \subseteq DOMAIN u
  PROVE  /\ PoliciesRead(App!UpdateSettings(u, c), c) /\ LevelRead(App!UpdateSettings(u, c), c)
         /\ \/ /\ App!UpdateSettings(u, c).policy = c.policy
               /\ App!UpdateSettings(u, c).regions = c.regions
            \/ /\ App!UpdateSettings(u, c).policy = u.policy
               /\ App!UpdateSettings(u, c).regions = u.regions
BY DEF PoliciesRead, LevelRead, App!UpdateSettings

(* What the steps do not touch.                                            *)
LEMMA UpdatesKeep ==
  ASSUME NEW u, NEW c,
         u = [res |-> u.res, certs |-> u.certs, policy |-> u.policy, regions |-> u.regions,
              level |-> u.level]
  PROVE  /\ \A n \in {App!UpdateResolvers(u, c), App!UpdateServers(u, c), App!UpdateSettings(u, c)} :
              n = [res |-> n.res, certs |-> n.certs, policy |-> n.policy,
                   regions |-> n.regions, level |-> n.level]
         /\ \A n \in {App!UpdateResolvers(u, c), App!UpdateServers(u, c)} :
              n.policy = u.policy /\ n.regions = u.regions
         /\ \A n \in {App!UpdateServers(u, c), App!UpdateSettings(u, c)} : n.res = u.res
         /\ App!UpdateSettings(u, c).certs = u.certs
<1> DEFINE R(a, b, p, q, l) == [res |-> a, certs |-> b, policy |-> p, regions |-> q, level |-> l]
           Whole(n) == n = R(n.res, n.certs, n.policy, n.regions, n.level)
<1>1. PICK a, b, p, q, l : u = R(a, b, p, q, l)
  OBVIOUS
<1>2. \/ App!UpdateResolvers(u, c) = u
      \/ \E x : App!UpdateResolvers(u, c) = R(x, b, p, q, l)
  <2>1. [u EXCEPT !.res = App!Resolvers(c)] = R(App!Resolvers(c), b, p, q, l)
    BY <1>1
  <2> QED
    BY <2>1 DEF App!UpdateResolvers
<1>3. \E x : App!UpdateServers(u, c) = R(a, x, p, q, l)
  <2>1. PICK x : App!UpdateServers(u, c) = [u EXCEPT !.certs = x]
    BY Zenon DEF App!UpdateServers
  <2>2. [u EXCEPT !.certs = x] = R(a, x, p, q, l)
    BY <1>1
  <2> QED
    BY <2>1, <2>2
<1>4. \E x, y, z : App!UpdateSettings(u, c) = R(a, b, x, y, z)
  <2>1. PICK x, y, z : App!UpdateSettings(u, c)
                         = [u EXCEPT !.level = z, !.policy = x, !.regions = y]
    BY Zenon DEF App!UpdateSettings
  <2>2. [u EXCEPT !.level = z] = R(a, b, p, q, z)
    BY <1>1
  <2>3. [R(a, b, p, q, z) EXCEPT !.policy = x] = R(a, b, x, q, z)
    OBVIOUS
  <2>4. [R(a, b, x, q, z) EXCEPT !.regions = y] = R(a, b, x, y, z)
    OBVIOUS
  <2>5. [u EXCEPT !.level = z, !.policy = x, !.regions = y]
          = [[[u EXCEPT !.level = z] EXCEPT !.policy = x] EXCEPT !.regions = y]
    OBVIOUS
  <2> HIDE DEF R
  <2>6. App!UpdateSettings(u, c) = R(a, b, x, y, z)
    BY <2>1, <2>2, <2>3, <2>4, <2>5
  <2> QED
    BY <2>6
<1>5. ASSUME NEW x, NEW y, NEW z, NEW v, NEW w
      PROVE  LET n == R(x, y, z, v, w)
             IN /\ Whole(n) /\ n.res = x /\ n.certs = y /\ n.policy = z /\ n.regions = v
  OBVIOUS
<1> HIDE DEF R
<1>6. u.res = a /\ u.certs = b /\ u.policy = p /\ u.regions = q /\ Whole(u)
  BY <1>1, <1>5
<1>7. \A n \in {App!UpdateResolvers(u, c), App!UpdateServers(u, c), App!UpdateSettings(u, c)} :
        Whole(n)
  BY <1>2, <1>3, <1>4, <1>5, <1>6
<1>8. \A n \in {App!UpdateResolvers(u, c), App!UpdateServers(u, c)} :
        n.policy = u.policy /\ n.regions = u.regions
  BY <1>2, <1>3, <1>5, <1>6
<1>9. \A n \in {App!UpdateServers(u, c), App!UpdateSettings(u, c)} : n.res = u.res
  BY <1>3, <1>4, <1>5, <1>6
<1>10. App!UpdateSettings(u, c).certs = u.certs
  BY <1>4, <1>5, <1>6
<1> QED
  BY <1>7, <1>8, <1>9, <1>10 DEF R

LEMMA TakeHupKeeps ==
  ASSUME AppInv, App!TakeHup
  PROVE  AppInv'
<1> USE DEF AppInv
<1>1. /\ serve = "loop" /\ hup' = 0
      /\ UNCHANGED <<file, used, svc, gen, port, busy, raced, metrics, health, main, ended>>
      /\ \/ UNCHANGED <<cfg, serve, pairs>>
         \/ /\ file # Broken /\ cfg' = App!Merge(cfg, file) /\ serve' = "resolvers"
            /\ pairs' = pairs \cup {<<cfg'.policy, cfg'.regions>>}
  BY DEF App!TakeHup, App!Serving, App!Frame, App!srvs, App!ops
<1>2. cfg'.metrics \in BOOLEAN
  <2>1. CASE UNCHANGED cfg
    BY <2>1 DEF AppTypes
  <2>2. CASE file # Broken /\ cfg' = App!Merge(cfg, file)
    <3>1. cfg'.metrics = IF file.metrics = Unset THEN cfg.metrics ELSE file.metrics
      BY <2>2 DEF App!Merge, App!Keys
    <3> QED
      BY <2>2, <3>1 DEF AppTypes
  <2> QED
    BY <1>1, <2>1, <2>2
<1>3. AppTypes'
  BY <1>1, <1>2 DEF AppTypes, Steps, BeforeSettings, BeforeServers, BeforeResolvers
<1>4. SettingsInForce'
  <2>1. CASE UNCHANGED <<cfg, serve, pairs>>
    BY <1>1, <2>1, SettingsStay
  <2>2. CASE serve' = "resolvers" /\ pairs' = pairs \cup {<<cfg'.policy, cfg'.regions>>}
    BY <1>1, <2>2 DEF SettingsInForce, BeforeSettings, BeforeServers, BeforeResolvers
  <2> QED
    BY <1>1, <2>1, <2>2
<1>5. InstancesInTurn' /\ HealthTold'
  BY <1>1, InstancesStay DEF HealthTold
<1> QED
  BY <1>3, <1>4, <1>5

LEMMA ReloadKeeps ==
  ASSUME AppInv, App!ReloadResolvers \/ App!ReloadServers \/ App!ReloadSettings
  PROVE  AppInv'
<1> USE DEF AppInv
<1>1. UNCHANGED <<cfg, pairs, file, hup, svc, gen, port, busy, raced, metrics, health, main, ended>>
  BY DEF App!ReloadResolvers, App!ReloadServers, App!ReloadSettings, App!Frame, App!srvs,
         App!gauge, App!ops
<1>2. \/ serve = "resolvers" /\ serve' = "servers" /\ used' = App!UpdateResolvers(used, cfg)
      \/ serve = "servers" /\ serve' = "stopservices" /\ used' = App!UpdateServers(used, cfg)
      \/ serve = "settings" /\ serve' = "metrics" /\ used' = App!UpdateSettings(used, cfg)
  BY DEF App!ReloadResolvers, App!ReloadServers, App!ReloadSettings, App!Serving
<1>3. AppTypes' /\ HealthTold'
  BY <1>1, <1>2 DEF AppTypes, HealthTold, Steps, BeforeSettings, BeforeServers, BeforeResolvers
<1>4. InstancesInTurn'
  BY <1>1, <1>2, InstancesStay
<1>5. SettingsInForce'
  <2>1. PICK u, c, n : u = used /\ c = cfg /\ n = used'
    OBVIOUS
  <2>2. /\ u = [res |-> u.res, certs |-> u.certs, policy |-> u.policy, regions |-> u.regions,
                level |-> u.level]
        /\ {"res", "certs", "policy", "regions", "level"} \subseteq DOMAIN u
    BY <2>1 DEF SettingsInForce
  <2>3. /\ n = [res |-> n.res, certs |-> n.certs, policy |-> n.policy, regions |-> n.regions,
                level |-> n.level]
        /\ \/ n.policy = u.policy /\ n.regions = u.regions
           \/ n.policy = c.policy /\ n.regions = c.regions
    BY <1>2, <2>1, <2>2, UpdatesKeep, SettingsUpdated
  <2>4. serve' \notin BeforeResolvers => ResolversRead(n, c)
    <3>1. CASE n = App!UpdateResolvers(u, c)
      BY <2>2, <3>1, ResolversUpdated
    <3>2. CASE serve \notin BeforeResolvers /\ n.res = u.res
      BY <2>1, <3>2 DEF SettingsInForce, ResolversRead
    <3> QED
      BY <1>2, <2>1, <2>2, <3>1, <3>2, UpdatesKeep DEF BeforeResolvers
  <2>5. serve' \notin BeforeServers => CertsRead(n, c)
    <3>1. CASE n = App!UpdateServers(u, c)
      BY <2>2, <3>1, CertsUpdated
    <3>2. CASE serve \notin BeforeServers /\ n.certs = u.certs
      BY <2>1, <3>2 DEF SettingsInForce, CertsRead
    <3> QED
      BY <1>2, <2>1, <2>2, <3>1, <3>2, UpdatesKeep DEF BeforeServers, BeforeResolvers
  <2>6. serve' \notin BeforeSettings => PoliciesRead(n, c) /\ LevelRead(n, c)
    BY <1>2, <2>1, <2>2, SettingsUpdated DEF BeforeSettings, BeforeServers, BeforeResolvers
  <2>7. <<c.policy, c.regions>> \in pairs /\ <<n.policy, n.regions>> \in pairs
    BY <2>1, <2>3 DEF SettingsInForce
  <2> QED
    BY <1>1, <2>1, <2>3, <2>4, <2>5, <2>6, <2>7 DEF SettingsInForce
<1> QED
  BY <1>3, <1>4, <1>5

---------------------------------------------------------------------------
(* The instances of the service.                                           *)
LEMMA OneInstanceMoves ==
  ASSUME InstancesInTurn, NEW g \in 1..MaxGens, NEW n \in States, App!Run(g, n)
  PROVE  /\ svc' \in [1..MaxGens -> States] /\ svc'[g] = n
         /\ \A h \in 1..MaxGens \ {g} : svc'[h] = svc[h]
BY DEF InstancesInTurn, App!Run

LEMMA DownIsShut ==
  ASSUME NEW s \in States \ {"none"}
  PROVE  /\ App!Down(s) \in Shut
         /\ App!Down(s) \in Holding <=> s \in {"open", "opendown"}
         /\ App!Down(s) \in {"checkeddown", "opendown"}
              <=> s \in {"checked", "open", "checkeddown", "opendown"}
         /\ App!Down(s) = "failed" <=> s = "failed"
<1>1. CASE s = "new"
  BY <1>1, Zenon DEF App!Down, Shut, Holding
<1>2. CASE s = "checked"
  BY <1>2, Zenon DEF App!Down, Shut, Holding
<1>3. CASE s = "open"
  BY <1>3, Zenon DEF App!Down, Shut, Holding
<1>4. CASE s = "serving"
  BY <1>4, Zenon DEF App!Down, Shut, Holding
<1>5. CASE s \in Shut
  <2>1. s \notin {"new", "checked", "open", "serving"}
    BY <1>5 DEF Shut
  <2>2. App!Down(s) = s
    BY <2>1, Zenon DEF App!Down
  <2> QED
    BY <1>5, <2>2 DEF Shut, Holding
<1> QED
  BY <1>1, <1>2, <1>3, <1>4, <1>5 DEF States, Shut, Holding

(* What an instance's own step leaves alone.                               *)
LEMMA OwnStepFrame ==
  ASSUME AppInv, NEW g \in 1..MaxGens, App!SvcFrame, UNCHANGED busy, port' \in {port, 0, g},
         InstancesInTurn'
  PROVE  AppInv'
<1>1. UNCHANGED <<file, cfg, used, serve, hup, gen, metrics, health, pairs, main, ended, raced>>
  BY DEF App!SvcFrame, App!ops, App!life, App!gauge
<1>2. port' \in 0..MaxGens
  BY SettingsAssumption DEF AppInv, AppTypes
<1> QED
  BY <1>1, <1>2, SettingsStay DEF AppInv, AppTypes, HealthTold

LEMMA CheckKeeps ==
  ASSUME AppInv, NEW g \in 1..MaxGens, App!Check(g)
  PROVE  AppInv'
<1> USE DEF AppInv
<1>0. \/ svc[g] = "new" /\ App!Run(g, "checked")
      \/ svc[g] = "newdown" /\ App!Run(g, "closed")
  BY DEF App!Check
<1>1. PICK n :
        /\ App!Run(g, n)
        /\ \/ svc[g] = "new" /\ n = "checked"
           \/ svc[g] = "newdown" /\ n = "closed"
  BY <1>0
<1>2. UNCHANGED <<port, busy, serve, gen, raced>> /\ App!SvcFrame
  BY DEF App!Check, App!SvcFrame
<1>3. /\ svc' \in [1..MaxGens -> States] /\ svc'[g] = n
      /\ \A h \in 1..MaxGens \ {g} : svc'[h] = svc[h]
  BY <1>1, OneInstanceMoves DEF States, Shut
<1>4. InstancesInTurn'
  BY <1>1, <1>2, <1>3 DEF InstancesInTurn, Shut, Holding
<1> QED
  BY <1>2, <1>4, OwnStepFrame

(* If the port is taken, that is by an instance that was shut down, which  *)
(* was between its check and its listening; so was the one that finds it   *)
(* taken, or it is the current one.                                        *)
LEMMA ListenKeeps ==
  ASSUME AppInv, NEW g \in 1..MaxGens, App!Listen(g)
  PROVE  AppInv'
<1> USE DEF AppInv
<1>0. /\ svc[g] \in {"checked", "checkeddown"}
      /\ \/ port = 0 /\ port' = g /\ svc[g] = "checked" /\ App!Run(g, "open")
         \/ port = 0 /\ port' = g /\ svc[g] = "checkeddown" /\ App!Run(g, "opendown")
         \/ port # 0 /\ port' = port /\ App!Run(g, "failed")
  BY DEF App!Listen
<1>1. PICK n :
        /\ App!Run(g, n) /\ svc[g] \in {"checked", "checkeddown"}
        /\ \/ port = 0 /\ port' = g /\ svc[g] = "checked" /\ n = "open"
           \/ port = 0 /\ port' = g /\ svc[g] = "checkeddown" /\ n = "opendown"
           \/ port # 0 /\ port' = port /\ n = "failed"
  BY <1>0
<1>2. UNCHANGED <<busy, serve, gen, raced>> /\ App!SvcFrame
  BY DEF App!Listen, App!SvcFrame
<1>3. /\ svc' \in [1..MaxGens -> States] /\ svc'[g] = n
      /\ \A h \in 1..MaxGens \ {g} : svc'[h] = svc[h]
  BY <1>1, OneInstanceMoves DEF States, Shut, Holding
<1>4. n = "failed" => \E h \in raced : h <= g
  <2> SUFFICES ASSUME n = "failed" PROVE \E h \in raced : h <= g
    OBVIOUS
  <2>1. port \in 1..MaxGens /\ svc[port] \in Holding
    BY <1>1, SettingsAssumption DEF InstancesInTurn, AppTypes
  <2>2. port # g /\ port <= gen /\ g <= gen
    BY <1>1, <2>1, SettingsAssumption DEF InstancesInTurn, Holding, AppTypes
  <2>3. CASE g < gen
    <3>1. svc[g] = "checkeddown"
      BY <1>1, <2>3 DEF InstancesInTurn, Shut
    <3> QED
      BY <3>1, SettingsAssumption DEF InstancesInTurn
  <2>4. CASE g = gen
    <3>1. port < gen
      BY <2>1, <2>2, <2>4, SettingsAssumption DEF AppTypes
    <3>2. svc[port] = "opendown"
      BY <2>1, <3>1 DEF InstancesInTurn, Holding, Shut
    <3>3. port \in raced /\ port <= g
      BY <2>1, <2>4, <3>1, <3>2, SettingsAssumption DEF InstancesInTurn, AppTypes
    <3> QED
      BY <3>3
  <2> QED
    BY <2>2, <2>3, <2>4, SettingsAssumption DEF AppTypes
<1>5. InstancesInTurn'
  BY <1>1, <1>2, <1>3, <1>4 DEF InstancesInTurn, Shut, Holding
<1> QED
  BY <1>1, <1>2, <1>5, OwnStepFrame

LEMMA AcceptKeeps ==
  ASSUME AppInv, NEW g \in 1..MaxGens, App!Accept(g)
  PROVE  AppInv'
<1> USE DEF AppInv
<1>1. PICK n :
        /\ App!Run(g, n)
        /\ \/ svc[g] = "open" /\ n = "serving" /\ port' = port
           \/ svc[g] = "opendown" /\ n = "closed" /\ port' = 0
  BY DEF App!Accept
<1>2. UNCHANGED <<busy, serve, gen, raced>> /\ App!SvcFrame
  BY DEF App!Accept, App!SvcFrame
<1>3. /\ svc' \in [1..MaxGens -> States] /\ svc'[g] = n
      /\ \A h \in 1..MaxGens \ {g} : svc'[h] = svc[h]
  BY <1>1, OneInstanceMoves DEF States, Shut, Holding
<1>4. port = g
  BY <1>1 DEF InstancesInTurn, Holding
<1>5. InstancesInTurn'
  BY <1>1, <1>2, <1>3, <1>4 DEF InstancesInTurn, Shut, Holding
<1> QED
  BY <1>1, <1>2, <1>5, OwnStepFrame

(* A new instance comes after those that are shut down.                    *)
LEMMA StartKeeps ==
  ASSUME AppInv, App!Boot \/ App!Restart
  PROVE  AppInv'
<1> USE DEF AppInv
<1>1. /\ UNCHANGED <<cfg, used, pairs, file, hup, port, busy, raced, metrics, health, main, ended>>
      /\ gen < MaxGens /\ gen' = gen + 1
      /\ \/ serve = "boot" /\ serve' = "serve"
         \/ serve = "startservices" /\ serve' = "settings"
  BY DEF App!Boot, App!Restart, App!StartServices, App!Frame, App!gauge, App!ops, App!Serving
<1>2. PICK n : n \in {"new", "closed"} /\ App!Run(gen + 1, n)
  BY DEF App!Boot, App!Restart, App!StartServices
<1>3. gen + 1 \in 1..MaxGens /\ gen \in Nat
  BY <1>1, SettingsAssumption DEF AppTypes
<1>4. /\ svc' \in [1..MaxGens -> States] /\ svc'[gen + 1] = n
      /\ \A h \in 1..MaxGens \ {gen + 1} : svc'[h] = svc[h]
  BY <1>2, <1>3, OneInstanceMoves DEF States, Shut
<1>5. svc[gen + 1] = "none"
  BY <1>3 DEF InstancesInTurn
<1>6. AppTypes' /\ HealthTold'
  BY <1>1, <1>3, SettingsAssumption
     DEF AppTypes, HealthTold, Steps, BeforeSettings, BeforeServers, BeforeResolvers
<1>7. SettingsInForce'
  BY <1>1, SettingsStay DEF BeforeSettings, BeforeServers, BeforeResolvers
<1>8. ASSUME NEW g \in 1..MaxGens
      PROVE  /\ svc'[g] = "none" <=> g > gen'
             /\ port' = g <=> svc'[g] \in Holding
             /\ svc'[g] \in {"checkeddown", "opendown"} => g \in raced'
             /\ svc'[g] = "failed" => \E h \in raced' : h <= g
             /\ g < gen' => svc'[g] \in Shut
             /\ serve' \notin {"stopping", "startservices", "closed", "done"}
  <2>1. CASE g = gen + 1
    BY <1>1, <1>2, <1>3, <1>4, <1>5, <2>1 DEF InstancesInTurn, Holding
  <2>2. CASE g # gen + 1
    <3>1. g < gen' => g < gen \/ (g = gen /\ serve = "startservices")
      BY <1>1, <1>3, <2>2 DEF InstancesInTurn
    <3> QED
      BY <1>1, <1>3, <1>4, <2>2, <3>1 DEF InstancesInTurn
  <2> QED
    BY <2>1, <2>2
<1>9. InstancesInTurn'
  BY <1>1, <1>3, <1>4, <1>8 DEF InstancesInTurn
<1> QED
  BY <1>6, <1>7, <1>9

LEMMA BeginStopKeeps ==
  ASSUME AppInv, App!BeginStop
  PROVE  AppInv'
<1> USE DEF AppInv
<1>1. /\ UNCHANGED <<cfg, used, pairs, file, hup, gen, busy, metrics, health, main, ended>>
      /\ \/ serve = "stopservices" /\ serve' = "stopping"
         \/ serve = "closing" /\ serve' = "closed"
  BY DEF App!BeginStop, App!StopServices, App!Frame, App!gauge, App!ops
<1>2. /\ svc' = [svc EXCEPT ![gen] = App!Down(svc[gen])]
      /\ port' = IF svc[gen] = "serving" THEN 0 ELSE port
      /\ raced' = IF svc[gen] \in {"checked", "open"} THEN raced \cup {gen} ELSE raced
  BY DEF App!BeginStop, App!StopServices
<1>3. gen \in 1..MaxGens
  BY <1>1, SettingsAssumption DEF AppTypes, InstancesInTurn
<1>4. svc[gen] \in States \ {"none"}
  BY <1>3 DEF InstancesInTurn
<1>5. PICK n : n = App!Down(svc[gen])
  OBVIOUS
<1>6. /\ n \in Shut
      /\ n \in Holding <=> svc[gen] \in {"open", "opendown"}
      /\ n \in {"checkeddown", "opendown"}
           <=> svc[gen] \in {"checked", "open", "checkeddown", "opendown"}
      /\ n = "failed" <=> svc[gen] = "failed"
  BY <1>4, <1>5, DownIsShut
<1>7. /\ svc' \in [1..MaxGens -> States] /\ svc'[gen] = n
      /\ \A h \in 1..MaxGens \ {gen} : svc'[h] = svc[h]
  BY <1>2, <1>3, <1>5, <1>6, OneInstanceMoves DEF States, App!Run
<1>8. AppTypes' /\ HealthTold'
  BY <1>1, <1>2, SettingsAssumption
     DEF AppTypes, HealthTold, Steps, BeforeSettings, BeforeServers, BeforeResolvers
<1>9. SettingsInForce'
  BY <1>1, SettingsStay DEF BeforeSettings, BeforeServers, BeforeResolvers
<1>10. ASSUME NEW g \in 1..MaxGens
       PROVE  /\ svc'[g] = "none" <=> g > gen
              /\ port' = g <=> svc'[g] \in Holding
              /\ svc'[g] \in {"checkeddown", "opendown"} => g \in raced'
              /\ svc'[g] = "failed" => \E h \in raced' : h <= g
              /\ g <= gen => svc'[g] \in Shut
  <2>1. CASE g = gen
    <3>1. port' = g <=> svc[g] \in {"open", "opendown"}
      BY <1>2, <1>3, <2>1 DEF InstancesInTurn, Holding
    <3>2. svc[g] \in {"checked", "open", "checkeddown", "opendown"} => g \in raced'
      BY <1>2, <2>1 DEF InstancesInTurn
    <3>3. svc[g] = "failed" => \E h \in raced' : h <= g
      BY <1>2, <2>1 DEF InstancesInTurn
    <3>4. svc'[g] # "none" /\ ~(g > gen)
      BY <1>3, <1>6, <1>7, <2>1 DEF Shut
    <3> QED
      BY <1>6, <1>7, <2>1, <3>1, <3>2, <3>3, <3>4
  <2>2. CASE g # gen
    <3>1. port' = g <=> port = g
      <4>1. svc[gen] = "serving" => port = gen
        BY <1>3 DEF InstancesInTurn, Holding
      <4> QED
        BY <1>2, <2>2, <4>1, <1>3
    <3>2. g <= gen => g < gen
      BY <1>3, <2>2
    <3> QED
      BY <1>2, <1>7, <2>2, <3>1, <3>2 DEF InstancesInTurn
  <2> QED
    BY <2>1, <2>2
<1>11. InstancesInTurn'
  BY <1>1, <1>3, <1>7, <1>10 DEF InstancesInTurn
<1> QED
  BY <1>8, <1>9, <1>11

LEMMA AppNextKeeps ==
  ASSUME AppInv, [App!Next]_App!vars
  PROVE  AppInv'
<1>1. CASE App!Serve
  BY <1>1, StartKeeps, BeginStopKeeps, TakeHupKeeps, ReloadKeeps, QuietKeeps DEF App!Serve
<1>2. ASSUME NEW g \in 1..MaxGens, App!Service(g) PROVE AppInv'
  BY <1>2, CheckKeeps, ListenKeeps, AcceptKeeps DEF App!Service
<1>3. CASE App!Operator
  BY <1>3, OperatorKeeps
<1>4. CASE \/ App!Wait \/ App!ServeFails \/ UNCHANGED App!vars
           \/ \E g \in 1..MaxGens : App!Use(g) \/ App!Used(g)
  BY <1>4, QuietKeeps
<1> QED
  BY <1>1, <1>2, <1>3, <1>4 DEF App!Next

(* Whatever was read last is in force, or is refused for what it says; the *)
(* policies in force were read together; a helper service that a reload    *)
(* starts finds its port free, unless an instance was stopped between its  *)
(* check and its listening; and enabled metrics tell that the gateway is   *)
(* at work (cmd/s3-gw/app.go, service.go).                                 *)
THEOREM ProcessHolds == ServicesSpec => []ProcessIsSound
<1>1. ServicesInit => AppInv
  BY AppStarts DEF ServicesInit
<1>2. AppInv /\ [ServicesNext]_allVars => AppInv'
  <2> SUFFICES ASSUME AppInv, [ServicesNext]_allVars PROVE AppInv'
    OBVIOUS
  <2>1. [App!Next]_App!vars
    BY DEF ServicesNext, allVars, appVars, App!vars
  <2> QED
    BY <2>1, AppNextKeeps
<1>3. AppInv => ProcessIsSound
  <2> SUFFICES ASSUME AppInv PROVE ProcessIsSound
    OBVIOUS
  <2>1. App!TypeOK
    BY DEF AppInv, AppTypes, InstancesInTurn, App!TypeOK
  <2>2. App!ReloadIsWhole
    BY DEF AppInv, SettingsInForce, App!ReloadIsWhole, ResolversRead, CertsRead, PoliciesRead,
           LevelRead, BeforeSettings, BeforeServers, BeforeResolvers
  <2>3. App!PortIsFree
    BY SettingsAssumption DEF AppInv, AppTypes, InstancesInTurn, App!PortIsFree
  <2>4. App!HealthIsTold
    BY DEF AppInv, HealthTold, App!HealthIsTold
  <2> QED
    BY <2>1, <2>2, <2>3, <2>4 DEF ProcessIsSound
<1> QED
  BY <1>1, <1>2, <1>3, PTL DEF ServicesSpec
=============================================================================
