--------------------------- MODULE AppLifecycle ---------------------------
(***************************************************************************)
(* The gateway's process: it starts, reloads its configuration on SIGHUP   *)
(* and stops on SIGTERM (cmd/s3-gw/app.go, service.go, server.go,          *)
(* metrics/app.go).  Besides the S3 servers it runs helper services (pprof *)
(* and Prometheus, both by the same code; one is modelled), which a reload *)
(* stops and starts again on the same port.                                *)
(***************************************************************************)
EXTENDS Naturals, FiniteSets, Sequences

CONSTANTS
  Files,       \* what the config file may contain, by Keys; or Broken
  First,       \* the one the process started with
  Servers,     \* number of S3 servers, in the order of the configuration
  MaxEdits,    \* bound: edits of the file
  MaxHups,     \* bound: SIGHUPs sent
  MaxGens,     \* bound: instances of the service
  Unset,       \* a key the file does not have
  Broken       \* a file that cannot be read

VARIABLES
  file,        \* what the operator wrote last
  cfg,         \* viper's settings
  used,        \* the settings in force: resolver, certs, policies, log level
  pc,          \* where Serve is
  main,        \* where main, in Wait, is
  hup,         \* SIGHUPs in the channel
  term,        \* SIGTERM or SIGINT came
  svc,         \* svc[g]: state of instance g of the service
  gen,         \* the current instance
  port,        \* the instance that has the port, 0 if none
  busy,        \* an instance serves a request that takes long
  enabled, health,       \* metrics
  pairs,       \* the pairs of default policy and region map read so far
  raced,       \* instances shut down before they listened
  ended,       \* why the process died, if not by SIGTERM
  edits, hups,   \* so far
  told,        \* the last edit that a SIGHUP followed
  refused      \* the last edit of a file that could not be read

vars == <<file, cfg, used, pc, main, hup, term, svc, gen, port, busy, enabled,
          health, pairs, raced, ended, edits, hups, told, refused>>

life == <<main, term, ended>>
ops  == <<file, edits, hups, told>>
srvs == <<svc, gen, port, busy, raced>>
gauge == <<enabled, health, pairs, refused>>

Keys == {"order", "rpc", "certs", "policy", "regions", "level", "service",
         "metrics", "edit"}
Alive == ended = "no" /\ main # "finished"

---------------------------------------------------------------------------
(* The settings.                                                           *)

(* Merging keeps what the new file leaves unset.                           *)
Merge(old, new) == [k \in Keys |-> IF new[k] = Unset THEN old[k] ELSE new[k]]

(* getResolverConfig: without an RPC endpoint there is no NNS.             *)
OrderOf(c) ==
  SelectSeq(c.order, LAMBDA r : r # "nns" \/ c.rpc # "")
Resolvers(c) == [order |-> OrderOf(c), rpc |-> c.rpc]
KnownResolvers(c) == \A i \in DOMAIN c.order : c.order[i] \in {"dns", "nns"}

(* Only NNS dials the RPC endpoint.                                        *)
Undialled(c) == c.rpc = "down" /\ \E i \in DOMAIN OrderOf(c) : OrderOf(c)[i] = "nns"

(* UpdateResolvers: the same names in the same order are no change; a name *)
(* it does not know, or an endpoint it cannot dial, leaves all as it was.  *)
UpdateResolvers(u, c) ==
  IF u.res.order = OrderOf(c) \/ ~KnownResolvers(c) \/ Undialled(c) THEN u
  ELSE [u EXCEPT !.res = Resolvers(c)]

(* updateServers stops at the first certificate it cannot load.            *)
UpdateServers(u, c) ==
  LET bad == {s \in 1..Servers : c.certs[s] = "bad"}
      upTo(s) == \A b \in bad : s < b
  IN [u EXCEPT !.certs = [s \in 1..Servers |->
       IF upTo(s) /\ c.certs[s] # "gone" THEN c.certs[s] ELSE u.certs[s]]]

(* Mutant: the default policy is set before the regions are read.          *)
UpdateSettingsHalf(u, c) ==
  [u EXCEPT !.level = IF c.level = "bad" THEN @ ELSE c.level,
            !.policy = IF c.policy = "bad" THEN @ ELSE c.policy,
            !.regions = IF "bad" \in {c.policy, c.regions} THEN @ ELSE c.regions]

(* updateSettings: the policies change only if both are valid.             *)
UpdateSettings(u, c) ==
  LET valid == "bad" \notin {c.policy, c.regions}
  IN [u EXCEPT !.level   = IF c.level = "bad" THEN @ ELSE c.level,
               !.policy  = IF valid THEN c.policy ELSE @,
               !.regions = IF valid THEN c.regions ELSE @]

InForce(c) == [res |-> Resolvers(c), certs |-> c.certs, policy |-> c.policy,
               regions |-> c.regions, level |-> c.level]

---------------------------------------------------------------------------
Init ==
  /\ file = First /\ cfg = First /\ used = InForce(First)
  /\ pc = "boot" /\ main = "wait"
  /\ hup = 0 /\ term = FALSE
  /\ svc = [g \in 1..MaxGens |-> "none"] /\ gen = 0 /\ port = 0 /\ busy = 0
  /\ enabled = First.metrics /\ health = 0
  /\ pairs = {<<First.policy, First.regions>>}
  /\ raced = {} /\ ended = "no"
  /\ edits = 0 /\ hups = 0 /\ told = 0 /\ refused = 0

(* The operator edits the file, and tells the process.                     *)
Edit(f) ==
  /\ Alive /\ edits < MaxEdits
  /\ edits' = edits + 1
  /\ file' = IF f = Broken THEN f ELSE [f EXCEPT !.edit = edits + 1]
  /\ UNCHANGED <<cfg, used, pc, main, hup, term, srvs, gauge, ended, hups, told>>

(* The channel has room for one signal; what comes on top is dropped.  A   *)
(* SIGHUP before signal.Notify kills the process.                          *)
Notified == hup' = 1

Hup ==
  /\ Alive /\ hups < MaxHups
  /\ hups' = hups + 1 /\ told' = edits
  /\ IF pc \in {"boot", "serve"} THEN ended' = "hup" /\ UNCHANGED hup
     ELSE Notified /\ UNCHANGED ended
  /\ UNCHANGED <<file, cfg, used, pc, main, term, srvs, gauge, edits>>

Term ==
  /\ Alive /\ ~term /\ term' = TRUE
  /\ UNCHANGED <<ops, cfg, used, pc, main, hup, srvs, gauge, ended>>

---------------------------------------------------------------------------
(* The goroutine of an instance g: Service.Start, http's ListenAndServe.   *)

Run(g, next) == svc' = [svc EXCEPT ![g] = next]
SvcFrame == UNCHANGED <<ops, life, cfg, used, pc, hup, gen, gauge, raced>>

(* An instance that is shut down already does not listen.                  *)
Check(g) ==
  /\ ended = "no" /\ svc[g] \in {"new", "newdown"}
  /\ Run(g, IF svc[g] = "new" THEN "checked" ELSE "closed")
  /\ UNCHANGED <<port, busy>> /\ SvcFrame

Listen(g) ==
  /\ ended = "no" /\ svc[g] \in {"checked", "checkeddown"}
  /\ IF port = 0
     THEN port' = g /\ Run(g, IF svc[g] = "checked" THEN "open" ELSE "opendown")
     ELSE UNCHANGED port /\ Run(g, "failed")
  /\ UNCHANGED busy /\ SvcFrame

(* Serve registers the listener, or closes it if it is shut down.          *)
Accept(g) ==
  /\ ended = "no" /\ svc[g] \in {"open", "opendown"}
  /\ IF svc[g] = "open" THEN Run(g, "serving") /\ UNCHANGED port
     ELSE Run(g, "closed") /\ port' = 0
  /\ UNCHANGED busy /\ SvcFrame

(* Somebody takes a profile.                                               *)
Use(g) == /\ Alive /\ svc[g] = "serving" /\ busy = 0 /\ busy' = g
          /\ UNCHANGED <<svc, port>> /\ SvcFrame
Used(g) == /\ Alive /\ busy = g /\ busy' = 0
           /\ UNCHANGED <<svc, port>> /\ SvcFrame

---------------------------------------------------------------------------
(* Serve                                                                   *)

StartServices ==
  /\ gen < MaxGens /\ gen' = gen + 1
  /\ Run(gen + 1, IF cfg.service THEN "new" ELSE "closed")
  /\ UNCHANGED <<port, busy, raced>>

(* Server.Shutdown: no new instance listens, the listener is closed, and   *)
(* the call waits for the requests; stopServices panics if they take       *)
(* longer than the timeout.                                                *)
Down(s) ==
  CASE s = "new"     -> "newdown"
    [] s = "checked" -> "checkeddown"
    [] s = "open"    -> "opendown"
    [] s = "serving" -> "closed"
    [] OTHER         -> s

StopServices ==
  /\ svc' = [svc EXCEPT ![gen] = Down(@)]
  /\ port' = IF svc[gen] = "serving" THEN 0 ELSE port
  /\ raced' = IF svc[gen] \in {"checked", "open"} THEN raced \cup {gen} ELSE raced
  /\ UNCHANGED <<gen, busy>>

Serving(from) == ended = "no" /\ pc = from
Frame == UNCHANGED <<ops, main, term>>

Boot ==
  /\ Serving("boot") /\ StartServices /\ pc' = "serve"
  /\ Frame /\ UNCHANGED <<cfg, used, hup, gauge, ended>>

(* An S3 listener that fails ends the process.                             *)
ServeFails ==
  /\ Alive /\ pc \notin {"boot", "closed", "done"} /\ ended' = "listener"
  /\ Frame /\ UNCHANGED <<cfg, used, pc, hup, srvs, gauge>>

Notify ==
  /\ Serving("serve") /\ pc' = "loop"
  /\ Frame /\ UNCHANGED <<cfg, used, hup, srvs, gauge, ended>>

TakeTerm ==
  /\ Serving("loop") /\ term /\ pc' = "stop"
  /\ Frame /\ UNCHANGED <<cfg, used, hup, srvs, gauge, ended>>

TakeHup ==
  /\ Serving("loop") /\ hup = 1 /\ hup' = 0
  /\ IF file = Broken THEN refused' = edits /\ UNCHANGED <<cfg, pc, pairs>>
     ELSE /\ UNCHANGED refused
          /\ cfg' = Merge(cfg, file) /\ pc' = "resolvers"
          /\ pairs' = pairs \cup {<<cfg'.policy, cfg'.regions>>}
  /\ Frame /\ UNCHANGED <<used, srvs, enabled, health, ended>>

ReloadResolvers ==
  /\ Serving("resolvers") /\ pc' = "servers"
  /\ used' = UpdateResolvers(used, cfg)
  /\ Frame /\ UNCHANGED <<cfg, hup, srvs, gauge, ended>>

ReloadServers ==
  /\ Serving("servers") /\ pc' = "stopservices"
  /\ used' = UpdateServers(used, cfg)
  /\ Frame /\ UNCHANGED <<cfg, hup, srvs, gauge, ended>>

BeginStop ==
  /\ pc \in {"stopservices", "closing"} /\ ended = "no"
  /\ StopServices
  /\ pc' = IF pc = "closing" THEN "closed" ELSE "stopping"
  /\ Frame /\ UNCHANGED <<cfg, used, hup, gauge, ended>>

(* Mutant: the shutdown has no timeout.                                    *)
NeverTimedOut == FALSE

TimedOut == busy = gen /\ ended' = "busy"

(* The shutdown of a service that is busy waits, until the timeout.        *)
EndStop ==
  /\ pc \in {"stopping", "closed"} /\ ended = "no"
  /\ \/ busy # gen /\ UNCHANGED ended
        /\ pc' = IF pc = "closed" THEN "done" ELSE "startservices"
     \/ TimedOut /\ UNCHANGED pc
  /\ Frame /\ UNCHANGED <<cfg, used, hup, srvs, gauge>>

Restart ==
  /\ Serving("startservices") /\ StartServices /\ pc' = "settings"
  /\ Frame /\ UNCHANGED <<cfg, used, hup, gauge, ended>>

ReloadSettings ==
  /\ Serving("settings") /\ pc' = "metrics"
  /\ used' = UpdateSettings(used, cfg)
  /\ Frame /\ UNCHANGED <<cfg, hup, srvs, gauge, ended>>

(* SetEnabled, and then setHealthStatus.                                   *)
TellsHealth == enabled' = cfg.metrics
               /\ health' = (IF cfg.metrics THEN 1 ELSE health)

ReloadMetrics ==
  /\ Serving("metrics") /\ pc' = "loop" /\ TellsHealth
  /\ UNCHANGED <<pairs, refused>>
  /\ Frame /\ UNCHANGED <<cfg, used, hup, srvs, ended>>

(* The S3 server has stopped, or the timeout has passed, which is logged.  *)
ShutdownMetrics ==
  /\ Serving("stop") /\ pc' = "closing"
  /\ UNCHANGED <<pairs, refused>>
  /\ enabled' = FALSE /\ health' = IF enabled THEN 0 ELSE health
  /\ Frame /\ UNCHANGED <<cfg, used, hup, srvs, ended>>

---------------------------------------------------------------------------
(* Wait: main looks whether the metrics are enabled, then sets the health, *)
(* and ends the process when Serve is done.                                *)
MainFrame == UNCHANGED <<ops, cfg, used, pc, hup, term, srvs, ended,
                       enabled, pairs, refused>>

WaitChecks ==
  /\ ended = "no" /\ main = "wait"
  /\ main' = IF enabled THEN "health" ELSE "done?"
  /\ MainFrame /\ UNCHANGED health
WaitSets ==
  /\ ended = "no" /\ main = "health" /\ main' = "done?" /\ health' = 1
  /\ MainFrame
Finish ==
  /\ ended = "no" /\ main = "done?" /\ pc = "done" /\ main' = "finished"
  /\ MainFrame /\ UNCHANGED health

Operator == (\E f \in Files : Edit(f)) \/ Hup \/ Term
Service(g) == Check(g) \/ Listen(g) \/ Accept(g)
Serve ==
  \/ Boot \/ Notify \/ TakeTerm \/ TakeHup \/ ReloadResolvers \/ ReloadServers
  \/ BeginStop \/ EndStop \/ Restart \/ ReloadSettings \/ ReloadMetrics
  \/ ShutdownMetrics
Wait == WaitChecks \/ WaitSets \/ Finish
Next ==
  \/ Operator \/ Serve \/ Wait \/ ServeFails
  \/ \E g \in 1..MaxGens : Service(g) \/ Use(g) \/ Used(g)

(* Serve, main and the services are goroutines, which are scheduled; none  *)
(* of their steps waits for ever, as the shutdown of a service has a       *)
(* timeout.  Nothing is assumed of the operator or of those who take       *)
(* profiles.                                                               *)
Fairness == /\ WF_vars(Serve) /\ WF_vars(Wait)
            /\ \A g \in 1..MaxGens : WF_vars(Service(g))
Spec == Init /\ [][Next]_vars /\ Fairness

---------------------------------------------------------------------------
(* Properties                                                              *)

TypeOK ==
  /\ hup \in {0, 1} /\ health \in {0, 1} /\ enabled \in BOOLEAN
  /\ gen \in 0..MaxGens /\ port \in 0..MaxGens /\ busy \in 0..MaxGens
  /\ \A g \in 1..MaxGens : g > gen => svc[g] = "none"
  /\ ended \in {"no", "hup", "busy", "listener"}

(* Between reloads every setting in force is the one last read, or that is *)
(* one the code refuses: an unknown resolver or an endpoint nobody answers *)
(* at, the certificate of a server at or after one that cannot be loaded,  *)
(* a policy or a map that cannot be parsed, a bad level.  Nothing refused  *)
(* keeps another setting from being loaded, and the policies in force are  *)
(* a pair that was read together (docs/configuration.md:298).              *)
ReloadIsWhole ==
  pc = "loop" =>
    /\ \/ used.res.order = OrderOf(cfg)
       \/ ~KnownResolvers(cfg) \/ Undialled(cfg)
    /\ \A s \in 1..Servers :
         \/ used.certs[s] = cfg.certs[s]
         \/ cfg.certs[s] = "gone"
         \/ \E b \in 1..s : cfg.certs[b] = "bad"
    /\ \/ used.policy = cfg.policy /\ used.regions = cfg.regions
       \/ /\ "bad" \in {cfg.policy, cfg.regions}
          /\ <<used.policy, used.regions>> \in pairs
    /\ used.level = cfg.level \/ cfg.level = "bad"

(* The RPC endpoint is one of the settings a SIGHUP reloads                *)
(* (docs/configuration.md:217).                                            *)
EndpointIsReloaded ==
  /\ pc = "loop" /\ KnownResolvers(cfg) /\ cfg.rpc \notin {"", "down"}
  /\ \E i \in DOMAIN used.res.order : used.res.order[i] = "nns"
  => used.res.rpc = cfg.rpc

(* A helper service that a reload starts finds its port free, unless an    *)
(* instance was stopped between looking whether it was shut down and       *)
(* listening: then the old one takes the port, or has it taken.            *)
PortIsFree ==
  \A g \in 1..gen : svc[g] = "failed" => \E h \in raced : h <= g

(* Whenever the gateway is at work with its metrics enabled, they tell     *)
(* that it is, once main has come to say so.                               *)
HealthIsTold ==
  pc = "loop" /\ enabled /\ main = "done?" => health = 1

(* What the operator wrote before a SIGHUP is loaded, or the file cannot   *)
(* be read when it is, or the process ends.                                *)
EditsAreLoaded ==
  \A n \in 1..MaxEdits :
    (told >= n) ~> (cfg.edit >= n \/ refused >= n \/ term \/ ended # "no")

(* SIGTERM ends the process.                                               *)
TermEnds == term ~> (main = "finished" \/ ended # "no")
=============================================================================
