----------------------------- MODULE MCServices -----------------------------
(***************************************************************************)
(* A finite instance of each of three parts of the process that do not     *)
(* share state: the requests it serves, its life from start to end, and    *)
(* the resolver of bucket names.  A behaviour is one of the part its first *)
(* state chooses; the others stay in their first state.                    *)
(***************************************************************************)
EXTENDS ServedRequests

CONSTANTS
  First, Files, Servers, MaxEdits, MaxHups, MaxGens, Unset, Broken,
  Lists, Known, MaxUpdates, None

VARIABLES
  part,
  file, cfg, used, serve, main, hup, term, svc, gen, port, busy, metrics, health, pairs,
  raced, ended, edits, hups, told, refused,
  resolvers, asking, new, locked, updates

servedVars  == vars
appVars     == <<file, cfg, used, serve, main, hup, term, svc, gen, port, busy, metrics, health,
                 pairs, raced, ended, edits, hups, told, refused>>
resolveVars == <<resolvers, asking, new, locked, updates>>

---------------------------------------------------------------------------
App == INSTANCE AppLifecycle WITH pc <- serve, enabled <- metrics

(* As many goroutines resolve names as requests are served.                *)
Names == INSTANCE Resolver WITH req <- asking

---------------------------------------------------------------------------
(* Viper gives every file all keys, and reads switches as Booleans; the    *)
(* names of resolvers are strings, and none is the error of a name that    *)
(* nobody resolves.                                                        *)
ASSUME SettingsAssumption ==
  /\ MaxGens \in Nat /\ Servers \in Nat
  /\ First.metrics \in BOOLEAN
  /\ \A f \in Files \ {Broken} :
       f = [k \in App!Keys |-> f[k]] /\ f.metrics \in BOOLEAN \cup {Unset}
ASSUME ListsAssumption ==
  \A l \in Lists : l \in Seq(STRING) /\ \A i \in DOMAIN l : l[i] # "error"

(* The instance: four contents of the file, and five lists.                *)
FirstFile == [order |-> <<"nns", "dns">>, rpc |-> "a", certs |-> <<"c1", "c1">>,
              policy |-> "p1", regions |-> "r1", level |-> "info", service |-> TRUE,
              metrics |-> FALSE, edit |-> 0]
FourFiles ==
  {Broken,
   [FirstFile EXCEPT !.rpc = "b", !.certs = <<"bad", "c2">>, !.policy = "p2",
                     !.regions = "bad", !.metrics = TRUE],
   [FirstFile EXCEPT !.order = <<"dns">>, !.rpc = "down", !.certs = <<"c2", "c2">>,
                     !.policy = "p2", !.regions = "r2", !.level = "bad"],
   [FirstFile EXCEPT !.order = Unset, !.rpc = "down", !.certs = <<"gone", "c2">>,
                     !.policy = Unset, !.regions = "r2", !.service = FALSE,
                     !.metrics = Unset]}
FiveLists == {<<"dns">>, <<"nns", "dns">>, <<"dns", "nns">>, <<"dns", "x">>, <<>>}

---------------------------------------------------------------------------
allVars == <<part, servedVars, appVars, resolveVars>>

ServicesInit ==
  /\ part \in {"served", "app", "names"}
  /\ Init /\ (part # "served" => ~enabled)
  /\ App!Init
  /\ Names!Init /\ (part # "names" => resolvers = <<>>)

ServicesNext ==
  /\ part' = part
  /\ \/ part = "served" /\ Next /\ UNCHANGED <<appVars, resolveVars>>
     \/ part = "app" /\ App!Next /\ UNCHANGED <<servedVars, resolveVars>>
     \/ part = "names" /\ Names!Next /\ UNCHANGED <<servedVars, appVars>>

(* The fairness of ServedRequests, AppLifecycle and Resolver.              *)
ServicesFairness ==
  /\ \A r \in Requests : /\ WF_vars(part = "served" /\ Deadline(r))
                         /\ WF_vars(part = "served" /\ Back(r))
                         /\ WF_resolveVars(part = "names" /\ Names!Resolve(r))
  /\ WF_appVars(part = "app" /\ App!Serve)
  /\ WF_appVars(part = "app" /\ App!Wait)
  /\ \A g \in 1..MaxGens : WF_appVars(part = "app" /\ App!Service(g))
  /\ WF_resolveVars(part = "names" /\ Names!LockResolvers)
  /\ WF_resolveVars(part = "names" /\ Names!CreateResolvers)

ServicesSpec == ServicesInit /\ [][ServicesNext]_allVars /\ ServicesFairness

---------------------------------------------------------------------------
(* Whatever was read last is in force, or is refused; a helper service     *)
(* that a reload starts finds its port free; enabled metrics tell that the *)
(* gateway is at work.                                                     *)
ProcessIsSound ==
  App!TypeOK /\ App!ReloadIsWhole /\ App!PortIsFree /\ App!HealthIsTold

(* The endpoint is one of the settings that are reloaded                   *)
(* (docs/configuration.md:217).                                            *)
EndpointIsReloaded == App!EndpointIsReloaded

(* What was written before a SIGHUP is loaded, the new resolvers with it,  *)
(* and SIGTERM ends the process.                                           *)
ReloadsAndStopsEnd == App!EditsAreLoaded /\ App!TermEnds /\ Names!ReloadEnds

(* A request sees one list of resolvers.                                   *)
OneListPerRequest == Names!OneListPerRequest
=============================================================================
