------------------------------ MODULE SiteSuite ------------------------------
(***************************************************************************)
(* A site, one part of it per behaviour (variable part): the feed and its  *)
(* daemons, the requests and the generation switches under them, the       *)
(* request servers, the index that is opened and closed, the roles of the  *)
(* database, the deployment command, the watchdog, and a fleet that is     *)
(* upgraded.  The parts that do not run stay in one initial state.         *)
(***************************************************************************)
EXTENDS CatchupFeed

CONSTANTS
  Parts,
  Readers, Corpora, Generations, CorpusOf, Views, Paths, MaxContent,    \* ReadSnapshot
  Clients, MaxWorkers, MaxEmbeds, MaxFrames,                            \* SiteServer
  Commands, CommandRelease, MaxKills,                                   \* ManagedPostgres
  Schemas, MaxDrifts,                                                   \* Roles
  Subscribed, MaxReleases, MaxMishaps,                                  \* Deployment
  MaxHead, Threshold, MaxAway,                                          \* SiteWatchdog
  Sites, Producer, FleetReleases, Privileged, MaxPackages, MaxLosses    \* SchemaUpgrade

VARIABLES part,
  active, rows, retired, switch, route, seen, held, touched, asks, opened, answer,
  surface, workers, acceptor, backlog, slots, embeds, stage, peer, inbox, sent, current, replies,
  lock, data, conf, override, server, pidfile, holder, database, sync, applied, advisory,
  opening, profile, failures,
  purpose, grants, members, owners, provisioned, visible, drifts,
  releases, installed, stamped, embedder, running, enabled, op, mishaps,
  head, position, age, legible, daemon, watch, verdict, away,
  binary, schema, extensions, major, syncd, packages, sequence, stampedSchema, shape,
  apply, building, losses

readVars == <<active, rows, retired, switch, route, seen, held, touched, asks, opened, answer>>
serverVars == <<surface, workers, acceptor, backlog, slots, embeds, stage, peer, inbox, sent, current, replies>>
postgresVars == <<lock, data, conf, override, server, pidfile, holder, database, sync, applied, advisory,
                  opening, profile, failures>>
roleVars == <<purpose, grants, members, owners, provisioned, visible, drifts>>
deployVars == <<releases, installed, stamped, embedder, running, enabled, op, mishaps>>
watchVars == <<head, position, age, legible, daemon, watch, verdict, away>>
fleetVars == <<binary, schema, extensions, major, syncd, packages, sequence, stampedSchema, shape,
               apply, building, losses>>
suiteVars == <<vars, readVars, serverVars, postgresVars, roleVars, deployVars, watchVars, fleetVars, part>>

Reads == INSTANCE ReadSnapshot

Server == INSTANCE SiteServer

Postgres == INSTANCE ManagedPostgres
  WITH Binary <- CommandRelease, MaxFaults <- MaxKills, stage <- opening, faults <- failures

Site == INSTANCE Roles
  WITH Generations <- Schemas, profile <- purpose, active <- visible

Ctl == INSTANCE Deployment
  WITH Corpora <- Subscribed, MaxSeq <- MaxReleases, MaxFaults <- MaxMishaps,
       feed <- releases, cursor <- installed, faults <- mishaps

Watchdog == INSTANCE SiteWatchdog
  WITH Corpora <- Subscribed, MaxSeq <- MaxHead, cursor <- position

Fleet == INSTANCE SchemaUpgrade
  WITH Clients <- Sites, Releases <- FleetReleases, MaxSeq <- MaxPackages, MaxFaults <- MaxLosses,
       applied <- schema, daemon <- syncd, feed <- packages, cursor <- sequence,
       stamped <- stampedSchema, job <- apply, faults <- losses

ASSUME ReadsAssumption ==
  /\ Reads!LabelAssumption /\ Reads!BoundsAssumption
  /\ Reads!ViewsAssumption /\ Reads!NoneAssumption
ASSUME ServerAssumption == Server!BoundsAssumption
ASSUME PostgresAssumption == Postgres!BoundsAssumption /\ Postgres!NoneAssumption
ASSUME RolesAssumption == Site!BoundsAssumption /\ Site!NamesAssumption
ASSUME DeploymentAssumption == Ctl!BoundsAssumption
ASSUME WatchdogAssumption == Watchdog!BoundsAssumption
ASSUME FleetAssumption ==
  /\ Fleet!ReleasesAssumption /\ Fleet!HostsAssumption
  /\ Fleet!BoundsAssumption /\ Fleet!NoneAssumption

SuiteInit ==
  /\ Init /\ Reads!Init /\ Server!Init /\ Postgres!Init /\ Site!Init /\ Ctl!Init
  /\ Watchdog!Init /\ Fleet!Init
  /\ part \in Parts
  /\ part # "server" => surface = "site" /\ workers = 1
  /\ part # "postgres" => override = "unset"
  /\ part # "roles" => purpose = "site"
  /\ part # "watchdog" => legible

(* The rest of the suite stands still while a part runs.                    *)
InFeed == part = "feed" /\ UNCHANGED <<part, readVars, serverVars, postgresVars, roleVars, deployVars, watchVars, fleetVars>>
InReads == part = "reads" /\ UNCHANGED <<part, vars, serverVars, postgresVars, roleVars, deployVars, watchVars, fleetVars>>
InServer == part = "server" /\ UNCHANGED <<part, vars, readVars, postgresVars, roleVars, deployVars, watchVars, fleetVars>>
InPostgres == part = "postgres" /\ UNCHANGED <<part, vars, readVars, serverVars, roleVars, deployVars, watchVars, fleetVars>>
InRoles == part = "roles" /\ UNCHANGED <<part, vars, readVars, serverVars, postgresVars, deployVars, watchVars, fleetVars>>
InDeploy == part = "deploy" /\ UNCHANGED <<part, vars, readVars, serverVars, postgresVars, roleVars, watchVars, fleetVars>>
InWatchdog == part = "watchdog" /\ UNCHANGED <<part, vars, readVars, serverVars, postgresVars, roleVars, deployVars, fleetVars>>
InFleet == part = "fleet" /\ UNCHANGED <<part, vars, readVars, serverVars, postgresVars, roleVars, deployVars, watchVars>>

SuiteNext ==
  \/ InFeed /\ Next
  \/ InReads /\ Reads!Next
  \/ InServer /\ Server!Next
  \/ InPostgres /\ Postgres!Next
  \/ InRoles /\ Site!Next
  \/ InDeploy /\ Ctl!Next
  \/ InWatchdog /\ Watchdog!Next
  \/ InFleet /\ Fleet!Next

SuiteSpec == SuiteInit /\ [][SuiteNext]_suiteVars

-----------------------------------------------------------------------------
(* The safety properties, by theme; each is stated, with the code it is    *)
(* about, in the module of the part.                                       *)

(* What the variables of every part may hold.                              *)
TypesOK ==
  /\ TypeOK /\ Reads!TypeOK /\ Server!TypeOK /\ Postgres!TypeOK /\ Site!TypeOK
  /\ Ctl!TypeOK /\ Watchdog!TypeOK /\ Fleet!TypeOK

(* A request is answered from the topology it opened with, by the one      *)
(* thread that holds a permit for it, once and in order (query.rs,         *)
(* serve.rs, listener.rs).  What an operator's command leaves is what it   *)
(* says: a server with its durability and its schema, roles with the       *)
(* privileges of their job and a readable generation, rows of the shape of *)
(* their stamp, a site service that was started ready.                     *)
OperationIsSafe ==
  /\ []Reads!RoutedTopology
  /\ [](Server!PermitsAreConserved /\ Server!RepliesFollowRequests)
  /\ []Postgres!ServesItsOwnServer
  /\ [](Site!LeastPrivilege /\ Site!ActiveStaysReadable)
  /\ []Fleet!ShapeIsStamped
  /\ Ctl!GatedStart
=============================================================================
