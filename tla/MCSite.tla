------------------------------- MODULE MCSite -------------------------------
(***************************************************************************)
(* The site for TLC: the sizes of its parts, the fairness under which they *)
(* run, and what must happen in the end.                                   *)
(***************************************************************************)
EXTENDS SiteSuite, TLC

CONSTANTS d1, d2, u1, core, inpi   \* model values

TwoCorpora == <<inpi, core>>
TwoViews == <<"documents", "chunks">>
MCCorpusOf == [g \in {"core1", "core2", "inpi1"} |-> IF g = "inpi1" THEN "inpi" ELSE "core"]
MCCommandRelease == [k \in {"k1", "k2"} |-> IF k = "k1" THEN 1 ELSE 2]

(* The fairness of each part is that of its module.  The part never        *)
(* changes, so strong fairness of a disjunction over the parts is strong   *)
(* fairness of the disjunct of the part that runs.                         *)
SuiteFairness ==
  /\ \A p \in Processes : WF_vars(part = "feed" /\ CycleStep(p))
  /\ \A p \in Daemons : /\ WF_vars(part = "feed" /\ DaemonStep(p))
                        /\ WF_vars(part = "feed" /\ StartDaemon(p))
  /\ \A c \in PolledCorpora : WF_vars(part = "feed" /\ PublishManifest(c))
  /\ WF_readVars(part = "reads" /\ (Reads!QueueForView \/ Reads!ReplaceView))
  /\ WF_readVars(part = "reads" /\ Reads!CommitSwitch)
  /\ WF_readVars(part = "reads" /\ Reads!Replacing /\ switch.waits /\ Reads!LockTimeout)
  /\ WF_serverVars(part = "server" /\ Server!AcquireWorker)
  /\ WF_serverVars(part = "server" /\ Server!Accept)
  /\ \A c \in {"c1", "c2"} : WF_serverVars(part = "server" /\ Server!ThreadStep(c))
  /\ \A k \in {"k1", "k2"} : /\ WF_postgresVars(part = "postgres" /\ Postgres!Step(k))
                            /\ WF_postgresVars(part = "postgres" /\ Postgres!Close(k))
  /\ WF_roleVars(part = "roles" /\ ~provisioned /\ Site!Provision)
  /\ \A g \in {"g1", "g2"} : /\ WF_roleVars(part = "roles" /\ Site!Build(g))
                            /\ WF_roleVars(part = "roles" /\ Site!Activate(g))
  /\ WF_deployVars(part = "deploy" /\ Ctl!EmbedderLoads)
  /\ WF_deployVars(part = "deploy" /\ Ctl!InstallStep)
  /\ WF_watchVars(part = "watchdog" /\ (Watchdog!ReadCursor \/ Watchdog!ReadAge))
  /\ WF_fleetVars(part = "fleet" /\ Fleet!Upgrading)
  /\ WF_fleetVars(part = "fleet" /\ Fleet!Restart("site"))
  /\ WF_fleetVars(part = "fleet" /\ Fleet!Cycle("site"))
  /\ SF_suiteVars(\/ InReads /\ Reads!ReadView("r1")
                  \/ InPostgres /\ \E p \in Postgres!Profiles : Postgres!Open("k2", p)
                  \/ InDeploy /\ "site" \notin running /\ Ctl!BeginInstall(FALSE, FALSE, TRUE)
                  \/ InWatchdog /\ Watchdog!Tick)
  /\ SF_suiteVars(InWatchdog /\ Watchdog!ReadHead("core"))

FairSuite == SuiteSpec /\ SuiteFairness

-----------------------------------------------------------------------------
(* No request waits for ever, for a view a switch has locked or for a      *)
(* worker another connection holds.                                        *)
RequestsAreServed == Reads!WaitersAreServed /\ Server!EventuallyAccepted

(* The daemons end up at the head of every feed they can follow; whatever  *)
(* was left behind, the index opens again and the next generation becomes  *)
(* visible; an install that is repeated brings the site up, a fleet that   *)
(* is upgraded follows its feed again, and the watchdog ends by telling a  *)
(* site that is stuck from one that has caught up.                         *)
Recovers ==
  /\ EventuallySettled
  /\ []<>(part = "postgres" => Postgres!Opens)
  /\ <>[](part = "roles" => visible # None)
  /\ Ctl!InstallConverges
  /\ Fleet!SitesFollow
  /\ Watchdog!TellsStuckFromQuiet
=============================================================================
