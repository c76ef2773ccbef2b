----------------------------- MODULE Deployment -----------------------------
(***************************************************************************)
(* jurisearchctl on a site host: installing and starting the three units,  *)
(* the gate in front of the query service, the demo's bounded catch-up, the *)
(* lifecycle commands and a reboot, while the producer publishes and the   *)
(* sync daemon applies.                                                    *)
(***************************************************************************)
EXTENDS Naturals, Sequences, FiniteSets

CONSTANTS Corpora,      \* sync.corpora
          MaxSeq,       \* bound: packages published for one corpus
          MaxFaults,    \* bound: failed steps, lost stamps, manual stops, reboots
          None

BoundsAssumption == MaxSeq \in Nat /\ MaxFaults \in Nat

VARIABLES feed,         \* corpus -> fingerprint of each package published
          cursor,       \* corpus -> applied sequence, 0 when not installed
          stamped,      \* the readiness stamp stands for the active topology
          embedder,     \* the bge-m3 endpoint: "down", "loading" or "up"
          running,      \* units that run
          enabled,      \* units a boot starts
          op,           \* the operator's command
          faults

deploymentVars == <<feed, cursor, stamped, embedder, running, enabled,
                    op, faults>>
site == <<embedder, running, enabled>>
replica == <<feed, cursor, stamped>>

Units == {"bge-m3", "syncd", "site"}
Prerequisites == {"bge-m3", "syncd"}
Prints == {"ours", "other"}     \* of the configured embedder, or not

Published(c) == Len(feed[c])
Active == {c \in Corpora : cursor[c] > 0}
Fingerprint(c) == feed[c][cursor[c]]
Fingerprints == [c \in Active |-> Fingerprint(c)]

IdleOp == [step |-> "idle", demo |-> FALSE, force |-> FALSE, start |-> FALSE,
           todo |-> {}, floor |-> [c \in Corpora |-> 0], corpus |-> None,
           head |-> 0, seen |-> [c \in {} |-> 0], ready |-> FALSE, healthy |-> FALSE]

Init ==
  /\ feed = [c \in Corpora |-> <<>>]
  /\ cursor = [c \in Corpora |-> 0]
  /\ stamped = FALSE
  /\ embedder = "down"
  /\ running = {}
  /\ enabled = {}
  /\ op = IdleOp
  /\ faults = 0

----------------------------------------------------------------------------
(* The producer, the sync daemon, the embedder and the clock.              *)

Publish(c) == \E print \in Prints :
  /\ Published(c) < MaxSeq
  /\ feed' = [feed EXCEPT ![c] = Append(@, print)]
  /\ UNCHANGED <<cursor, stamped, site, op, faults>>

AdvanceTo(c, n) ==
  /\ cursor' = [cursor EXCEPT ![c] = n]
  /\ stamped' = TRUE
  /\ UNCHANGED feed

(* A fresh site takes the active baseline, which may stand anywhere up to  *)
(* the head; an installed one goes through the chain package by package.   *)
DaemonApplies(c) ==
  /\ "syncd" \in running
  /\ \E n \in (cursor[c] + 1)..Published(c) :
       /\ cursor[c] > 0 => n = cursor[c] + 1
       /\ AdvanceTo(c, n)
  /\ UNCHANGED <<site, op, faults>>

(* A re-apply that lost a race with the daemon leaves a stamp that stands  *)
(* for an older topology (ClientReplica); the next apply repairs it.       *)
StampLost ==
  /\ faults < MaxFaults
  /\ faults' = faults + 1
  /\ stamped
  /\ stamped' = FALSE
  /\ UNCHANGED <<feed, cursor, site, op>>

EmbedderLoads ==
  /\ embedder = "loading"
  /\ embedder' = "up"
  /\ UNCHANGED <<replica, running, enabled, op, faults>>

----------------------------------------------------------------------------
(* systemd.  The site unit wants the embedder's; the units are Type=simple, *)
(* so a start returns before the model is loaded.                          *)

Start(units) ==
  LET all == units \cup (IF "site" \in units THEN {"bge-m3"} ELSE {}) IN
  /\ running' = running \cup all
  /\ embedder' = IF "bge-m3" \in all /\ embedder = "down" THEN "loading" ELSE embedder

Reboot ==
  /\ faults < MaxFaults
  /\ faults' = faults + 1
  /\ running' = enabled
  /\ embedder' = IF "bge-m3" \in enabled THEN "loading" ELSE "down"
  /\ op' = IdleOp
  /\ UNCHANGED <<replica, enabled>>

----------------------------------------------------------------------------
(* What the reports say.                                                   *)

(* Fault: the readiness report is printed and not obeyed.                  *)
Readiness_Advisory(topology) ==
  topology = [c \in {} |-> "ours"] \/ (stamped /\ \A c \in DOMAIN topology : topology[c] = "ours")

(* classify_serving_readiness: an empty site is not ready, nor is one      *)
(* whose stamp is stale or whose corpora need another embedder.            *)
Readiness(topology) ==
  /\ DOMAIN topology # {}
  /\ stamped
  /\ \A c \in DOMAIN topology : topology[c] = "ours"

(* embed_doctor: the endpoint answers and no active corpus disagrees; no   *)
(* active corpus is only a warning.                                        *)
EmbedDoctor == embedder = "up" /\ \A c \in Active : Fingerprint(c) = "ours"

MayStart == op.force \/ (op.ready /\ op.healthy)

(* Fault: an installed corpus counts as caught up.                         *)
CatchupGreen_Installed(applied, head) == applied # 0

CatchupGreen(applied, head) == applied # 0 /\ applied = head

----------------------------------------------------------------------------
(* site install and demo up.                                               *)

(* demo up first looks for the manifest of every corpus.                   *)
BeginInstall(demo, force, start) ==
  /\ op = IdleOp
  /\ demo => \A c \in Corpora : Published(c) > 0
  /\ op' = [IdleOp EXCEPT !.step = "prepare", !.demo = demo, !.force = force,
                          !.start = start, !.todo = Corpora, !.floor = [c \in Corpora |-> Published(c)]]
  /\ UNCHANGED <<replica, site, faults>>

(* Database, env files and unit files, trust anchors, daemon-reload, then  *)
(* all three units are enabled; with --no-start the command ends here.     *)
EnableUnits ==
  /\ op.step = "prepare"
  /\ enabled' = Units
  /\ op' = IF op.start THEN [op EXCEPT !.step = "start"] ELSE IdleOp
  /\ UNCHANGED <<replica, embedder, running, faults>>

(* Fault: the embedder is not started before the gate asks for it.         *)
StartPrerequisites_SyncdOnly ==
  /\ op.step = "start"
  /\ Start({"syncd"})
  /\ op' = [op EXCEPT !.step = IF op.demo THEN "catchup" ELSE "readiness"]
  /\ UNCHANGED <<replica, enabled, faults>>

StartPrerequisites ==
  /\ op.step = "start"
  /\ Start(Prerequisites)
  /\ op' = [op EXCEPT !.step = IF op.demo THEN "catchup" ELSE "readiness"]
  /\ UNCHANGED <<replica, enabled, faults>>

(* One pass of demo up over one corpus: the signed manifest is read ...    *)
CatchupReads(c) ==
  /\ op.step = "catchup"
  /\ c \in op.todo
  /\ op' = [op EXCEPT !.step = "apply", !.corpus = c, !.head = Published(c)]
  /\ UNCHANGED <<replica, site, faults>>

(* ... the active baseline of a fresh site, or the chain up to the head, is *)
(* applied ...                                                             *)
CatchupApplies ==
  /\ op.step = "apply"
  /\ op' = [op EXCEPT !.step = "classify"]
  /\ IF cursor[op.corpus] < op.head
       THEN \E n \in (cursor[op.corpus] + 1)..op.head :
              /\ cursor[op.corpus] > 0 => n = op.head
              /\ AdvanceTo(op.corpus, n)
       ELSE UNCHANGED replica
  /\ UNCHANGED <<site, faults>>

(* ... and the cursor is read again.  A corpus that is not at the head is  *)
(* tried again until the deadline, and then the command fails.             *)
CatchupClassifies ==
  /\ op.step = "classify"
  /\ IF CatchupGreen(cursor[op.corpus], op.head)
       THEN LET left == op.todo \ {op.corpus} IN
            op' = [op EXCEPT !.todo = left, !.corpus = None, !.head = 0,
                             !.step = IF left = {} THEN "readiness" ELSE "catchup"]
       ELSE op' \in {IdleOp, [op EXCEPT !.step = "catchup", !.corpus = None, !.head = 0]}
  /\ UNCHANGED <<replica, site, faults>>

(* The active topology is read on one connection, the stamp on another.    *)
ReadTopology ==
  /\ op.step = "readiness"
  /\ op' = [op EXCEPT !.step = "stamp", !.seen = Fingerprints]
  /\ UNCHANGED <<replica, site, faults>>

ReadStamp ==
  /\ op.step = "stamp"
  /\ op' = [op EXCEPT !.step = "embed", !.ready = Readiness(op.seen)]
  /\ UNCHANGED <<replica, site, faults>>

CheckEmbedder ==
  /\ op.step = "embed"
  /\ op' = [op EXCEPT !.step = "gate", !.healthy = EmbedDoctor]
  /\ UNCHANGED <<replica, site, faults>>

(* The query service is started, or refused; it stays enabled either way.  *)
Gate ==
  /\ op.step = "gate"
  /\ IF MayStart THEN Start({"site"}) ELSE UNCHANGED <<running, embedder>>
  /\ op' = IdleOp
  /\ UNCHANGED <<replica, enabled, faults>>

(* A step of the command fails, or the operator interrupts it.             *)
CommandFails ==
  /\ faults < MaxFaults
  /\ faults' = faults + 1
  /\ op # IdleOp
  /\ op' = IdleOp
  /\ UNCHANGED <<replica, site>>

InstallStep ==
  \/ EnableUnits \/ StartPrerequisites \/ (\E c \in Corpora : CatchupReads(c))
  \/ CatchupApplies \/ CatchupClassifies \/ ReadTopology \/ ReadStamp
  \/ CheckEmbedder \/ Gate

----------------------------------------------------------------------------
(* site stop, restart and uninstall: systemctl over all three units.       *)

Stop ==
  /\ faults < MaxFaults
  /\ faults' = faults + 1
  /\ op = IdleOp
  /\ running' = {}
  /\ embedder' = "down"
  /\ UNCHANGED <<replica, enabled, op>>

Restart ==
  /\ faults < MaxFaults
  /\ faults' = faults + 1
  /\ op = IdleOp
  /\ enabled = Units
  /\ running' = Units
  /\ embedder' = "loading"
  /\ UNCHANGED <<replica, enabled, op>>

(* The failure of the stop is ignored; nothing is left to boot.            *)
Uninstall ==
  /\ faults < MaxFaults
  /\ faults' = faults + 1
  /\ op = IdleOp
  /\ enabled = Units
  /\ enabled' = {}
  /\ \/ running' = {} /\ embedder' = "down"
     \/ UNCHANGED <<running, embedder>>
  /\ UNCHANGED <<replica, op>>

----------------------------------------------------------------------------
Next ==
  \/ \E c \in Corpora : Publish(c) \/ DaemonApplies(c)
  \/ StampLost \/ EmbedderLoads \/ Reboot
  \/ \E demo, force, start \in BOOLEAN : BeginInstall(demo, force, start)
  \/ InstallStep \/ CommandFails
  \/ Stop \/ Restart \/ Uninstall

(* systemd loads the embedder, a command that began goes on, and the       *)
(* operator repeats a plain install while the query service does not run.  *)
SafetySpec == Init /\ [][Next]_deploymentVars

Spec ==
  /\ SafetySpec
  /\ WF_deploymentVars(EmbedderLoads) /\ WF_deploymentVars(InstallStep)
  /\ SF_deploymentVars("site" \notin running /\ BeginInstall(FALSE, FALSE, TRUE))

----------------------------------------------------------------------------
Steps == {"idle", "prepare", "start", "catchup", "apply", "classify", "readiness",
          "stamp", "embed", "gate"}

Installs ==
  [step : Steps, demo : BOOLEAN, force : BOOLEAN, start : BOOLEAN, todo : SUBSET Corpora,
   floor : [Corpora -> 0..MaxSeq], corpus : Corpora \cup {None}, head : 0..MaxSeq,
   seen : UNION {[corpora -> Prints] : corpora \in SUBSET Corpora}, ready : BOOLEAN, healthy : BOOLEAN]

TypeOK ==
  /\ feed \in [Corpora -> Seq(Prints)] /\ cursor \in [Corpora -> 0..MaxSeq]
  /\ \A c \in Corpora : Published(c) <= MaxSeq /\ cursor[c] <= Published(c)
  /\ stamped \in BOOLEAN
  /\ embedder \in {"down", "loading", "up"}
  /\ running \subseteq Units /\ enabled \subseteq Units
  /\ op \in Installs /\ (op.step \in {"apply", "classify"} => op.corpus \in op.todo)
  /\ faults \in 0..MaxFaults

(* The gate stands for what is served (lifecycle.rs:58, jurisearchctl.rs:  *)
(* 480): an install that is not forced starts the query service only over  *)
(* an installed corpus, over corpora the embedder fits - save those that   *)
(* moved after the report read them - and a demo only once every corpus    *)
(* has reached the head that was published when the command began.        *)
GatedStart ==
  [][(Gate /\ "site" \in running' \ running /\ ~op.force) =>
        /\ Active # {}
        /\ \A c \in Active \cap DOMAIN op.seen :
             Fingerprint(c) = op.seen[c] => Fingerprint(c) = "ours"
        /\ op.demo => \A c \in Corpora : cursor[c] >= op.floor[c]]_deploymentVars

(* An install refused because the model was still loading or nothing was   *)
(* applied yet succeeds when it is repeated (jurisearchctl.rs:404).        *)
InstallConverges ==
  <>[](stamped /\ Active # {} /\ \A c \in Active : Fingerprint(c) = "ours") =>
    <>[]("site" \in running)
=============================================================================
