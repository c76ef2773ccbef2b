---------------------------- MODULE CatchupFeed -----------------------------
(***************************************************************************)
(* How a site catches up with the feed of a producer (jurisearch-syncd,    *)
(* planner.rs and daemon.rs, against the manifests of jurisearch-package-  *)
(* build/remote_manifest.rs).  Daemons, one at a time by a lease, and      *)
(* one-shot updates poll the manifest, read the cursor, plan, and apply    *)
(* what they planned; manifest and cursor may be stale by then.  Applying  *)
(* a package is one step here: ClientReplica is about what it consists of. *)
(***************************************************************************)
EXTENDS Integers, Sequences, FiniteSets

CONSTANTS
  Daemons, Updates,  \* processes: `syncd daemon`, one-shot `syncd update`
  Polled,            \* the corpora in the order the daemon polls them
  MaxRetained,       \* max_retained_incrementals of the manifest
  MaxChain,          \* max_incremental_packages of its catch-up policy
  MaxBurst,          \* max_burst of the daemon
  SchemaAhead,       \* sequences whose schema this client does not know
  MaxSeq,            \* bound: packages of a corpus
  Quiet,             \* bound: corpora whose feed stays empty
  MaxFaults,         \* bound: transient faults, crashes, lost leases, stops
  None

ASSUME BoundsAssumption ==
  /\ MaxRetained \in Nat \ {0} /\ MaxChain \in Nat \ {0} /\ MaxBurst \in Nat \ {0}
  /\ MaxSeq \in Nat /\ MaxFaults \in Nat /\ SchemaAhead \subseteq Nat
ASSUME ProcsAssumption == Daemons \cap Updates = {} /\ None \notin Daemons

PolledCorpora == {Polled[i] : i \in DOMAIN Polled}
Processes == Daemons \cup Updates

ASSUME PolledAssumption == Polled \in Seq(PolledCorpora)

VARIABLES
  catalog,   \* corpus -> kinds of its published packages, by sequence
  served,    \* corpus -> the signed manifest at the distribution root
  cursor,    \* corpus -> sequence of the site, 0 when not installed
  lease,     \* daemon that holds the single-writer lease, or None
  pc, job,   \* where a process is, and for which corpus
  manifest,  \* the manifest it has fetched
  chain,     \* the sequences it has still to apply
  queue,     \* (daemon) the corpora left in this round
  burst,     \* (daemon) re-plans of the corpus so far
  shutdown,  \* daemons asked to stop
  faults

producer == <<catalog, served>>
process == <<pc, job, manifest, chain, queue, burst>>
vars == <<catalog, served, cursor, lease, pc, job, manifest, chain, queue, burst,
          shutdown, faults>>

-----------------------------------------------------------------------------
(* The feed.                                                               *)

MediaKinds == {"baseline", "rebaseline"}
Kinds == MediaKinds \cup {"incremental"}
ManifestType == [head : 1..MaxSeq, media : 1..MaxSeq, kind : MediaKinds,
                 entries : SUBSET (1..MaxSeq), min : 0..MaxSeq]

ASSUME NoneAssumption == None \notin ManifestType /\ None \notin PolledCorpora

MediaRoot(kinds) ==
  CHOOSE s \in DOMAIN kinds :
    /\ kinds[s] \in MediaKinds
    /\ \A t \in DOMAIN kinds : t > s => kinds[t] = "incremental"

(* build_inner: the newest media root and, after it, the newest            *)
(* incrementals up to the retention limit.                                 *)
Manifest(kinds) ==
  LET root == MediaRoot(kinds)
      retained == {s \in DOMAIN kinds : s > root /\ s > Len(kinds) - MaxRetained}
  IN [head |-> Len(kinds), media |-> root, kind |-> kinds[root],
      entries |-> retained,
      min |-> Len(kinds) - Cardinality(retained)]

Publish(c, kind) ==
  /\ Len(catalog[c]) < MaxSeq
  /\ kind = "baseline" <=> catalog[c] = <<>>
  /\ c \notin Quiet
  /\ catalog' = [catalog EXCEPT ![c] = Append(@, kind)]
  /\ UNCHANGED <<served, cursor, lease, process, shutdown, faults>>

PublishManifest(c) ==
  /\ catalog[c] # <<>>
  /\ served[c] # None => served[c].head # Len(catalog[c])
  /\ served' = [served EXCEPT ![c] = Manifest(catalog[c])]
  /\ UNCHANGED <<catalog, cursor, lease, process, shutdown, faults>>

-----------------------------------------------------------------------------
(* plan_catchup: what it says to do and the sequences it says to apply.    *)

Blocked == [do |-> "blocked", steps |-> {}]
FreshBaseline(m) == [do |-> "baseline", steps |-> {m.media}]

(* baseline_compat_or_blocked                                              *)
BaselineIfKnown(m) ==
  IF m.media \in SchemaAhead THEN Blocked ELSE FreshBaseline(m)

(* installed_baseline_or_blocked: only a rebaseline, and only forward.     *)
ForwardBaseline(m, cur) ==
  IF m.kind # "rebaseline" \/ m.media <= cur THEN Blocked ELSE BaselineIfKnown(m)

(* Fault: the chain goes one past the head.                                *)
Chain_PastHead(m, cur) == cur + 1 .. m.head + 1

(* build_chain                                                             *)
Chain(m, cur) == cur + 1 .. m.head

(* Below the retained window (by min_available_sequence and by the signed  *)
(* range alike), no unbroken chain, a chain the policy finds too long.     *)
NeedsBaseline(m, cur) ==
  \/ cur < m.min
  \/ ~ (cur + 1 .. m.head \subseteq m.entries)
  \/ Cardinality(Chain(m, cur)) > MaxChain

Plan(m, cur) ==
  IF cur = 0 THEN BaselineIfKnown(m)
  ELSE IF cur = m.head THEN [do |-> "nothing", steps |-> {}]
  ELSE IF cur > m.head THEN Blocked
  ELSE IF NeedsBaseline(m, cur) \/ Chain(m, cur) \cap SchemaAhead # {}
  THEN ForwardBaseline(m, cur)
  ELSE [do |-> "incremental", steps |-> Chain(m, cur)]

-----------------------------------------------------------------------------
(* One corpus cycle and how the daemon goes on after it.                   *)

Goto(p, from, to) == pc[p] = from /\ pc' = [pc EXCEPT ![p] = to]

(* Fault: after an error the daemon does not poll the other corpora.       *)
QueueAfter_ErrorStops(p, outcome) ==
  IF outcome = "progress" /\ burst[p] + 1 < MaxBurst THEN queue[p]
  ELSE IF outcome = "retryable" THEN <<>> ELSE Tail(queue[p])

(* Fault: one re-plan more than max_burst.                                 *)
QueueAfter_OneMore(p, outcome) ==
  IF outcome = "progress" /\ burst[p] < MaxBurst THEN queue[p] ELSE Tail(queue[p])

(* The same corpus again after progress, up to max_burst, else the next.   *)
QueueAfter(p, outcome) ==
  IF outcome = "progress" /\ burst[p] + 1 < MaxBurst THEN queue[p]
  ELSE Tail(queue[p])

Finish(p, outcome) ==
  /\ manifest' = [manifest EXCEPT ![p] = None]
  /\ chain' = [chain EXCEPT ![p] = {}]
  /\ job' = [job EXCEPT ![p] = None]
  /\ IF p \in Updates
     THEN pc' = [pc EXCEPT ![p] = "off"] /\ UNCHANGED <<queue, burst>>
     ELSE /\ pc' = [pc EXCEPT ![p] = "guard"]
          /\ queue' = [queue EXCEPT ![p] = QueueAfter(p, outcome)]
          /\ burst' = [burst EXCEPT ![p] =
               IF QueueAfter(p, outcome) = queue[p] THEN @ + 1 ELSE 0]

(* No manifest yet is an I/O error: retryable.                             *)
FetchManifest(p) ==
  /\ pc[p] = "fetch"
  /\ IF served[job[p]] = None
     THEN Finish(p, "retryable")
     ELSE /\ Goto(p, "fetch", "plan")
          /\ manifest' = [manifest EXCEPT ![p] = served[job[p]]]
          /\ UNCHANGED <<job, chain, queue, burst>>
  /\ UNCHANGED <<producer, cursor, lease, shutdown, faults>>

(* read_client_cursor, plan_catchup                                        *)
PlanCatchup(p) ==
  /\ pc[p] = "plan"
  /\ LET plan == Plan(manifest[p], cursor[job[p]])
     IN \/ plan.do = "nothing" /\ Finish(p, "uptodate")
        \/ plan.do = "blocked" /\ Finish(p, "rejected")
        \/ /\ plan.do \in {"baseline", "incremental"}
           /\ Goto(p, "plan", "apply")
           /\ chain' = [chain EXCEPT ![p] = plan.steps]
           /\ UNCHANGED <<job, manifest, queue, burst>>
  /\ UNCHANGED <<producer, cursor, lease, shutdown, faults>>

(* Fault: a package is applied to whatever the cursor is.                  *)
Accepts_Anything(c, s) == TRUE

(* The ordering guards of apply_incremental and the media appliers.        *)
Accepts(c, s) ==
  CASE catalog[c][s] = "incremental" -> cursor[c] = s - 1 /\ cursor[c] # 0
    [] catalog[c][s] = "baseline" -> cursor[c] = 0
    [] OTHER -> cursor[c] < s

Least(S) == CHOOSE s \in S : \A t \in S : s <= t

(* run_catchup, one package: applied, found installed, or refused.         *)
ApplyNext(p) ==
  LET c == job[p]
      s == Least(chain[p])
      rest == chain[p] \ {s}
  IN /\ pc[p] = "apply"
     /\ IF s \in DOMAIN catalog[c] /\ (cursor[c] = s \/ Accepts(c, s))
        THEN /\ cursor' = [cursor EXCEPT ![c] = s]
             /\ IF rest = {} THEN Finish(p, "progress")
                ELSE /\ chain' = [chain EXCEPT ![p] = rest]
                     /\ UNCHANGED <<pc, job, manifest, queue, burst>>
        ELSE Finish(p, "rejected") /\ UNCHANGED cursor
     /\ UNCHANGED <<producer, lease, shutdown, faults>>

(* A busy lock, an I/O or database error: the cycle ends, retryable.       *)
TransientFault(p) ==
  /\ pc[p] \in {"fetch", "plan", "apply"}
  /\ faults < MaxFaults /\ faults' = faults + 1
  /\ Finish(p, "retryable")
  /\ UNCHANGED <<producer, cursor, lease, shutdown>>

-----------------------------------------------------------------------------
(* The processes.                                                          *)

StartUpdate(p, c) ==
  /\ Goto(p, "off", "fetch")
  /\ job' = [job EXCEPT ![p] = c]
  /\ UNCHANGED <<producer, cursor, lease, manifest, chain, queue, burst,
                 shutdown, faults>>

(* try_acquire_daemon_lock: a daemon that does not get the lease exits.    *)
StartDaemon(p) ==
  /\ Goto(p, "off", "guard")
  /\ lease = None
  /\ lease' = p
  /\ queue' = [queue EXCEPT ![p] = Polled]
  /\ burst' = [burst EXCEPT ![p] = 0]
  /\ UNCHANGED <<producer, cursor, job, manifest, chain, shutdown, faults>>

(* The process ends, and its database session and lease with it.           *)
Exit(p) ==
  /\ pc' = [pc EXCEPT ![p] = "off"]
  /\ job' = [job EXCEPT ![p] = None]
  /\ manifest' = [manifest EXCEPT ![p] = None]
  /\ chain' = [chain EXCEPT ![p] = {}]
  /\ queue' = [queue EXCEPT ![p] = <<>>]
  /\ burst' = [burst EXCEPT ![p] = 0]
  /\ lease' = IF lease = p THEN None ELSE lease
  /\ shutdown' = shutdown \ {p}
  /\ UNCHANGED <<producer, cursor>>

(* check_before_apply: before every cycle, never within one.               *)
GuardProceeds(p) ==
  /\ queue[p] # <<>>
  /\ p \notin shutdown /\ lease = p
  /\ Goto(p, "guard", "fetch")
  /\ job' = [job EXCEPT ![p] = Head(queue[p])]
  /\ UNCHANGED <<producer, cursor, lease, manifest, chain, queue, burst,
                 shutdown, faults>>

GuardStops(p) ==
  /\ pc[p] = "guard" /\ queue[p] # <<>>
  /\ p \in shutdown \/ lease # p
  /\ Exit(p)
  /\ UNCHANGED faults

(* The round is over; the poll interval or a back-off, then the next.      *)
Sleep(p) ==
  /\ queue[p] = <<>>
  /\ Goto(p, "guard", "sleep")
  /\ UNCHANGED <<producer, cursor, lease, job, manifest, chain, queue, burst,
                 shutdown, faults>>

Wake(p) ==
  /\ p \notin shutdown
  /\ Goto(p, "sleep", "guard")
  /\ queue' = [queue EXCEPT ![p] = Polled]
  /\ UNCHANGED <<producer, cursor, lease, job, manifest, chain, burst,
                 shutdown, faults>>

WakeToStop(p) ==
  /\ pc[p] = "sleep" /\ p \in shutdown
  /\ Exit(p)
  /\ UNCHANGED faults

RequestShutdown(p) ==
  /\ pc[p] # "off" /\ p \notin shutdown
  /\ faults < MaxFaults /\ faults' = faults + 1
  /\ shutdown' = shutdown \cup {p}
  /\ UNCHANGED <<producer, cursor, lease, process>>

(* The connection that holds the lease dies, the daemon does not.          *)
LoseLease ==
  /\ lease # None
  /\ faults < MaxFaults /\ faults' = faults + 1
  /\ lease' = None
  /\ UNCHANGED <<producer, cursor, process, shutdown>>

Crash(p) ==
  /\ pc[p] # "off"
  /\ faults < MaxFaults /\ faults' = faults + 1
  /\ Exit(p)

CycleStep(p) == FetchManifest(p) \/ PlanCatchup(p) \/ ApplyNext(p)
DaemonStep(p) ==
  GuardProceeds(p) \/ GuardStops(p) \/ Sleep(p) \/ Wake(p) \/ WakeToStop(p)

Init ==
  /\ catalog = [c \in PolledCorpora |-> <<>>]
  /\ served = [c \in PolledCorpora |-> None]
  /\ cursor = [c \in PolledCorpora |-> 0]
  /\ lease = None
  /\ pc = [p \in Processes |-> "off"]
  /\ job = [p \in Processes |-> None]
  /\ manifest = [p \in Processes |-> None]
  /\ chain = [p \in Processes |-> {}]
  /\ queue = [p \in Processes |-> <<>>]
  /\ burst = [p \in Processes |-> 0]
  /\ shutdown = {} /\ faults = 0

Next ==
  \/ \E c \in PolledCorpora : \/ \E kind \in MediaKinds \cup {"incremental"} : Publish(c, kind)
                        \/ PublishManifest(c)
  \/ \E p \in Processes : CycleStep(p) \/ TransientFault(p) \/ Crash(p)
  \/ \E p \in Updates, c \in PolledCorpora : StartUpdate(p, c)
  \/ \E p \in Daemons : StartDaemon(p) \/ DaemonStep(p) \/ RequestShutdown(p)
  \/ LoseLease

(* A running process takes its next step, the service manager restarts the *)
(* daemon, the producer's timer publishes the manifest.  Nobody has to run *)
(* an update, and the producer need not publish another package.           *)
Fairness ==
  /\ \A p \in Processes : WF_vars(CycleStep(p))
  /\ \A p \in Daemons : WF_vars(DaemonStep(p)) /\ WF_vars(StartDaemon(p))
  /\ \A c \in PolledCorpora : WF_vars(PublishManifest(c))

Spec == Init /\ [][Next]_vars
FairSpec == Spec /\ Fairness

-----------------------------------------------------------------------------
(* Properties.                                                             *)

(* The types of the variables.                                             *)
TypeOK ==
  /\ catalog \in [PolledCorpora -> UNION {[1..n -> Kinds] : n \in 0..MaxSeq}]
  /\ served \in [PolledCorpora -> {None} \cup ManifestType]
  /\ cursor \in [PolledCorpora -> 0..MaxSeq]
  /\ lease \in {None} \cup Daemons
  /\ pc \in [Processes -> {"off", "guard", "sleep", "fetch", "plan", "apply"}]
  /\ job \in [Processes -> {None} \cup PolledCorpora]
  /\ manifest \in [Processes -> {None} \cup ManifestType]
  /\ chain \in [Processes -> SUBSET (1..MaxSeq)]
  /\ \A p \in Processes : pc[p] = "apply" => chain[p] # {}
  /\ queue \in [Processes -> {SubSeq(Polled, n + 1, Len(Polled)) : n \in 0..Len(Polled)}]
  /\ burst \in [Processes -> 0..MaxBurst - 1]
  /\ shutdown \subseteq Daemons
  /\ faults \in 0..MaxFaults

(* However stale the manifest and the cursor a process planned with, the   *)
(* site follows the published chain: no package is skipped or taken back.  *)
FollowsChain ==
  [][\A c \in PolledCorpora : cursor'[c] # cursor[c] =>
       \/ cursor'[c] = cursor[c] + 1 /\ catalog[c][cursor'[c]] = "incremental"
       \/ cursor[c] = 0 /\ catalog[c][cursor'[c]] \in MediaKinds
       \/ cursor'[c] > cursor[c] /\ catalog[c][cursor'[c]] = "rebaseline"]_vars

(* The site never has what the served manifest does not list yet, so that  *)
(* the planner's `ahead of remote head` means a foreign feed.              *)
NeverAhead ==
  \A c \in PolledCorpora : cursor[c] # 0 =>
    served[c] # None /\ cursor[c] <= served[c].head

(* Both, for whatever processes share the feed.                            *)
FeedIsFollowed == []NeverAhead /\ FollowsChain

(* Every corpus ends up at the head or refused by the planner, whatever    *)
(* becomes of the other corpora, the leases and the daemons.               *)
EventuallySettled ==
  <>[](\A c \in PolledCorpora :
         \/ served[c] = None
         \/ cursor[c] = served[c].head
         \/ Plan(served[c], cursor[c]) = Blocked)
=============================================================================
