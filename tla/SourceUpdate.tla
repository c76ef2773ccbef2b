---------------------------- MODULE SourceUpdate ----------------------------
(***************************************************************************)
(* One source through the producer's update runs: fetch, routing, ingest,  *)
(* publication, adoption (jurisearch-producer/update.rs and baseline.rs,   *)
(* jurisearch-pipeline/ingest, jurisearch-storage/ingest_accounting).  The *)
(* ingest walks the archives of its plan in order and keeps one accounting *)
(* record per member, which decides whether a later run processes, skips   *)
(* or blocks the member; a completed run moves the journal, from which the *)
(* next run walks the deltas only.                                         *)
(*                                                                         *)
(* One run at a time: the update-core lock serialises everything after the *)
(* fetch (ProducerCycle models it).  A member is a document; the stored    *)
(* text of a document is the archive it was last written from.             *)
(***************************************************************************)
EXTENDS FetchEngine

CONSTANTS
  Docs,
  Carries,     \* archive -> documents it has a member for
  MaxVersion,  \* bound: releases of the program
  Unparsable,  \* <<archive, document, release>> of members that do not parse
  MaxStale,    \* STALE_CURSOR_MAX_DAYS: age at which the journal is refused
  AutoAdopt,   \* [baseline_refresh].mode = "auto-on-new-baseline"
  Orders,      \* the command lines in use
  MaxFaults,   \* bound: faults of a behaviour
  None

ASSUME ArchivesAssumption ==
  /\ MaxTime \in Nat /\ Baselines \cup Deltas \subseteq 1..MaxTime
  /\ Baselines \cap Deltas = {}
  /\ Carries \in [Baselines \cup Deltas -> SUBSET Docs]
(* DILA keeps deltas longer (some 62 days) than a journal may age (45).    *)
ASSUME RetentionAssumption == Keep \in Nat /\ MaxStale \in Nat /\ MaxStale < Keep
ASSUME BoundsAssumption == MaxVersion \in Nat \ {0} /\ MaxFaults \in Nat

(* An ingest_member row: its status, and the release that wrote it.        *)
RecordType == [ok : BOOLEAN, by : 1..MaxVersion]
ASSUME NoneAssumption == None \notin RecordType

VARIABLES
  release,  \* the installed release: parser, schema and code versions
  member,   \* archive, document -> its latest ingest_member record, or None
  stored,   \* document -> archive its text comes from, 0 when absent
  journal,  \* latest_completed_ingest_archive_compact, 0 when no run completed
  seeded,   \* instant of the last cursor-seed run, 0 when none
  adopted,  \* adopted-baseline-<source>.json, 0 when none
  served,   \* the texts of the last publication
  run,      \* the update run under way
  last,     \* outcome in runs/<group>/last.json, "dry-run" by its exit class
  faults

dbVars == <<member, stored, journal, seeded>>
vars == <<fetchVars, release, dbVars, adopted, served, run, last, faults>>

Idle == [pc |-> "idle", order |-> None, base |-> 0, full |-> FALSE,
         left |-> {}, docs |-> {}, top |-> 0, bad |-> FALSE]

RunType ==
  [pc : {"idle", "fetch", "route", "ingest", "publish", "adopt", "seed"},
   order : Orders \cup {None}, base : Baselines \cup {0}, full : BOOLEAN,
   left : SUBSET Archives, docs : SUBSET Docs, top : 0..MaxTime, bad : BOOLEAN]

TypeOK ==
  /\ FetchTypeOK
  /\ release \in 1..MaxVersion
  /\ member \in [Archives -> [Docs -> RecordType \cup {None}]]
  /\ stored \in [Docs -> Archives \cup {0}] /\ served \in [Docs -> Archives \cup {0}]
  /\ journal \in 0..MaxTime /\ seeded \in 0..MaxTime
  /\ adopted \in Baselines \cup {0}
  /\ last \in {"none", "running", "success", "failure", "dry-run"}
  /\ run \in RunType
  /\ faults \in 0..MaxFaults

Init ==
  /\ FetchInit
  /\ release = 1
  /\ member = [a \in Archives |-> [d \in Docs |-> None]]
  /\ stored = [d \in Docs |-> 0] /\ served = stored
  /\ journal = 0 /\ seeded = 0 /\ adopted = 0
  /\ run = Idle /\ last = "none" /\ faults = 0

-----------------------------------------------------------------------------
(* The run.                                                                *)

Fault == faults < MaxFaults /\ faults' = faults + 1
EndRun(outcome) == run' = Idle /\ last' = outcome

(* Fault: the record of the run is written at its end only.                *)
Begin_Unrecorded(o) ==
  /\ run.pc = "idle"
  /\ IF o \in {"skip_fetch", "from_db", "accept_stale"}
     THEN run' = [Idle EXCEPT !.pc = "route", !.order = o] /\ UNCHANGED fetchVars
     ELSE run' = [Idle EXCEPT !.pc = "fetch", !.order = o] /\ StartFetch
  /\ UNCHANGED <<release, dbVars, adopted, served, last, faults>>

(* run_update: the record is saved as running, then the fetch.             *)
Begin(o) ==
  /\ run.pc = "idle"
  (* --accept-stale-cursor is for deltas the operator has found contiguous *)
  /\ o = "accept_stale" => {d \in Deltas : journal < d /\ d <= now} \subseteq mirror
  /\ last' = "running"
  /\ IF o \in {"skip_fetch", "from_db", "accept_stale"}
     THEN run' = [Idle EXCEPT !.pc = "route", !.order = o] /\ UNCHANGED fetchVars
     ELSE run' = [Idle EXCEPT !.pc = "fetch", !.order = o] /\ StartFetch
  /\ UNCHANGED <<release, dbVars, adopted, served, faults>>

Fetching ==
  /\ run.pc = "fetch" /\ run.order # "dry_run"
  /\ Download
  /\ UNCHANGED <<release, dbVars, adopted, served, run, last, faults>>

FetchRejects ==
  /\ run.pc = "fetch" /\ run.order # "dry_run"
  /\ Fault
  /\ Quarantine
  /\ UNCHANGED <<release, dbVars, adopted, served, run, last>>

(* A dry run has listed what it would download: a success of its own class.*)
FetchEnds ==
  /\ run.pc = "fetch"
  /\ IF run.order = "dry_run"
     THEN AbandonFetch /\ EndRun("dry-run")
     ELSE /\ fetch.todo = {}
          /\ SaveCursor
          /\ run' = [run EXCEPT !.pc = "route"] /\ UNCHANGED last
  /\ UNCHANGED <<release, dbVars, adopted, served, faults>>

(* Transport error or failed rename: the rest of the list is left.         *)
FetchFails ==
  /\ run.pc = "fetch" /\ run.order # "dry_run" /\ fetch.todo # {}
  /\ Fault
  /\ SaveCursor
  /\ EndRun("failure")
  /\ UNCHANGED <<release, dbVars, adopted, served>>

-----------------------------------------------------------------------------
(* Routing, under the lock, and the plan of the ingest.                    *)

Pending == FetchedBaseline # 0 /\ FetchedBaseline # adopted

(* planned_rebaseline_baselines / group_run_kind: the baseline this run    *)
(* re-anchors to, 0 for an ordinary incremental.                           *)
NewBaseline ==
  CASE run.order = "from_db" -> IF FetchedBaseline # 0 THEN FetchedBaseline ELSE adopted
    [] run.order = "forced" -> FetchedBaseline
    [] OTHER -> IF Pending THEN FetchedBaseline ELSE 0

Refused ==
  \/ run.order \in {"from_db", "forced"} /\ NewBaseline = 0    \* NothingToRebaseline
  \/ run.order \notin {"from_db", "forced"} /\ Pending /\ ~AutoAdopt  \* NeedsRebaseline

(* Fault: no age limit.                                                    *)
StaleJournal_Unchecked == FALSE

Full == NewBaseline # 0 \/ journal = 0
StaleJournal == ~Full /\ now - journal > MaxStale /\ run.order # "accept_stale"

(* plan_from_paths: the newest baseline of the mirror and the deltas after *)
(* it; select_archives_to_process: a delta-only walk starts at the journal.*)
PlannedBaseline == Newest(mirror \cap Baselines)
Selected ==
  {d \in mirror \cap Deltas : d > PlannedBaseline /\ (Full \/ d >= journal)}
    \cup (IF Full THEN {PlannedBaseline} ELSE {})

RouteFails ==
  /\ run.pc = "route"
  /\ \/ Refused
     \/ run.order # "from_db" /\ (StaleJournal \/ PlannedBaseline = 0)
  /\ EndRun("failure")
  /\ UNCHANGED <<fetchVars, release, dbVars, adopted, served, faults>>

RouteSnapshot ==
  /\ run.pc = "route" /\ run.order = "from_db" /\ ~Refused
  /\ run' = [run EXCEPT !.pc = "publish", !.base = NewBaseline]
  /\ UNCHANGED <<fetchVars, release, dbVars, adopted, served, last, faults>>

DocsOf(S) == IF S = {} THEN {} ELSE Carries[Min(S)]

StartIngest ==
  /\ run.pc = "route" /\ run.order # "from_db" /\ ~Refused
  /\ ~StaleJournal /\ PlannedBaseline # 0
  /\ run' = [run EXCEPT !.pc = "ingest", !.base = NewBaseline, !.full = Full,
                        !.left = Selected, !.docs = DocsOf(Selected),
                        !.top = Newest(Selected)]
  /\ UNCHANGED <<fetchVars, release, dbVars, adopted, served, last, faults>>

-----------------------------------------------------------------------------
(* The ingest: one member of the first archive left, in a batch of one.    *)

Rest == run.left \ {Min(run.left)}
NextMember(d, bad) ==
  run' = IF run.docs # {d}
         THEN [run EXCEPT !.docs = @ \ {d}, !.bad = @ \/ bad]
         ELSE [run EXCEPT !.left = Rest, !.docs = DocsOf(Rest), !.bad = @ \/ bad]

Processed(a, d) == member[a][d] # None /\ member[a][d].ok /\ member[a][d].by = release
Incompatible(a, d) == member[a][d] # None /\ member[a][d].by # release
Recorded(a, d, ok) == [member EXCEPT ![a][d] = [ok |-> ok, by |-> release]]

(* Fault: a blocked member keeps the record it had.                        *)
Member_KeepsRecord(d) ==
  LET a == Min(run.left)
      parses == <<a, d, release>> \notin Unparsable
  IN /\ run.pc = "ingest" /\ d \in run.docs
     /\ IF Processed(a, d) \/ Incompatible(a, d)
        THEN UNCHANGED <<member, stored>> /\ NextMember(d, Incompatible(a, d))
        ELSE /\ member' = Recorded(a, d, parses)
             /\ stored' = IF parses THEN [stored EXCEPT ![d] = a] ELSE stored
             /\ NextMember(d, ~parses)
     /\ UNCHANGED <<fetchVars, release, journal, seeded, adopted, served, last, faults>>

(* ingest_resume_decision, then the member is processed, skipped, retried  *)
(* or blocked.  A blocked member leaves a failed record of this release,   *)
(* which the next run retries.                                             *)
Member(d) ==
  LET a == Min(run.left)
      parses == <<a, d, release>> \notin Unparsable
      retried == ~Incompatible(a, d)
  IN /\ run.pc = "ingest" /\ d \in run.docs
     /\ IF Processed(a, d)
        THEN UNCHANGED <<member, stored>> /\ NextMember(d, FALSE)
        ELSE /\ member' = Recorded(a, d, retried /\ parses)
             /\ stored' = IF retried /\ parses THEN [stored EXCEPT ![d] = a] ELSE stored
             /\ NextMember(d, ~(retried /\ parses))
     /\ UNCHANGED <<fetchVars, release, journal, seeded, adopted, served, last, faults>>

(* An archive without members for the documents tracked here.              *)
EmptyArchive ==
  /\ run.pc = "ingest" /\ run.left # {} /\ run.docs = {}
  /\ run' = [run EXCEPT !.left = Rest, !.docs = DocsOf(Rest)]
  /\ UNCHANGED <<fetchVars, release, dbVars, adopted, served, last, faults>>

(* Fault: a failed run counts for the journal.                             *)
IngestFails_Counts ==
  /\ run.pc = "ingest" /\ run.left # {}
  /\ Fault
  /\ EndRun("failure")
  /\ journal' = IF run.top > journal THEN run.top ELSE journal
  /\ UNCHANGED <<fetchVars, release, member, stored, seeded, adopted, served>>

(* A read or flush error is fatal: what was flushed stays.                 *)
IngestFails ==
  /\ run.pc = "ingest" /\ run.left # {}
  /\ Fault
  /\ EndRun("failure")
  /\ UNCHANGED <<fetchVars, release, dbVars, adopted, served>>

(* Fault: a run with blocked members goes on to publish.                   *)
FinishIngest_Partial ==
  /\ run.pc = "ingest" /\ run.left = {}
  /\ journal' = IF run.bad \/ run.top <= journal THEN journal ELSE run.top
  /\ run' = [run EXCEPT !.pc = "publish"]
  /\ UNCHANGED <<fetchVars, release, member, stored, seeded, adopted, served, last, faults>>

(* ingest_one: only a run that completed moves the journal and publishes.  *)
FinishIngest ==
  /\ run.pc = "ingest" /\ run.left = {}
  /\ IF run.bad
     THEN EndRun("failure") /\ UNCHANGED journal
     ELSE /\ journal' = IF run.top > journal THEN run.top ELSE journal
          /\ run' = [run EXCEPT !.pc = "publish"] /\ UNCHANGED last
  /\ UNCHANGED <<fetchVars, release, member, stored, seeded, adopted, served, faults>>

(* run_cycle or run_rebaseline_cycle (ProducerCycle), enrichment and       *)
(* embedding before it.                                                    *)
Publish ==
  /\ run.pc = "publish"
  /\ served' = stored
  /\ IF run.base = 0
     THEN EndRun("success")
     ELSE run' = [run EXCEPT !.pc = "adopt"] /\ UNCHANGED last
  /\ UNCHANGED <<fetchVars, release, dbVars, adopted, faults>>

PublishFails ==
  /\ run.pc = "publish"
  /\ Fault
  /\ EndRun("failure")
  /\ UNCHANGED <<fetchVars, release, dbVars, adopted, served>>

(* adopt_new_baselines: the marker follows the published package.          *)
Adopt ==
  /\ run.pc = "adopt"
  /\ adopted' = run.base
  /\ IF run.order = "from_db"
     THEN run' = [run EXCEPT !.pc = "seed"] /\ UNCHANGED last
     ELSE EndRun("success")
  /\ UNCHANGED <<fetchVars, release, dbVars, served, faults>>

(* seed_ingest_cursors: a memberless completed run dated now.              *)
Seed ==
  /\ run.pc = "seed"
  /\ seeded' = now /\ journal' = now
  /\ EndRun("success")
  /\ UNCHANGED <<fetchVars, release, member, stored, adopted, served, faults>>

Crash ==
  /\ run.pc # "idle"
  /\ Fault
  /\ AbandonFetch
  /\ run' = Idle
  /\ UNCHANGED <<release, dbVars, adopted, served, last>>

(* A deployment installs the next release between two runs.                *)
Upgrade ==
  /\ run.pc = "idle" /\ release < MaxVersion
  /\ release' = release + 1
  /\ UNCHANGED <<fetchVars, dbVars, adopted, served, run, last, faults>>

Time == run.pc = "idle" /\ Tick /\ UNCHANGED <<release, dbVars, adopted, served, run, last, faults>>

RunStep ==
  \/ Fetching \/ FetchEnds \/ RouteFails \/ RouteSnapshot \/ StartIngest
  \/ \E d \in Docs : Member(d)
  \/ EmptyArchive \/ FinishIngest \/ Publish \/ Adopt \/ Seed

Next ==
  \/ \E o \in Orders : Begin(o)
  \/ RunStep
  \/ FetchRejects \/ FetchFails \/ IngestFails \/ PublishFails \/ Crash
  \/ Upgrade \/ Time

(* A run goes on unless it dies; the group's timer keeps firing.           *)
Fairness == WF_vars(RunStep) /\ SF_vars(Begin("update")) /\ WF_vars(Time)

Spec == Init /\ [][Next]_vars
FairSpec == Spec /\ Fairness

-----------------------------------------------------------------------------
(* Properties.                                                             *)

Visited(d) == \A doc \in Carries[d] : member[d][doc] # None

(* A mirrored delta after the planned baseline and up to the journal has   *)
(* had every member visited by some run: a delta-only walk starts at the   *)
(* journal and will not come back to it.  Archives a download of which was *)
(* quarantined, and those below an operator's seed, are not promised.      *)
JournalCoversMirror ==
  \A d \in mirror \cap Deltas :
    PlannedBaseline < d /\ seeded < d /\ d <= journal /\ d \notin rejected => Visited(d)

(* An incremental run that moves the journal leaves no delta published     *)
(* after the planned baseline behind it, fetched or not: the age limit of  *)
(* the journal is below the time DILA keeps a delta, and downloads are     *)
(* taken oldest first.                                                     *)
NoSilentGap ==
  [][run.pc = "ingest" /\ ~run.full /\ journal' # journal
       => \A d \in Deltas : PlannedBaseline < d /\ journal < d /\ d <= journal'
                              /\ d \notin rejected => Visited(d)]_vars

(* A baseline is adopted only when the database really holds the documents *)
(* of that one or of a newer one of the mirror, except by --from-db,       *)
(* whatever failed or crashed before, and whatever its fetch brought.      *)
AdoptsWhatItIngested ==
  [][adopted' # adopted /\ run.order # "from_db"
       => /\ adopted' <= PlannedBaseline
          /\ \A d \in Carries[PlannedBaseline] : stored[d] >= PlannedBaseline]_vars

(* When the last run was a success, and not a dry run, the texts of the    *)
(* database are the texts that are served.                                 *)
SuccessIsServed == last = "success" => served = stored

(* The fetch cursor, the mirror, the journal of an update run and what it  *)
(* last told the producer cycle agree, wherever a run stopped; no run      *)
(* closes a gap it did not read, and each adopts what it ingested.         *)
BooksAgree == CursorIsMirrored /\ JournalCoversMirror /\ SuccessIsServed
MirrorAndJournalAgree == []BooksAgree /\ NoSilentGap /\ AdoptsWhatItIngested

(* The newest baseline is adopted and the journal comes to the newest      *)
(* delta after it, and they stay there, unless an operator is needed: the  *)
(* journal is too old, the new baseline awaits a manual adoption, or a     *)
(* member does not parse under the last release.                           *)
OperatorNeeded ==
  \/ journal # 0 /\ now - journal > MaxStale
  \/ Pending /\ ~AutoAdopt
  \/ \E a \in mirror, d \in Docs : <<a, d, release>> \in Unparsable
CaughtUp ==
  /\ Listing \subseteq mirror
  /\ adopted = Newest(Listing \cap Baselines)
  /\ journal >= Newest({d \in Listing \cap Deltas : d > adopted})
EventuallyCaughtUp == <>[](OperatorNeeded \/ CaughtUp)

(* An incremental run never crosses a baseline boundary: the baseline its  *)
(* deltas are planned after has been ingested (update.rs, the backstop).   *)
NeverCrossesBaseline ==
  [][run.pc = "ingest" /\ ~run.full /\ journal' # journal /\ seeded = 0
       => Visited(PlannedBaseline)]_vars

(* runs.rs: every archive up to the completed-run cursor was fully         *)
(* processed, so it is a safe lower bound of a delta-only walk.            *)
CompletedMeansProcessed ==
  \A d \in Deltas : PlannedBaseline < d /\ d <= journal => Visited(d)

(* Replaying the deltas in timestamp order leaves each document as its     *)
(* latest ingested archive has it, once a run has succeeded.               *)
LatestArchiveWins ==
  last = "success" =>
    \A d \in Docs, a \in Archives : d \in Carries[a] /\ Processed(a, d) => stored[d] >= a
=============================================================================
