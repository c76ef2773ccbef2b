---------------------------- MODULE ProducerCycle ----------------------------
(***************************************************************************)
(* The producer's publication cycles for one corpus (jurisearch-package-   *)
(* build, cycle.rs): the first baseline, the ordinary incremental and the  *)
(* rebaseline.  A run builds a package into a staging slot, catalogs it as *)
(* "built", copies it to the served root, marks it "published", clears the *)
(* slot and serves a new signed manifest over what is published.           *)
(*                                                                         *)
(* The update lock admits one run at a time.  A run may die between any    *)
(* two of these steps; what it wrote stays, and the next run has to make   *)
(* sense of it.  Other writers change the corpus while a run goes on.      *)
(***************************************************************************)
EXTENDS Naturals, FiniteSets

CONSTANTS
  Groups,       \* fetch groups, each with a timer that runs `update`
  MaxChange,    \* bound: outbox changes
  MaxSeq,       \* bound: package sequence numbers
  MaxBaselines, \* bound: upstream baselines a group fetches
  MaxCrashes,   \* bound: runs that die
  MaxRetained,  \* max_retained_incrementals of the manifest
  Deaths,       \* bound: those of the deaths in DeathKinds that happen
  Builds,       \* bound: build identities (created_at and run id of a manifest)
  Torn,         \* a staging slot whose manifest file cannot be read
  None

(* "torn": in the middle of writing the manifest file of the staging slot; *)
(* "unmarked": between publishing a rebaseline and marking it published.   *)
DeathKinds == {"torn", "unmarked"}

ASSUME BoundsAssumption ==
  /\ MaxChange \in Nat /\ MaxBaselines \in Nat /\ MaxCrashes \in Nat
  /\ MaxSeq \in Nat \ {0} /\ MaxRetained \in Nat \ {0}
  /\ Deaths \subseteq DeathKinds

Seqs == 1..MaxSeq
MediaKinds == {"baseline", "rebaseline"}

(* A built package: its id is <corpus>-<seq-1>-<seq> (<corpus>-1-1 for the *)
(* baseline), so the sequence stands for it, whatever its kind.  `prev` is *)
(* the payload digest of the package it is chained on.                     *)
Payload == [high : Nat, low : Nat \cup {None}]
PackageType ==
  [seq : Seqs, kind : MediaKinds \cup {"incremental"}, gen : Nat,
   low : Nat, high : Nat, prev : Payload \cup {None}, build : Builds]

RowType == [pkg : PackageType, status : {"built", "published"}]
ManifestType == [media : PackageType, incs : SUBSET PackageType]

ASSUME NoneAssumption ==
  /\ None \notin PackageType
  /\ None \notin RowType
  /\ None \notin ManifestType
  /\ None \notin Payload
  /\ None \notin Nat
  /\ Torn \notin PackageType
  /\ None # Torn

VARIABLES
  change,     \* outbox high-water mark; it identifies the corpus content
  ingested,   \* ingests of an upstream baseline into the corpus
  fetched,    \* group -> newest upstream baseline fetched
  adopted,    \* group -> the baseline its adoption marker names
  catalog,    \* sequence -> package_catalog row, or None
  packages,   \* sequence -> package in the served root, or None
  pending,    \* staging slot of the cycles: None, Torn or a package
  bootSlot,   \* staging slot of the first baseline, likewise
  manifest,   \* the served remote manifest, or None
  pc, op,     \* where the run is, and what it does
  group,      \* the group it runs for
  target,     \* the upstream baseline of the group when the run was routed
  built,      \* the package it has in hand
  resuming,   \* is that a package a dead run left staged?
  draft,      \* the manifest it is about to serve
  crashes     \* runs that died so far

durable == <<fetched, adopted, catalog, packages, pending, bootSlot, manifest>>
run == <<pc, op, group, target, built, resuming, draft>>
corpus == <<change, ingested>>
vars == <<change, ingested, fetched, adopted, catalog, packages, pending, bootSlot,
          manifest, pc, op, group, target, built, resuming, draft, crashes>>

-----------------------------------------------------------------------------
(* The payload digest: a snapshot is the corpus content, a delta what      *)
(* changed between two marks.                                              *)
PayloadOf(k) ==
  [high |-> k.high, low |-> IF k.kind \in MediaKinds THEN None ELSE k.low]

Cataloged == {s \in Seqs : catalog[s] # None}
Media == {s \in Cataloged : catalog[s].pkg.kind \in MediaKinds}

Newest(S) == CHOOSE s \in S : \A t \in S : t <= s

(* latest_package_for_corpus, whatever its status.                         *)
Latest == catalog[Newest(Cataloged)].pkg

(* Fault: an id that is published already is refused, whatever it holds.  *)
MayPublish_FreshOnly(k) == packages[k.seq] = None

(* publish_package: a fresh id, or the id with the payload it already has. *)
MayPublish(k) ==
  packages[k.seq] # None => PayloadOf(packages[k.seq]) = PayloadOf(k)
Published(k) ==
  IF packages[k.seq] = None THEN [packages EXCEPT ![k.seq] = k] ELSE packages

(* Fault: the payload digest alone is compared.                            *)
Verified_PayloadOnly(s) ==
  packages[s] # None /\ PayloadOf(packages[s]) = PayloadOf(catalog[s].pkg)

(* verify_catalog_identity: the published embedded manifest is the one     *)
(* cataloged, by payload digest, manifest digest and identity.             *)
Verified(s) == packages[s] = catalog[s].pkg

(* Fault: a window longer than the limit is emptied.                       *)
Retained_OverflowDropsAll(m) ==
  LET after == {s \in Cataloged : s > m /\ catalog[s].pkg.kind = "incremental"}
  IN IF Cardinality(after) <= MaxRetained THEN after ELSE {}

(* The newest max_retained_incrementals after the media root.              *)
Retained(m) ==
  LET after == {s \in Cataloged : s > m /\ catalog[s].pkg.kind = "incremental"}
  IN {s \in after : Cardinality({t \in after : t > s}) < MaxRetained}

GapFree(S) ==
  \A s, t \in S : (s < t /\ ~\E u \in S : s < u /\ u < t) => t = s + 1

ManifestBuildable ==
  /\ Media # {}
  /\ LET m == Newest(Media)
     IN /\ Verified(m)
        /\ \A s \in Retained(m) : Verified(s)
        /\ GapFree(Retained(m))

NewManifest ==
  LET m == Newest(Media)
  IN [media |-> packages[m], incs |-> {packages[s] : s \in Retained(m)}]

References(m) == {m.media} \cup m.incs
HeadOf(m) == Newest({k.seq : k \in References(m)})
HeadPackage(m) == CHOOSE k \in References(m) : k.seq = HeadOf(m)

(* verify_published_root on the served manifest.                           *)
ServedVerifies ==
  /\ manifest # None
  /\ \A k \in References(manifest) : packages[k.seq] = k

(* A build stamps its manifest with a time and a run id of its own.        *)
InUse(b) ==
  \/ \E s \in Seqs : \/ catalog[s] # None /\ catalog[s].pkg.build = b
                     \/ packages[s] # None /\ packages[s].build = b
  \/ \E slot \in {pending, bootSlot} : slot \notin {None, Torn} /\ slot.build = b
BuildsLeft == \E b \in Builds : ~InUse(b)
NewBuild == CHOOSE b \in Builds : ~InUse(b)

-----------------------------------------------------------------------------
Init ==
  /\ change = 0 /\ ingested = {}
  /\ fetched = [g \in Groups |-> 0]
  /\ adopted = [g \in Groups |-> 0]
  /\ catalog = [s \in Seqs |-> None]
  /\ packages = [s \in Seqs |-> None]
  /\ pending = None
  /\ bootSlot = None
  /\ manifest = None
  /\ pc = "idle" /\ op = "none" /\ group = None /\ target = 0 /\ built = None
  /\ resuming = FALSE /\ draft = None
  /\ crashes = 0

Goto(here, there) == pc = here /\ pc' = there

Return ==
  /\ pc' = "idle" /\ op' = "none" /\ group' = None /\ target' = 0 /\ built' = None
  /\ resuming' = FALSE /\ draft' = None

-----------------------------------------------------------------------------
(* The environment.                                                        *)

(* Ingest, enrichment or embedding commits a change and its outbox entry.  *)
Change ==
  /\ change < MaxChange
  /\ change' = change + 1
  /\ UNCHANGED <<ingested, durable, run, crashes>>

(* A fetch downloads a newer upstream baseline.                            *)
FetchBaseline(g) ==
  /\ fetched[g] < MaxBaselines
  /\ fetched' = [fetched EXCEPT ![g] = @ + 1]
  /\ UNCHANGED <<corpus, adopted, catalog, packages, pending, bootSlot,
                 manifest, run, crashes>>

-----------------------------------------------------------------------------
(* Starting a run, under the update lock.                                  *)

(* Fault: every run is routed as an ordinary incremental.                  *)
BeginUpdate_Incremental(g) ==
  /\ Goto("idle", "ingest")
  /\ catalog[MaxSeq] = None
  /\ op' = "incremental"
  /\ group' = g
  /\ target' = fetched[g]
  /\ UNCHANGED <<corpus, durable, built, resuming, draft, crashes>>

(* group_run_kind: a fetched baseline that is not adopted needs a          *)
(* rebaseline, otherwise the run is an ordinary incremental.               *)
BeginUpdate(g) ==
  /\ Goto("idle", "ingest")
  /\ catalog[MaxSeq] = None
  /\ op' = IF fetched[g] # adopted[g] THEN "rebaseline" ELSE "incremental"
  /\ group' = g
  /\ target' = fetched[g]
  /\ UNCHANGED <<corpus, durable, built, resuming, draft, crashes>>

(* A rebaseline run ingests the new upstream baseline (and may find that   *)
(* it changes nothing).                                                    *)
IngestBaseline ==
  /\ Goto("ingest", "resume")
  /\ op = "rebaseline"
  /\ change' \in {change, change + 1}
  /\ change' <= MaxChange
  /\ ingested' = ingested \cup
       {[group |-> group, baseline |-> target, at |-> change',
         delta |-> change' # change]}
  /\ UNCHANGED <<durable, op, group, target, built, resuming, draft, crashes>>

(* ensure_incremental_may_proceed, for the sources of the group.           *)
IncrementalMayProceed ==
  /\ Goto("ingest", "resume")
  /\ op = "incremental"
  /\ fetched[group] = adopted[group]
  /\ UNCHANGED <<corpus, durable, op, group, target, built, resuming, draft,
                 crashes>>

NeedsRebaseline ==
  /\ pc = "ingest"
  /\ op = "incremental"
  /\ fetched[group] # adopted[group]
  /\ Return
  /\ UNCHANGED <<corpus, durable, crashes>>

BeginBootstrap ==
  /\ Goto("idle", "boot")
  /\ op' = "bootstrap"
  /\ UNCHANGED <<corpus, durable, group, target, built, resuming, draft, crashes>>

-----------------------------------------------------------------------------
(* The staging slot a dead run left behind.                                *)

ResumeNothing ==
  /\ Goto("resume", "build")
  /\ pending = None
  /\ UNCHANGED <<corpus, durable, op, group, target, built, resuming, draft, crashes>>

(* A staged package without its row is an incomplete build; a staged       *)
(* rebaseline is built again by a rebaseline run.                          *)
DiscardsSlot ==
  \/ catalog[pending.seq] = None
  \/ op = "rebaseline" /\ pending.kind = "rebaseline"

(* delete_unpublished_package_row takes no published row.                  *)
ResumeDiscard ==
  /\ Goto("resume", "discard")
  /\ pending \notin {None, Torn}
  /\ DiscardsSlot
  /\ catalog' = [catalog EXCEPT ![pending.seq] =
                   IF @ # None /\ @.status = "built" THEN None ELSE @]
  /\ UNCHANGED <<corpus, fetched, adopted, packages, pending, bootSlot,
                 manifest, op, group, target, built, resuming, draft, crashes>>

ResumeDiscardClean ==
  /\ Goto("discard", "build")
  /\ pending' = None
  /\ UNCHANGED <<corpus, fetched, adopted, catalog, packages, bootSlot,
                 manifest, op, group, target, built, resuming, draft, crashes>>

ResumeStaged ==
  /\ Goto("resume", "publish")
  /\ pending \notin {None, Torn}
  /\ ~DiscardsSlot
  /\ built' = pending
  /\ resuming' = TRUE
  /\ UNCHANGED <<corpus, durable, op, group, target, draft, crashes>>

(* read_staged_identity does not parse what it finds.                      *)
ResumeTorn ==
  /\ pc = "resume"
  /\ pending = Torn
  /\ Return
  /\ UNCHANGED <<corpus, durable, crashes>>

-----------------------------------------------------------------------------
(* Building.  The window of an incremental and the content of a rebaseline *)
(* are frozen by one snapshot; both chain on the latest cataloged package. *)

(* Fault: the window starts after the lowest change of its predecessor.    *)
IncrementalOf_Overlapping(prev, b) ==
  [seq |-> prev.seq + 1, kind |-> "incremental", gen |-> prev.gen,
   low |-> prev.low, high |-> change, prev |-> PayloadOf(prev), build |-> b]

IncrementalOf(prev, b) ==
  [seq |-> prev.seq + 1, kind |-> "incremental", gen |-> prev.gen,
   low |-> prev.high, high |-> change, prev |-> PayloadOf(prev), build |-> b]

(* Fault: the window of a rebaseline starts at zero, like a baseline's.    *)
RebaselineOf_FullWindow(prev, b) ==
  [seq |-> prev.seq + 1, kind |-> "rebaseline", gen |-> prev.gen + 1,
   low |-> 0, high |-> change, prev |-> PayloadOf(prev), build |-> b]

(* Fault: the new baseline goes out as an ordinary delta.                  *)
RebaselineOf_AsDelta(prev, b) ==
  [seq |-> prev.seq + 1, kind |-> "incremental", gen |-> prev.gen,
   low |-> prev.high, high |-> change, prev |-> PayloadOf(prev), build |-> b]

RebaselineOf(prev, b) ==
  [seq |-> prev.seq + 1, kind |-> "rebaseline", gen |-> prev.gen + 1,
   low |-> prev.high, high |-> change, prev |-> PayloadOf(prev), build |-> b]

(* Fault: package sequences start at zero.                                 *)
FirstBaseline_AtZero(b) ==
  [seq |-> 0, kind |-> "baseline", gen |-> 1, low |-> 0, high |-> change,
   prev |-> None, build |-> b]

FirstBaseline(b) ==
  [seq |-> 1, kind |-> "baseline", gen |-> 1, low |-> 0, high |-> change,
   prev |-> None, build |-> b]

(* Without a cataloged package there is nothing to build on.               *)
BuildRefused ==
  /\ pc = "build"
  /\ Cataloged = {}
  /\ Return
  /\ UNCHANGED <<corpus, durable, crashes>>

(* The window holds no changed scope: no package, the manifest is renewed. *)
BuildNothing ==
  /\ Goto("build", "manifest")
  /\ op = "incremental"
  /\ Cataloged # {}
  /\ change = Latest.high
  /\ UNCHANGED <<corpus, durable, op, group, target, built, resuming, draft, crashes>>

BuildPackage ==
  /\ Goto("build", "catalog")
  /\ Cataloged # {}
  /\ Latest.seq < MaxSeq /\ BuildsLeft
  /\ \/ /\ op = "incremental" /\ change > Latest.high
        /\ built' = IncrementalOf(Latest, NewBuild)
     \/ op = "rebaseline" /\ built' = RebaselineOf(Latest, NewBuild)
  /\ pending' = built'
  /\ UNCHANGED <<corpus, fetched, adopted, catalog, packages, bootSlot,
                 manifest, op, group, target, resuming, draft, crashes>>

(* insert_package_catalog_row: the sequence must be free.                  *)
InsertCatalogRow ==
  /\ Goto("catalog", "publish")
  /\ catalog[built.seq] = None
  /\ catalog' = [catalog EXCEPT ![built.seq] =
                   [pkg |-> built, status |-> "built"]]
  /\ UNCHANGED <<corpus, fetched, adopted, packages, pending, bootSlot,
                 manifest, op, group, target, built, resuming, draft, crashes>>

-----------------------------------------------------------------------------
(* Publishing.                                                             *)

PublishPackage ==
  /\ Goto("publish", "mark")
  /\ MayPublish(built)
  /\ packages' = Published(built)
  /\ UNCHANGED <<corpus, fetched, adopted, catalog, pending, bootSlot,
                 manifest, op, group, target, built, resuming, draft, crashes>>

(* The id is already published with other content: an error.               *)
PublishConflict ==
  /\ pc = "publish"
  /\ ~MayPublish(built)
  /\ Return
  /\ UNCHANGED <<corpus, durable, crashes>>

(* mark_package_published; resume_first_baseline verifies first.           *)
MarkPublished ==
  /\ Goto("mark", "clean")
  /\ catalog[built.seq] # None
  /\ op = "bootstrap" => Verified(built.seq)
  /\ catalog' = [catalog EXCEPT ![built.seq].status = "published"]
  /\ UNCHANGED <<corpus, fetched, adopted, packages, pending, bootSlot,
                 manifest, op, group, target, built, resuming, draft, crashes>>

(* The package is durably published; after a resumed one the run goes on   *)
(* to build its own.                                                       *)
CleanSlot ==
  /\ Goto("clean", IF resuming THEN "build" ELSE "manifest")
  /\ IF op = "bootstrap"
     THEN bootSlot' = None /\ UNCHANGED pending
     ELSE pending' = None /\ UNCHANGED bootSlot
  /\ resuming' = FALSE
  /\ built' = None
  /\ UNCHANGED <<corpus, fetched, adopted, catalog, packages, manifest,
                 op, group, target, draft, crashes>>

-----------------------------------------------------------------------------
(* The first baseline (bootstrap_locked).                                  *)

Canonical(row) == row.pkg.seq = 1 /\ row.pkg.kind = "baseline"

(* A media row that is not the first baseline, or a finished bootstrap.    *)
BootRefuse ==
  /\ pc = "boot"
  /\ Media # {}
  /\ Canonical(catalog[Newest(Media)]) => ServedVerifies
  /\ Return
  /\ UNCHANGED <<corpus, durable, crashes>>

BootBuild ==
  /\ Goto("boot", "catalog")
  /\ Media = {} /\ BuildsLeft
  /\ built' = FirstBaseline(NewBuild)
  /\ bootSlot' = built'
  /\ UNCHANGED <<corpus, fetched, adopted, catalog, packages, pending,
                 manifest, op, group, target, resuming, draft, crashes>>

(* resume_first_baseline: the package is in the served root or staged.     *)
BootResume ==
  /\ Goto("boot", IF packages[1] = None THEN "publish" ELSE "mark")
  /\ Media # {}
  /\ Canonical(catalog[Newest(Media)])
  /\ ~ServedVerifies
  /\ built' = IF packages[1] = None THEN bootSlot ELSE packages[1]
  /\ UNCHANGED <<corpus, durable, op, group, target, resuming, draft, crashes>>

-----------------------------------------------------------------------------
(* The remote manifest, and adoption of the baselines of the group.        *)

BuildRemoteManifest ==
  /\ Goto("manifest", "serve")
  /\ ManifestBuildable
  /\ draft' = NewManifest
  /\ UNCHANGED <<corpus, durable, op, group, target, built, resuming, crashes>>

(* No media root, an artifact missing or not the one cataloged, a gap.     *)
ManifestRefused ==
  /\ pc = "manifest"
  /\ ~ManifestBuildable
  /\ Return
  /\ UNCHANGED <<corpus, durable, crashes>>

PublishRemoteManifest ==
  /\ Goto("serve", IF op = "rebaseline" THEN "adopt" ELSE "done")
  /\ manifest' = draft
  /\ draft' = None
  /\ UNCHANGED <<corpus, fetched, adopted, catalog, packages, pending,
                 bootSlot, op, group, target, built, resuming, crashes>>

(* Fault: what is fetched by now is adopted, not what the run ingested.    *)
AdoptNewBaselines_Refetched ==
  /\ Goto("adopt", "done")
  /\ adopted' = [adopted EXCEPT ![group] = fetched[group]]
  /\ UNCHANGED <<corpus, fetched, catalog, packages, pending, bootSlot,
                 manifest, op, group, target, built, resuming, draft, crashes>>

(* adopt_new_baselines, only now that the rebaseline is served.            *)
AdoptNewBaselines ==
  /\ Goto("adopt", "done")
  /\ adopted' = [adopted EXCEPT ![group] = target]
  /\ UNCHANGED <<corpus, fetched, catalog, packages, pending, bootSlot,
                 manifest, op, group, target, built, resuming, draft, crashes>>

Done ==
  /\ pc = "done"
  /\ Return
  /\ UNCHANGED <<corpus, durable, crashes>>

-----------------------------------------------------------------------------
(* The run dies, or an I/O or database error ends it.                      *)
Crash ==
  /\ pc # "idle"
  /\ pc = "mark" /\ op = "rebaseline" => "unmarked" \in Deaths
  /\ crashes < MaxCrashes
  /\ crashes' = crashes + 1
  /\ Return
  /\ UNCHANGED <<corpus, durable>>

(* It dies while fs::write has created the manifest file of the slot and   *)
(* not filled it.                                                          *)
CrashTorn ==
  /\ "torn" \in Deaths
  /\ pc = "build"
  /\ Cataloged # {}
  /\ op = "incremental" => change > Latest.high
  /\ crashes < MaxCrashes
  /\ crashes' = crashes + 1
  /\ pending' = Torn
  /\ Return
  /\ UNCHANGED <<corpus, fetched, adopted, catalog, packages, bootSlot, manifest>>

Step ==
  \/ IngestBaseline \/ IncrementalMayProceed \/ NeedsRebaseline
  \/ ResumeNothing \/ ResumeDiscard \/ ResumeDiscardClean \/ ResumeStaged
  \/ ResumeTorn
  \/ BuildRefused \/ BuildNothing \/ BuildPackage
  \/ InsertCatalogRow
  \/ PublishPackage \/ PublishConflict \/ MarkPublished \/ CleanSlot
  \/ BootRefuse \/ BootBuild \/ BootResume
  \/ BuildRemoteManifest \/ ManifestRefused \/ PublishRemoteManifest
  \/ AdoptNewBaselines \/ Done

Next ==
  \/ Change
  \/ \E g \in Groups : FetchBaseline(g) \/ BeginUpdate(g)
  \/ BeginBootstrap
  \/ Step
  \/ Crash
  \/ CrashTorn

(* A run goes on; timers start the groups' runs again and again, and the   *)
(* operator repeats the bootstrap.                                         *)
Fairness ==
  /\ WF_vars(Step)
  /\ \A g \in Groups : SF_vars(BeginUpdate(g))
  /\ SF_vars(BeginBootstrap)

Spec == Init /\ [][Next]_vars
FairSpec == Spec /\ Fairness

-----------------------------------------------------------------------------
(* Properties.                                                             *)

IngestType == [group : Groups, baseline : 0..MaxBaselines,
               at : 0..MaxChange, delta : BOOLEAN]

PcType == {"idle", "ingest", "resume", "discard", "build", "catalog",
           "publish", "mark", "clean", "boot", "manifest", "serve", "adopt",
           "done"}

(* The types of the variables.                                             *)
TypeOK ==
  /\ change \in 0..MaxChange
  /\ ingested \subseteq IngestType
  /\ fetched \in [Groups -> 0..MaxBaselines]
  /\ adopted \in [Groups -> 0..MaxBaselines]
  /\ catalog \in [Seqs -> {None} \cup RowType]
  /\ packages \in [Seqs -> {None} \cup PackageType]
  /\ pending \in {None, Torn} \cup PackageType
  /\ bootSlot \in {None} \cup PackageType
  /\ manifest \in {None} \cup ManifestType
  /\ pc \in PcType
  /\ op \in {"none", "incremental", "rebaseline", "bootstrap"}
  /\ group \in {None} \cup Groups
  /\ target \in 0..MaxBaselines
  /\ built \in {None} \cup PackageType
  /\ resuming \in BOOLEAN
  /\ draft \in {None} \cup ManifestType
  /\ crashes \in 0..MaxCrashes

(* Whatever the served manifest references is in the served root, is the   *)
(* package the manifest signed for, and is the one cataloged: no run ever  *)
(* takes a served package back or replaces it.                             *)
ServedIsPublished ==
  manifest # None =>
    \A k \in References(manifest) :
      /\ packages[k.seq] = k
      /\ catalog[k.seq] # None /\ catalog[k.seq].pkg = k

(* A client that follows the served chain misses no change and meets no    *)
(* change twice: each retained incremental starts where its predecessor    *)
(* ended, is chained on its payload and keeps its generation; the first    *)
(* one does so on the media root unless the window was truncated.          *)
ServedChainLinks ==
  manifest # None =>
    \A k \in manifest.incs :
      /\ k.gen = manifest.media.gen
      /\ \A j \in References(manifest) : j.seq + 1 = k.seq =>
           /\ k.low = j.high
           /\ k.prev = PayloadOf(j)
      /\ \/ \E j \in References(manifest) : j.seq + 1 = k.seq
         \/ /\ Cardinality(manifest.incs) = MaxRetained
            /\ \A j \in manifest.incs : k.seq <= j.seq

(* The package catalog is one chain: no hole, each window starting where   *)
(* the last one ended, whatever was discarded and built again.             *)
CatalogIsChain ==
  \A s \in Cataloged :
    /\ catalog[s].pkg.seq = s
    /\ s > 1 => /\ s - 1 \in Cataloged
                /\ catalog[s].pkg.low = catalog[s - 1].pkg.high
                /\ catalog[s].pkg.prev = PayloadOf(catalog[s - 1].pkg)

(* What is served is published, a chain without a gap, that of the catalog.*)
ChainIsServed == ServedIsPublished /\ ServedChainLinks /\ CatalogIsChain

(* The served head never moves back, in sequence or in content.            *)
ServedHeadMonotone ==
  [][manifest # None =>
       /\ HeadOf(manifest') >= HeadOf(manifest)
       /\ HeadPackage(manifest').high >= HeadPackage(manifest).high]_vars

(* A group adopts an upstream baseline only when a rebaseline is served    *)
(* whose content was frozen after that very baseline was ingested, also    *)
(* when a newer one is fetched during the run.                             *)
AdoptionIsServed ==
  [][\A g \in Groups : adopted'[g] # adopted[g] =>
       /\ manifest # None
       /\ manifest.media.kind = "rebaseline"
       /\ \E e \in ingested : /\ e.group = g
                              /\ e.baseline = adopted'[g]
                              /\ e.at <= manifest.media.high]_vars

(* The served head only moves forward, and what is adopted is served.      *)
PublicationMoves == ServedHeadMonotone /\ AdoptionIsServed

AllServed == manifest # None /\ HeadPackage(manifest).high = change
AllAdopted == adopted = fetched

(* Once changes and deaths stop, everything that changed is served: a      *)
(* cycle resumes or rebuilds what a dead one left (cycle.rs:290).          *)
EventuallyServed == <>[]AllServed

(* What no run recovers from: a slot whose manifest cannot be read, and a  *)
(* published package that is not the one cataloged under its id.           *)
Stuck ==
  \/ pending = Torn
  \/ \E s \in Seqs : packages[s] # None /\ (s \notin Cataloged \/ ~Verified(s))

(* The rebaseline in the slot is published and its row is not marked.      *)
LeftUnmarked ==
  /\ pending \notin {None, Torn} /\ pending.kind = "rebaseline"
  /\ packages[pending.seq] = pending
  /\ pending.seq \in Cataloged /\ catalog[pending.seq].status = "built"

(* Wherever runs die, everything that changed is served in the end, unless *)
(* one died while it wrote a staged manifest, or between the publication   *)
(* of a rebaseline and its mark, which the next run discards: there is no  *)
(* third way to stop the producer for good (cycle.rs:290).                 *)
ServedUnlessStuck ==
  /\ <>[](Stuck \/ AllServed)
  /\ [][~Stuck /\ Stuck' => pending' = Torn \/ (pc = "resume" /\ LeftUnmarked)]_vars

(* And every fetched baseline is adopted.                                  *)
AdoptedUnlessStuck == <>[](Stuck \/ AllAdopted)

(* No ordinary incremental carries the rows of a new upstream baseline.    *)
NoDeltaCrossesBaseline ==
  \A s \in Seqs : (packages[s] # None /\ packages[s].kind = "incremental") =>
    \A e \in ingested :
      e.delta => ~(packages[s].low < e.at /\ e.at <= packages[s].high)
=============================================================================
