----------------------- MODULE PublicationSuite_proofs -----------------------
(***************************************************************************)
(* What the producer serves is the chain of its catalog, and only moves    *)
(* forward: for any groups, sequences, changes, retention and deaths.      *)
(* What it builds it from carries the texts and their hierarchies: the     *)
(* projection of LEGI (LegiProjection_proofs), and the chunks of a record, *)
(* for any texts, tags and budget.                                         *)
(***************************************************************************)
EXTENDS PublicationSuite, FiniteSetTheorems, SequenceTheorems, WellFoundedInduction, TLAPS

Updating == {"incremental", "rebaseline"}
Staging  == {"publish", "mark", "clean"}
IsLast(s) == s \in Cataloged /\ \A t \in Cataloged : t <= s

-----------------------------------------------------------------------------
(* The catalog.  Its rows are the packages 1 to some n; generations and    *)
(* windows are inherited from row to row.                                  *)

CatalogIsPrefix == \A s \in Cataloged : \A t \in 1..s : t \in Cataloged

FirstIsBaseline == \A s \in Cataloged : catalog[s].pkg.kind = "baseline" <=> s = 1

HighsGrow ==
  \A s \in Cataloged :
    /\ catalog[s].pkg.high <= change
    /\ \A t \in Cataloged : t <= s => catalog[t].pkg.high <= catalog[s].pkg.high

GenerationsInherited ==
  \A s, t \in Cataloged :
    t <= s /\ (\A u \in t + 1 .. s : catalog[u].pkg.kind = "incremental") =>
      catalog[s].pkg.gen = catalog[t].pkg.gen

CatalogShape ==
  CatalogIsPrefix /\ CatalogIsChain /\ FirstIsBaseline /\ HighsGrow /\ GenerationsInherited

-----------------------------------------------------------------------------
(* What dead runs leave.  A row that is not marked is the first baseline,  *)
(* or the newest row and staged.                                           *)

SlotMatchesRow ==
  pending \notin {None, Torn} =>
    /\ pending.seq > 1 /\ pending.kind # "baseline"
    /\ pending.seq \in Cataloged => catalog[pending.seq].pkg = pending

OpenRows ==
  \A s \in Cataloged :
    catalog[s].status = "built" => s = 1 \/ (IsLast(s) /\ pending = catalog[s].pkg)

FirstBaselineKept ==
  /\ bootSlot # None =>
       /\ bootSlot.seq = 1 /\ bootSlot.kind = "baseline"
       /\ 1 \in Cataloged => catalog[1].pkg = bootSlot
  /\ 1 \in Cataloged /\ packages[1] = None => bootSlot # None
  /\ packages[1] # None => 1 \in Cataloged /\ catalog[1].pkg = packages[1]

LeftBehind == SlotMatchesRow /\ OpenRows /\ FirstBaselineKept

-----------------------------------------------------------------------------
(* The run under way, by where it is.                                      *)

OpFollowsPc ==
  /\ pc \in {"ingest", "resume", "discard", "build"} => op \in Updating
  /\ pc = "boot" => op = "bootstrap"
  /\ pc = "adopt" => op = "rebaseline"
  /\ pc \in {"catalog", "manifest", "serve"} \cup Staging => op \in Updating \cup {"bootstrap"}
  /\ op \in Updating => group \in Groups
  /\ resuming => pc \in Staging /\ op \in Updating

(* The package in hand extends the catalog, or is its row.                 *)
Extends(k) ==
  /\ k.seq \notin Cataloged
  /\ k.high <= change
  /\ \/ op = "bootstrap" /\ k = bootSlot /\ Cataloged = {}
     \/ /\ op \in Updating /\ k = pending
        /\ k.kind \in {"incremental", "rebaseline"}
        /\ \E s \in Cataloged :
             /\ IsLast(s) /\ k.seq = s + 1
             /\ k.low = catalog[s].pkg.high /\ k.prev = PayloadOf(catalog[s].pkg)
             /\ catalog[s].pkg.high <= k.high
             /\ k.kind = "incremental" => k.gen = catalog[s].pkg.gen

IsRow(k) ==
  /\ k.seq \in Cataloged /\ catalog[k.seq].pkg = k
  /\ IF op = "bootstrap" THEN k.seq = 1 ELSE k = pending

BuiltIsSound ==
  /\ pc = "discard" =>
       /\ pending \in PackageType
       /\ pending.seq \in Cataloged => catalog[pending.seq].status = "published"
  /\ pc = "build" => pending = None
  /\ pc = "catalog" => built \in PackageType /\ Extends(built)
  /\ pc \in Staging => built \in PackageType /\ IsRow(built)
  /\ pc \in {"mark", "clean"} => packages[built.seq] # None
  /\ pc = "clean" => catalog[built.seq].status = "published"
  /\ pc = "manifest" /\ op \in Updating => pending = None
  /\ op = "bootstrap" /\ pc \in {"catalog", "manifest"} \cup Staging =>
       \A s \in Cataloged : catalog[s].pkg.kind # "rebaseline"

-----------------------------------------------------------------------------
(* Manifests.  What one references is published, cataloged and stays so;   *)
(* one that is about to be served ends with the newest row.                *)

ReferencesStay(m) ==
  \A k \in References(m) :
    /\ packages[k.seq] = k
    /\ k.seq \in Cataloged /\ catalog[k.seq].pkg = k
    /\ k.kind = "rebaseline" => catalog[k.seq].status = "published"

Links(m) ==
  \A k \in m.incs :
    /\ k.gen = m.media.gen
    /\ \A j \in References(m) : j.seq + 1 = k.seq => k.low = j.high /\ k.prev = PayloadOf(j)
    /\ \/ \E j \in References(m) : j.seq + 1 = k.seq
       \/ /\ Cardinality(m.incs) = MaxRetained
          /\ \A j \in m.incs : k.seq <= j.seq

EndsWithLast(m) == \E k \in References(m) : IsLast(k.seq)

ManifestsAreSound ==
  /\ manifest # None => ReferencesStay(manifest) /\ Links(manifest)
  /\ pc = "serve" =>
       draft # None /\ ReferencesStay(draft) /\ Links(draft) /\ EndsWithLast(draft)

-----------------------------------------------------------------------------
(* A rebaseline run carries the baseline it ingested up to the marker.     *)

Ingested(high) ==
  \E e \in ingested : e.group = group /\ e.baseline = target /\ e.at <= high

Carries(k) == k.kind = "rebaseline" /\ Ingested(k.high)

BaselineIsCarried ==
  op = "rebaseline" =>
    /\ pc \in {"resume", "discard", "build"} \/ resuming => Ingested(change)
    /\ pc \in {"catalog"} \cup Staging /\ ~resuming =>
         Carries(built) /\ (pc # "catalog" => IsLast(built.seq))
    /\ pc = "manifest" => \E s \in Cataloged : IsLast(s) /\ Carries(catalog[s].pkg)
    /\ pc = "serve" => Carries(draft.media)
    /\ pc = "adopt" => manifest # None /\ Carries(manifest.media)

IInv ==
  /\ TypeOK /\ CatalogShape /\ LeftBehind /\ OpFollowsPc /\ BuiltIsSound
  /\ ManifestsAreSound /\ BaselineIsCarried

-----------------------------------------------------------------------------
(* Windows and baselines.  What a group ingested is held by a marked row,  *)
(* or is not adopted by it; and no window straddles it.                    *)

Covered(e) ==
  \E s \in Cataloged : catalog[s].status = "published" /\ e.at <= catalog[s].pkg.high

BaselinesSettle ==
  /\ \A g \in Groups : adopted[g] <= fetched[g]
  /\ \A e \in ingested :
       /\ e.at <= change /\ e.baseline <= fetched[e.group]
       /\ Covered(e) \/ adopted[e.group] < e.baseline
  /\ op \in Updating => target <= fetched[group]
  /\ op = "rebaseline" /\ pc # "done" => adopted[group] < target

RunCovers ==
  /\ op = "incremental" /\ pc # "ingest" =>
       \A e \in ingested : e.group = group => Covered(e)
  /\ op = "rebaseline" /\ pc \in {"catalog"} \cup Staging /\ ~resuming =>
       \A e \in ingested : e.at <= built.high
  /\ op = "rebaseline" /\ pc \in {"manifest", "serve", "adopt"} =>
       \A e \in ingested : Covered(e)

Uncrossed(k) ==
  /\ k.high <= change
  /\ k.kind = "incremental" => \A e \in ingested : e.delta => ~(k.low < e.at /\ e.at <= k.high)

WindowsUncrossed ==
  /\ \A s \in Cataloged : Uncrossed(catalog[s].pkg)
  /\ \A s \in Seqs : packages[s] # None => Uncrossed(packages[s])
  /\ pending \notin {None, Torn} => Uncrossed(pending)

BInv == BaselinesSettle /\ RunCovers /\ WindowsUncrossed

-----------------------------------------------------------------------------
(* Numbers.                                                                *)

(* A set of numbers that is not empty has a least one ...                  *)
LEMMA LeastExists ==
  ASSUME NEW T \in SUBSET Nat, T # {}
  PROVE  \E x \in T : \A y \in T : x <= y
<1> DEFINE R == {ss \in Nat \X Nat : ss[1] < ss[2]}
<1>1. IsWellFoundedOn(R, Nat)
  BY NatLessThanWellFounded DEF OpToRel
<1>2. \A x, y \in Nat : <<y, x>> \in R <=> y < x
  OBVIOUS
<1> HIDE DEF R
<1>3. PICK x \in T : \A y \in T : ~(<<y, x>> \in R)
  BY <1>1, WFMin
<1>4. ASSUME NEW y \in T PROVE x <= y
  <2>1. x \in Nat /\ y \in Nat
    OBVIOUS
  <2>2. ~(y < x)
    BY <1>2, <1>3, <2>1, Zenon
  <2> QED BY <2>1, <2>2
<1> QED BY <1>4

(* ... and, when it is bounded, a greatest one: its least upper bound.     *)
LEMMA GreatestExists ==
  ASSUME NEW T \in SUBSET Nat, T # {}, NEW n \in Nat, \A y \in T : y <= n
  PROVE  \E x \in T : \A y \in T : y <= x
<1> DEFINE U == {u \in Nat : \A y \in T : y <= u}
<1>1. PICK m \in U : \A u \in U : m <= u
  <2>1. n \in U
    OBVIOUS
  <2> HIDE DEF U
  <2>2. U \in SUBSET Nat
    BY DEF U
  <2> QED BY <2>1, <2>2, LeastExists
<1>2. m \in Nat /\ \A y \in T : y <= m
  OBVIOUS
<1>3. m \in T
  <2> SUFFICES ASSUME m \notin T PROVE FALSE
    OBVIOUS
  <2>1. PICK t \in T : TRUE
    OBVIOUS
  <2>2. m # 0
    BY <2>1, <1>2
  <2>3. m - 1 \in U
    BY <2>2, <1>2
  <2> QED BY <2>3, <1>1, <1>2
<1> QED BY <1>2, <1>3

-----------------------------------------------------------------------------
(* Packages and rows.                                                      *)

LEMMA PackageFields ==
  ASSUME NEW k \in PackageType
  PROVE  /\ k.seq \in Seqs /\ k.seq \in Nat /\ k.gen \in Nat /\ k.low \in Nat /\ k.high \in Nat
         /\ k.kind \in {"baseline", "rebaseline", "incremental"}
         /\ PayloadOf(k) \in Payload
         /\ k # None /\ k # Torn
<1>1. k.seq \in Nat
  BY BoundsAssumption DEF PackageType, Seqs
<1> QED BY <1>1, NoneAssumption DEF PackageType, MediaKinds, PayloadOf, Payload

LEMMA RowFields ==
  ASSUME TypeOK, NEW s \in Cataloged
  PROVE  /\ s \in Seqs /\ s \in Nat /\ s >= 1
         /\ catalog[s] \in RowType /\ catalog[s].pkg \in PackageType
         /\ catalog[s].status \in {"built", "published"}
<1>1. s \in Seqs /\ catalog[s] \in RowType
  BY DEF TypeOK, Cataloged
<1> QED BY <1>1, BoundsAssumption DEF Seqs, RowType

LEMMA NewestIsGreatest ==
  ASSUME NEW S \in SUBSET Seqs, S # {}
  PROVE  Newest(S) \in S /\ \A t \in S : t <= Newest(S)
<1>1. S \in SUBSET Nat /\ MaxSeq \in Nat /\ \A y \in S : y <= MaxSeq
  BY BoundsAssumption DEF Seqs
<1>2. \E x \in S : \A y \in S : y <= x
  BY <1>1, GreatestExists
<1> QED BY <1>2 DEF Newest

(* Latest is the last row.                                                 *)
LEMMA LatestIsLast ==
  ASSUME TypeOK, Cataloged # {}
  PROVE  \E s \in Cataloged : IsLast(s) /\ Latest = catalog[s].pkg
<1>1. Cataloged \in SUBSET Seqs
  BY DEF Cataloged
<1> QED BY <1>1, NewestIsGreatest DEF Latest, IsLast

LEMMA LastIsOne ==
  ASSUME TypeOK, NEW s, NEW t, IsLast(s), IsLast(t)
  PROVE  s = t
BY RowFields DEF IsLast

(* A new package is stamped with an identity of its own.                   *)
LEMMA NewBuildTyped ==
  ASSUME BuildsLeft
  PROVE  NewBuild \in Builds
BY DEF BuildsLeft, NewBuild

-----------------------------------------------------------------------------
(* What a step leaves alone.                                               *)

LEMMA CatalogStays ==
  ASSUME TypeOK, CatalogShape, catalog' = catalog, change' \in Nat, change <= change'
  PROVE  CatalogShape'
<1>1. Cataloged' = Cataloged
  BY DEF Cataloged
<1>2. change \in Nat
  BY BoundsAssumption DEF TypeOK
<1>3. \A s \in Cataloged : catalog[s].pkg.high \in Nat
  BY RowFields, PackageFields
<1>4. HighsGrow'
  BY <1>1, <1>2, <1>3 DEF CatalogShape, HighsGrow
<1> QED BY <1>1, <1>4 DEF CatalogShape, CatalogIsPrefix, CatalogIsChain, FirstIsBaseline,
                          GenerationsInherited

LEMMA LeftBehindStays ==
  ASSUME LeftBehind, UNCHANGED <<catalog, packages, pending, bootSlot>>
  PROVE  LeftBehind'
<1>1. Cataloged' = Cataloged
  BY DEF Cataloged
<1> QED BY <1>1 DEF LeftBehind, SlotMatchesRow, OpenRows, FirstBaselineKept, IsLast

LEMMA ManifestStays ==
  ASSUME ManifestsAreSound, UNCHANGED <<catalog, packages, manifest>>,
         pc' # "serve" \/ UNCHANGED <<pc, draft>>
  PROVE  ManifestsAreSound'
<1>1. Cataloged' = Cataloged
  BY DEF Cataloged
<1> QED BY <1>1 DEF ManifestsAreSound, ReferencesStay, Links, References, EndsWithLast, IsLast

(* What was ingested for a content is ingested for a later one.            *)
LEMMA IngestedStays ==
  ASSUME TypeOK, ingested \subseteq ingested', UNCHANGED <<group, target>>,
         NEW x \in Nat, NEW y \in Nat, x <= y, Ingested(x)
  PROVE  \E e \in ingested' : e.group = group' /\ e.baseline = target' /\ e.at <= y
<1>1. PICK e \in ingested : e.group = group /\ e.baseline = target /\ e.at <= x
  BY DEF Ingested
<1>2. e.at \in Nat
  BY <1>1, BoundsAssumption DEF TypeOK, IngestType
<1>3. e.at <= y /\ e \in ingested'
  BY <1>1, <1>2
<1> QED BY <1>1, <1>3

LEMMA CarriesStays ==
  ASSUME TypeOK, ingested \subseteq ingested', UNCHANGED <<group, target>>,
         NEW k \in PackageType, Carries(k)
  PROVE  Carries(k)'
<1>1. k.high \in Nat /\ Ingested(k.high)
  BY PackageFields DEF Carries
<1>2. \E e \in ingested' : e.group = group' /\ e.baseline = target' /\ e.at <= k.high
  BY <1>1, IngestedStays
<1> QED BY <1>2 DEF Carries, Ingested

(* A step that changes no table of the producer.                           *)
LEMMA TablesStay ==
  ASSUME IInv, UNCHANGED <<catalog, packages, pending, bootSlot, manifest>>,
         pc' # "serve" \/ UNCHANGED <<pc, draft>>, change <= change',
         TypeOK', OpFollowsPc', BuiltIsSound', BaselineIsCarried'
  PROVE  IInv'
<1>1. change' \in Nat
  BY BoundsAssumption DEF TypeOK
<1> QED BY <1>1, CatalogStays, LeftBehindStays, ManifestStays DEF IInv

(* The end of a run, in order or not, that leaves every table alone.       *)
LEMMA ReturnKeeps ==
  ASSUME IInv, Return, UNCHANGED <<corpus, durable>>, crashes' \in 0..MaxCrashes
  PROVE  IInv'
<1>1. /\ UNCHANGED <<change, ingested, fetched, adopted, catalog, packages, pending, bootSlot, manifest>>
      /\ pc' = "idle" /\ op' = "none" /\ group' = None /\ target' = 0 /\ built' = None
      /\ resuming' = FALSE /\ draft' = None
  BY DEF corpus, durable, Return
<1>0. 0 \in 0..MaxBaselines /\ "idle" \in PcType
  BY BoundsAssumption DEF PcType
<1>2. TypeOK'
  BY <1>0, <1>1 DEF IInv, TypeOK
<1>3. change' \in Nat /\ change <= change'
  BY <1>1, BoundsAssumption DEF IInv, TypeOK
<1>4. CatalogShape'
  BY <1>1, <1>3, CatalogStays DEF IInv
<1>5. LeftBehind'
  BY <1>1, LeftBehindStays DEF IInv
<1>6. ManifestsAreSound'
  BY <1>1, ManifestStays DEF IInv
<1>7. OpFollowsPc' /\ BuiltIsSound' /\ BaselineIsCarried'
  BY <1>1 DEF OpFollowsPc, BuiltIsSound, BaselineIsCarried, Updating, Staging
<1> QED BY <1>2, <1>4, <1>5, <1>6, <1>7 DEF IInv

-----------------------------------------------------------------------------
(* The environment, and the start of a run.                                *)

LEMMA ChangeKeeps ==
  ASSUME IInv, Change
  PROVE  IInv'
<1>1. /\ UNCHANGED <<ingested, fetched, adopted, catalog, packages, pending, bootSlot, manifest>>
      /\ UNCHANGED <<pc, op, group, target, built, resuming, draft, crashes>>
      /\ change' = change + 1 /\ change < MaxChange
  BY DEF Change, durable, run
<1>2. change \in Nat /\ change' \in 0..MaxChange /\ change' \in Nat /\ change <= change'
  BY <1>1, BoundsAssumption DEF IInv, TypeOK
<1>3. TypeOK'
  BY <1>1, <1>2 DEF IInv, TypeOK
<1>4. OpFollowsPc'
  BY <1>1 DEF IInv, OpFollowsPc
<1>5. Cataloged' = Cataloged
  BY <1>1 DEF Cataloged
<1>6. BuiltIsSound'
  <2>1. built \in PackageType /\ Extends(built) => Extends(built)'
    BY <1>1, <1>2, <1>5, PackageFields DEF Extends, IsLast
  <2> QED BY <1>1, <1>5, <2>1 DEF IInv, BuiltIsSound, IsRow
<1>7. BaselineIsCarried'
  <2>1. Ingested(change) => Ingested(change)'
    <3>1. Ingested(change) =>
            \E e \in ingested' : e.group = group' /\ e.baseline = target' /\ e.at <= change'
      BY <1>1, <1>2, IngestedStays DEF IInv
    <3> QED BY <3>1 DEF Ingested
  <2>2. \A k : Carries(k) <=> Carries(k)'
    BY <1>1 DEF Carries, Ingested
  <2> QED BY <1>1, <1>5, <2>1, <2>2 DEF IInv, BaselineIsCarried, IsLast
<1> QED BY <1>1, <1>2, <1>3, <1>4, <1>6, <1>7, TablesStay

LEMMA FetchBaselineKeeps ==
  ASSUME IInv, NEW g \in Groups, FetchBaseline(g)
  PROVE  IInv'
<1>1. /\ UNCHANGED <<change, ingested, adopted, catalog, packages, pending, bootSlot, manifest>>
      /\ UNCHANGED <<pc, op, group, target, built, resuming, draft, crashes>>
  BY DEF FetchBaseline, corpus, run
<1>2. fetched' \in [Groups -> 0..MaxBaselines]
  BY BoundsAssumption DEF FetchBaseline, IInv, TypeOK
<1>3. TypeOK'
  BY <1>1, <1>2 DEF IInv, TypeOK
<1>4. change \in Nat
  BY BoundsAssumption DEF IInv, TypeOK
<1>5. Cataloged' = Cataloged
  BY <1>1 DEF Cataloged
<1>6. OpFollowsPc' /\ BuiltIsSound' /\ BaselineIsCarried'
  BY <1>1, <1>5 DEF IInv, OpFollowsPc, BuiltIsSound, Extends, IsRow, BaselineIsCarried, Carries,
                    Ingested, IsLast
<1> QED BY <1>1, <1>3, <1>4, <1>6, TablesStay

LEMMA BeginKeeps ==
  ASSUME IInv, BeginBootstrap \/ \E g \in Groups : BeginUpdate(g)
  PROVE  IInv'
<1>1. /\ UNCHANGED <<change, ingested, fetched, adopted, catalog, packages, pending, bootSlot, manifest>>
      /\ UNCHANGED <<built, resuming, draft, crashes>>
      /\ pc = "idle"
      /\ \/ pc' = "boot" /\ op' = "bootstrap" /\ UNCHANGED <<group, target>>
         \/ pc' = "ingest" /\ op' \in Updating /\ \E g \in Groups : group' = g /\ target' = fetched[g]
  BY DEF BeginBootstrap, BeginUpdate, Goto, corpus, durable, Updating
<1>2. resuming = FALSE
  BY <1>1 DEF IInv, TypeOK, OpFollowsPc, Staging
<1>3. TypeOK'
  <2>1. group' \in {None} \cup Groups /\ target' \in 0..MaxBaselines
    BY <1>1 DEF IInv, TypeOK
  <2>2. pc' \in PcType /\ op' \in {"none", "incremental", "rebaseline", "bootstrap"}
    BY <1>1 DEF PcType, Updating
  <2> QED BY <1>1, <2>1, <2>2 DEF IInv, TypeOK
<1>4. change \in Nat
  BY BoundsAssumption DEF IInv, TypeOK
<1>5. OpFollowsPc' /\ BuiltIsSound' /\ BaselineIsCarried'
  BY <1>1, <1>2 DEF OpFollowsPc, BuiltIsSound, BaselineIsCarried, Staging, Updating
<1> QED BY <1>1, <1>3, <1>4, <1>5, TablesStay

LEMMA IngestKeeps ==
  ASSUME IInv, IngestBaseline \/ IncrementalMayProceed
  PROVE  IInv'
<1>1. /\ UNCHANGED <<fetched, adopted, catalog, packages, pending, bootSlot, manifest>>
      /\ UNCHANGED <<op, group, target, built, resuming, draft, crashes>>
      /\ pc = "ingest" /\ pc' = "resume" /\ op \in Updating
  BY DEF IngestBaseline, IncrementalMayProceed, Goto, durable, Updating
<1>2. /\ change \in Nat /\ change' \in 0..MaxChange /\ change' \in Nat /\ change <= change'
      /\ group \in Groups /\ target \in 0..MaxBaselines /\ resuming = FALSE
  BY <1>1, BoundsAssumption DEF IngestBaseline, IncrementalMayProceed, corpus, IInv, TypeOK,
                                OpFollowsPc, Staging
<1>3. ingested' \subseteq IngestType
  <2>1. CASE IngestBaseline
    <3> DEFINE e == [group |-> group, baseline |-> target, at |-> change', delta |-> change' # change]
    <3>1. ingested' = ingested \cup {e} /\ e \in IngestType
      BY <2>1, <1>2 DEF IngestBaseline, IngestType
    <3> QED BY <3>1 DEF IInv, TypeOK
  <2>2. CASE IncrementalMayProceed
    BY <2>2 DEF IncrementalMayProceed, corpus, IInv, TypeOK
  <2> QED BY <2>1, <2>2
<1>4. TypeOK'
  BY <1>1, <1>2, <1>3 DEF IInv, TypeOK, PcType
<1>5. op = "rebaseline" => Ingested(change)'
  <2>1. SUFFICES ASSUME op = "rebaseline" PROVE Ingested(change)'
    OBVIOUS
  <2> DEFINE e == [group |-> group, baseline |-> target, at |-> change', delta |-> change' # change]
  <2>2. e \in ingested' /\ e.group = group' /\ e.baseline = target' /\ e.at = change'
    BY <2>1, <1>1 DEF IngestBaseline, IncrementalMayProceed
  <2> HIDE DEF e
  <2> QED BY <2>2, <1>2 DEF Ingested
<1>6. OpFollowsPc' /\ BuiltIsSound' /\ BaselineIsCarried'
  BY <1>1, <1>2, <1>5 DEF IInv, OpFollowsPc, BuiltIsSound, BaselineIsCarried, Staging, Updating
<1> QED BY <1>1, <1>2, <1>4, <1>6, TablesStay

-----------------------------------------------------------------------------
(* Steps of a run that move it on and change no table.                     *)

LEMMA RunMovesKeeps ==
  ASSUME IInv, ResumeNothing \/ BuildNothing
  PROVE  IInv'
<1>1. /\ UNCHANGED <<change, ingested, fetched, adopted, catalog, packages, pending, bootSlot, manifest>>
      /\ UNCHANGED <<op, group, target, built, resuming, draft, crashes>>
      /\ \/ pc = "resume" /\ pc' = "build" /\ pending = None
         \/ pc = "build" /\ pc' = "manifest" /\ op = "incremental"
  BY DEF ResumeNothing, BuildNothing, Goto, corpus, durable
<1>2. TypeOK'
  BY <1>1 DEF IInv, TypeOK, PcType
<1>3. change \in Nat
  BY BoundsAssumption DEF IInv, TypeOK
<1>4. resuming = FALSE /\ pending = None /\ op \in Updating
  BY <1>1 DEF IInv, TypeOK, OpFollowsPc, BuiltIsSound, Staging
<1>5. OpFollowsPc' /\ BuiltIsSound'
  BY <1>1, <1>4 DEF IInv, OpFollowsPc, BuiltIsSound, Staging, Updating
<1>6. BaselineIsCarried'
  <2>1. Ingested(change) => Ingested(change)'
    BY <1>1 DEF Ingested
  <2> QED BY <1>1, <1>4, <2>1 DEF IInv, BaselineIsCarried, Staging
<1> QED BY <1>1, <1>2, <1>3, <1>5, <1>6, TablesStay

LEMMA ResumeStagedKeeps ==
  ASSUME IInv, ResumeStaged
  PROVE  IInv'
<1>1. /\ UNCHANGED <<change, ingested, fetched, adopted, catalog, packages, pending, bootSlot, manifest>>
      /\ UNCHANGED <<op, group, target, draft, crashes>>
      /\ pc = "resume" /\ pc' = "publish" /\ built' = pending /\ resuming' = TRUE
      /\ pending \notin {None, Torn} /\ catalog[pending.seq] # None
  BY DEF ResumeStaged, DiscardsSlot, Goto, corpus, durable
<1>2. pending \in PackageType /\ pending.seq \in Cataloged /\ catalog[pending.seq].pkg = pending
  <2>1. pending \in PackageType
    BY <1>1 DEF IInv, TypeOK
  <2>2. pending.seq \in Cataloged
    BY <1>1, <2>1, PackageFields DEF Cataloged
  <2> QED BY <1>1, <2>1, <2>2 DEF IInv, LeftBehind, SlotMatchesRow
<1>3. TypeOK'
  BY <1>1, <1>2 DEF IInv, TypeOK, PcType
<1>4. change \in Nat /\ op \in Updating
  BY <1>1, BoundsAssumption DEF IInv, TypeOK, OpFollowsPc
<1>5. Cataloged' = Cataloged
  BY <1>1 DEF Cataloged
<1>6. OpFollowsPc'
  BY <1>1, <1>4 DEF IInv, OpFollowsPc, Staging
<1>7. BuiltIsSound'
  <2>1. IsRow(built)'
    BY <1>1, <1>2, <1>4, <1>5 DEF IsRow, Updating
  <2> QED BY <1>1, <1>2, <1>4, <2>1 DEF BuiltIsSound, Staging, Updating
<1>8. BaselineIsCarried'
  <2>1. Ingested(change) => Ingested(change)'
    BY <1>1 DEF Ingested
  <2> QED BY <1>1, <2>1 DEF IInv, BaselineIsCarried, Staging
<1> QED BY <1>1, <1>3, <1>4, <1>6, <1>7, <1>8, TablesStay

(* Past the first baseline there is a rebaseline only as the media root.   *)
LEMMA CanonicalMeansFirst ==
  ASSUME TypeOK, CatalogShape, Media # {}, Canonical(catalog[Newest(Media)])
  PROVE  /\ 1 \in Cataloged /\ catalog[1].pkg.seq = 1
         /\ \A s \in Cataloged : catalog[s].pkg.kind # "rebaseline"
<1>1. Media \in SUBSET Seqs /\ Media \subseteq Cataloged
  BY DEF Media, Cataloged
<1>2. Newest(Media) \in Media /\ \A t \in Media : t <= Newest(Media)
  BY <1>1, NewestIsGreatest
<1>3. Newest(Media) = 1
  BY <1>1, <1>2 DEF Canonical, CatalogShape, CatalogIsChain
<1>4. ASSUME NEW s \in Cataloged, catalog[s].pkg.kind = "rebaseline" PROVE FALSE
  <2>1. s \in Media /\ s \in Nat /\ s >= 1
    BY <1>4, RowFields DEF Media, MediaKinds
  <2>2. s = 1
    BY <1>2, <1>3, <2>1
  <2> QED BY <1>4, <2>2 DEF CatalogShape, FirstIsBaseline
<1> QED BY <1>1, <1>2, <1>3, <1>4 DEF CatalogShape, CatalogIsChain

LEMMA BootResumeKeeps ==
  ASSUME IInv, BootResume
  PROVE  IInv'
<1>1. /\ UNCHANGED <<change, ingested, fetched, adopted, catalog, packages, pending, bootSlot, manifest>>
      /\ UNCHANGED <<op, group, target, resuming, draft, crashes>>
      /\ pc = "boot" /\ pc' = (IF packages[1] = None THEN "publish" ELSE "mark")
      /\ built' = (IF packages[1] = None THEN bootSlot ELSE packages[1])
      /\ Media # {} /\ Canonical(catalog[Newest(Media)])
  BY DEF BootResume, Goto, corpus, durable
<1>2. /\ 1 \in Cataloged /\ catalog[1].pkg.seq = 1 /\ catalog[1].pkg \in PackageType
      /\ \A s \in Cataloged : catalog[s].pkg.kind # "rebaseline"
  BY <1>1, CanonicalMeansFirst, RowFields DEF IInv
<1>3. op = "bootstrap" /\ resuming = FALSE /\ change \in Nat
  BY <1>1, BoundsAssumption DEF IInv, TypeOK, OpFollowsPc, Staging
<1>4. built' = catalog[1].pkg /\ (pc' = "mark" => packages[1] # None)
  BY <1>1, <1>2 DEF IInv, LeftBehind, FirstBaselineKept
<1>5. TypeOK'
  BY <1>1, <1>2, <1>4 DEF IInv, TypeOK, PcType
<1>6. Cataloged' = Cataloged
  BY <1>1 DEF Cataloged
<1>7. BuiltIsSound'
  BY <1>1, <1>2, <1>3, <1>4, <1>6 DEF BuiltIsSound, IsRow, Staging, Updating
<1>8. OpFollowsPc' /\ BaselineIsCarried'
  BY <1>1, <1>3 DEF IInv, OpFollowsPc, BaselineIsCarried, Staging, Updating
<1> QED BY <1>1, <1>3, <1>5, <1>7, <1>8, TablesStay

LEMMA AdoptKeeps ==
  ASSUME IInv, AdoptNewBaselines
  PROVE  IInv'
<1>1. /\ UNCHANGED <<change, ingested, fetched, catalog, packages, pending, bootSlot, manifest>>
      /\ UNCHANGED <<op, group, target, built, resuming, draft, crashes>>
      /\ pc = "adopt" /\ pc' = "done" /\ adopted' = [adopted EXCEPT ![group] = target]
  BY DEF AdoptNewBaselines, Goto, corpus
<1>2. adopted' \in [Groups -> 0..MaxBaselines] /\ change \in Nat
  <2>1. adopted' \in [Groups -> 0..MaxBaselines]
    BY <1>1 DEF IInv, TypeOK
  <2> QED BY <2>1, BoundsAssumption DEF IInv, TypeOK
<1>3. TypeOK'
  BY <1>1, <1>2 DEF IInv, TypeOK, PcType
<1>4. OpFollowsPc' /\ BuiltIsSound' /\ BaselineIsCarried'
  <2>1. op = "rebaseline" /\ group \in Groups
    BY <1>1 DEF IInv, OpFollowsPc, Updating
  <2>2. resuming = FALSE
    BY <1>1 DEF IInv, TypeOK, OpFollowsPc, Staging
  <2> QED BY <1>1, <2>1, <2>2 DEF OpFollowsPc, BuiltIsSound, BaselineIsCarried, Staging, Updating
<1> QED BY <1>1, <1>2, <1>3, <1>4, TablesStay

-----------------------------------------------------------------------------
(* Steps that change the staging slots.                                    *)

(* The slot lets go of a package only when its row is marked or gone.      *)
LEMMA SlotMoves ==
  ASSUME IInv, UNCHANGED <<catalog, packages, bootSlot>>,
         pending \in PackageType /\ pending.seq \in Cataloged =>
           catalog[pending.seq].status = "published",
         pending' \notin {None, Torn} =>
           pending'.seq > 1 /\ pending'.kind # "baseline" /\ pending'.seq \notin Cataloged
  PROVE  LeftBehind'
<1>1. Cataloged' = Cataloged
  BY DEF Cataloged
<1>2. ASSUME NEW s \in Cataloged, catalog[s].status = "built", s # 1 PROVE FALSE
  <2>1. IsLast(s) /\ pending = catalog[s].pkg
    BY <1>2 DEF IInv, LeftBehind, OpenRows
  <2>2. pending \in PackageType /\ pending.seq = s
    BY <2>1, RowFields DEF IInv, CatalogShape, CatalogIsChain
  <2> QED BY <1>2, <2>1, <2>2
<1>3. OpenRows'
  BY <1>1, <1>2 DEF OpenRows
<1>4. SlotMatchesRow'
  BY <1>1 DEF SlotMatchesRow
<1>5. FirstBaselineKept'
  BY <1>1 DEF IInv, LeftBehind, FirstBaselineKept
<1> QED BY <1>3, <1>4, <1>5 DEF LeftBehind

LEMMA DiscardCleanKeeps ==
  ASSUME IInv, ResumeDiscardClean
  PROVE  IInv'
<1>1. /\ UNCHANGED <<change, ingested, fetched, adopted, catalog, packages, bootSlot, manifest>>
      /\ UNCHANGED <<op, group, target, built, resuming, draft, crashes>>
      /\ pc = "discard" /\ pc' = "build" /\ pending' = None
  BY DEF ResumeDiscardClean, Goto, corpus
<1>2. /\ change \in Nat /\ op \in Updating /\ resuming = FALSE
      /\ pending.seq \in Cataloged => catalog[pending.seq].status = "published"
  BY <1>1, BoundsAssumption DEF IInv, TypeOK, OpFollowsPc, BuiltIsSound, Staging
<1>3. TypeOK'
  BY <1>1 DEF IInv, TypeOK, PcType
<1>4. LeftBehind'
  BY <1>1, <1>2, SlotMoves
<1>5. CatalogShape' /\ ManifestsAreSound'
  BY <1>1, <1>2, CatalogStays, ManifestStays DEF IInv
<1>6. OpFollowsPc' /\ BuiltIsSound'
  BY <1>1, <1>2 DEF IInv, OpFollowsPc, BuiltIsSound, Staging, Updating
<1>7. BaselineIsCarried'
  <2>1. Ingested(change) => Ingested(change)'
    BY <1>1 DEF Ingested
  <2> QED BY <1>1, <1>2, <2>1 DEF IInv, BaselineIsCarried, Staging
<1> QED BY <1>3, <1>4, <1>5, <1>6, <1>7 DEF IInv

LEMMA CrashTornKeeps ==
  ASSUME IInv, CrashTorn
  PROVE  IInv'
<1>1. /\ UNCHANGED <<change, ingested, fetched, adopted, catalog, packages, bootSlot, manifest>>
      /\ pc = "build" /\ pending' = Torn /\ crashes < MaxCrashes /\ crashes' = crashes + 1
      /\ pc' = "idle" /\ op' = "none" /\ group' = None /\ target' = 0 /\ built' = None
      /\ resuming' = FALSE /\ draft' = None
  BY DEF CrashTorn, corpus, Return
<1>2. change \in Nat /\ pending = None /\ crashes' \in 0..MaxCrashes
  BY <1>1, BoundsAssumption DEF IInv, TypeOK, BuiltIsSound
<1>3. TypeOK'
  <2>1. 0 \in 0..MaxBaselines /\ "idle" \in PcType
    BY BoundsAssumption DEF PcType
  <2> QED BY <1>1, <1>2, <2>1 DEF IInv, TypeOK
<1>4. LeftBehind'
  <2>1. None \notin PackageType
    BY NoneAssumption
  <2> QED BY <1>1, <1>2, <2>1, SlotMoves
<1>5. CatalogShape' /\ ManifestsAreSound'
  BY <1>1, <1>2, CatalogStays, ManifestStays DEF IInv
<1>6. OpFollowsPc' /\ BuiltIsSound' /\ BaselineIsCarried'
  BY <1>1 DEF OpFollowsPc, BuiltIsSound, BaselineIsCarried, Updating, Staging
<1> QED BY <1>3, <1>4, <1>5, <1>6 DEF IInv

(* The package built extends the catalog it was built on.                  *)
LEMMA BuildKeeps ==
  ASSUME IInv, BuildPackage
  PROVE  IInv'
<1>1. /\ UNCHANGED <<change, ingested, fetched, adopted, catalog, packages, bootSlot, manifest>>
      /\ UNCHANGED <<op, group, target, resuming, draft, crashes>>
      /\ pc = "build" /\ pc' = "catalog" /\ pending' = built'
      /\ Cataloged # {} /\ Latest.seq < MaxSeq /\ BuildsLeft
      /\ \/ op = "incremental" /\ change > Latest.high /\ built' = IncrementalOf(Latest, NewBuild)
         \/ op = "rebaseline" /\ built' = RebaselineOf(Latest, NewBuild)
  BY DEF BuildPackage, Goto, corpus
<1>2. PICK s \in Cataloged : IsLast(s) /\ Latest = catalog[s].pkg
  BY <1>1, LatestIsLast DEF IInv
<1> DEFINE last == catalog[s].pkg
<1>3. /\ last \in PackageType /\ last.seq = s /\ s \in Nat /\ s >= 1 /\ last.high <= change
      /\ last.high \in Nat /\ last.gen \in Nat /\ PayloadOf(last) \in Payload /\ last # None
  BY RowFields, PackageFields DEF IInv, CatalogShape, CatalogIsChain, HighsGrow
<1>4. /\ op \in Updating /\ pending = None /\ resuming = FALSE /\ change \in Nat
      /\ NewBuild \in Builds
  BY <1>1, NewBuildTyped, BoundsAssumption DEF IInv, TypeOK, OpFollowsPc, BuiltIsSound, Staging
<1>5. /\ built'.seq = s + 1 /\ built'.low = last.high /\ built'.high = change
      /\ built'.prev = PayloadOf(last) /\ built'.build = NewBuild
      /\ \/ op = "incremental" /\ built'.kind = "incremental" /\ built'.gen = last.gen
         \/ op = "rebaseline" /\ built'.kind = "rebaseline" /\ built'.gen = last.gen + 1
  <2> HIDE DEF last
  <2>1. last = Latest
    BY <1>2 DEF last
  <2> QED BY <1>1, <1>3, <2>1 DEF IncrementalOf, RebaselineOf
<1>6. built' \in PackageType
  <2>1. s + 1 \in Seqs /\ last.gen + 1 \in Nat
    BY <1>1, <1>2, <1>3, BoundsAssumption DEF Seqs
  <2> HIDE DEF last
  <2>2. last = Latest /\ Latest.seq = s
    BY <1>2, <1>3 DEF last
  <2> QED BY <1>1, <1>3, <1>4, <2>1, <2>2 DEF PackageType, MediaKinds, IncrementalOf, RebaselineOf
<1>7. built'.seq \notin Cataloged
  BY <1>2, <1>3, <1>5 DEF IsLast
<1>8. TypeOK'
  BY <1>1, <1>6 DEF IInv, TypeOK, PcType
<1>9. LeftBehind'
  <2>1. pending \notin PackageType
    BY <1>4, NoneAssumption
  <2> QED BY <1>1, <1>3, <1>5, <1>7, <2>1, SlotMoves
<1>10. CatalogShape' /\ ManifestsAreSound'
  BY <1>1, <1>4, CatalogStays, ManifestStays DEF IInv
<1>11. OpFollowsPc'
  BY <1>1, <1>4 DEF IInv, OpFollowsPc, Staging, Updating
<1>12. Cataloged' = Cataloged
  BY <1>1 DEF Cataloged
<1>13. BuiltIsSound'
  <2>1. Extends(built)'
    BY <1>1, <1>2, <1>3, <1>4, <1>5, <1>7, <1>12 DEF Extends, IsLast, PayloadOf
  <2> QED BY <1>1, <1>4, <1>6, <2>1 DEF BuiltIsSound, Staging, Updating
<1>14. BaselineIsCarried'
  <2>1. op = "rebaseline" => Carries(built)'
    BY <1>1, <1>5 DEF IInv, BaselineIsCarried, Carries, Ingested
  <2> QED BY <1>1, <1>4, <2>1 DEF BaselineIsCarried, Staging
<1> QED BY <1>8, <1>9, <1>10, <1>11, <1>13, <1>14 DEF IInv

(* The first baseline is built on an empty catalog.                        *)
LEMMA BootBuildKeeps ==
  ASSUME IInv, BootBuild
  PROVE  IInv'
<1>1. /\ UNCHANGED <<change, ingested, fetched, adopted, catalog, packages, pending, manifest>>
      /\ UNCHANGED <<op, group, target, resuming, draft, crashes>>
      /\ pc = "boot" /\ pc' = "catalog" /\ bootSlot' = built'
      /\ Media = {} /\ BuildsLeft /\ built' = FirstBaseline(NewBuild)
  BY DEF BootBuild, Goto, corpus
<1>2. Cataloged = {}
  <2> SUFFICES ASSUME NEW s \in Cataloged PROVE FALSE
    OBVIOUS
  <2>1. 1 \in 1..s
    BY RowFields DEF IInv
  <2>2. 1 \in Cataloged /\ catalog[1].pkg.kind = "baseline"
    BY <2>1 DEF IInv, CatalogShape, CatalogIsPrefix, FirstIsBaseline
  <2> QED BY <1>1, <2>2 DEF Media, MediaKinds
<1>3. op = "bootstrap" /\ resuming = FALSE /\ change \in Nat /\ NewBuild \in Builds
  BY <1>1, NewBuildTyped, BoundsAssumption DEF IInv, TypeOK, OpFollowsPc, Staging
<1>4. built'.seq = 1 /\ built'.kind = "baseline" /\ built'.high = change
  BY <1>1 DEF FirstBaseline
<1>5. built' \in PackageType
  <2>1. 1 \in Seqs /\ 1 \in Nat /\ 0 \in Nat
    BY BoundsAssumption DEF Seqs
  <2> QED BY <1>1, <1>3, <2>1 DEF PackageType, MediaKinds, FirstBaseline
<1>6. TypeOK'
  BY <1>1, <1>5 DEF IInv, TypeOK, PcType
<1>7. Cataloged' = Cataloged
  BY <1>1 DEF Cataloged
<1>8. LeftBehind'
  BY <1>1, <1>2, <1>4, <1>7 DEF IInv, LeftBehind, SlotMatchesRow, OpenRows, FirstBaselineKept
<1>9. CatalogShape' /\ ManifestsAreSound'
  BY <1>1, <1>3, CatalogStays, ManifestStays DEF IInv
<1>10. OpFollowsPc'
  BY <1>1, <1>3 DEF IInv, OpFollowsPc, Staging, Updating
<1>11. BuiltIsSound'
  <2>1. Extends(built)'
    BY <1>1, <1>2, <1>3, <1>4, <1>7 DEF Extends
  <2> QED BY <1>1, <1>2, <1>3, <1>5, <1>7, <2>1 DEF BuiltIsSound, Staging, Updating
<1>12. BaselineIsCarried'
  BY <1>1, <1>3 DEF BaselineIsCarried
<1> QED BY <1>6, <1>8, <1>9, <1>10, <1>11, <1>12 DEF IInv

LEMMA CleanSlotKeeps ==
  ASSUME IInv, CleanSlot
  PROVE  IInv'
<1>1. /\ UNCHANGED <<change, ingested, fetched, adopted, catalog, packages, manifest>>
      /\ UNCHANGED <<op, group, target, draft, crashes>>
      /\ pc = "clean" /\ pc' = (IF resuming THEN "build" ELSE "manifest")
      /\ resuming' = FALSE /\ built' = None
      /\ \/ op = "bootstrap" /\ bootSlot' = None /\ UNCHANGED pending
         \/ op # "bootstrap" /\ pending' = None /\ UNCHANGED bootSlot
  BY DEF CleanSlot, Goto, corpus
<1>2. /\ op \in Updating \cup {"bootstrap"} /\ (resuming => op \in Updating) /\ change \in Nat
      /\ built \in PackageType /\ IsRow(built) /\ packages[built.seq] # None
      /\ catalog[built.seq].status = "published"
  BY <1>1, BoundsAssumption DEF IInv, TypeOK, OpFollowsPc, BuiltIsSound, Staging
<1>3. TypeOK'
  <2>1. pending' \in {None, Torn} \cup PackageType /\ bootSlot' \in {None} \cup PackageType
    BY <1>1 DEF IInv, TypeOK
  <2> QED BY <1>1, <2>1 DEF IInv, TypeOK, PcType
<1>4. Cataloged' = Cataloged
  BY <1>1 DEF Cataloged
<1>5. LeftBehind'
  <2>1. CASE op = "bootstrap"
    <3>1. packages[1] # None
      BY <1>2, <2>1 DEF IsRow
    <3> QED BY <1>1, <1>4, <2>1, <3>1
            DEF IInv, LeftBehind, SlotMatchesRow, OpenRows, IsLast, FirstBaselineKept
  <2>2. CASE op # "bootstrap"
    <3>1. built = pending
      BY <1>2, <2>2 DEF IsRow
    <3> QED BY <1>1, <1>2, <2>2, <3>1, SlotMoves
  <2> QED BY <2>1, <2>2
<1>6. CatalogShape' /\ ManifestsAreSound'
  BY <1>1, <1>2, CatalogStays, ManifestStays DEF IInv
<1>7. OpFollowsPc'
  BY <1>1, <1>2 DEF IInv, OpFollowsPc, Staging, Updating
<1>8. BuiltIsSound'
  <2>1. op \in Updating => pending' = None
    BY <1>1 DEF Updating
  <2> QED BY <1>1, <1>2, <1>4, <2>1 DEF IInv, BuiltIsSound, Staging, Updating
<1>9. BaselineIsCarried'
  <2>1. Ingested(change) => Ingested(change)'
    BY <1>1 DEF Ingested
  <2>2. ASSUME op = "rebaseline", ~resuming
        PROVE  (\E s \in Cataloged : IsLast(s) /\ Carries(catalog[s].pkg))'
    <3>1. Carries(built) /\ IsLast(built.seq)
      BY <1>1, <2>2 DEF IInv, BaselineIsCarried, Staging
    <3>2. built.seq \in Cataloged /\ Carries(catalog[built.seq].pkg)
      BY <1>2, <3>1 DEF IsRow
    <3> QED BY <1>1, <1>4, <3>1, <3>2 DEF IsLast, Carries, Ingested
  <2> QED BY <1>1, <2>1, <2>2 DEF IInv, BaselineIsCarried, Staging
<1> QED BY <1>3, <1>5, <1>6, <1>7, <1>8, <1>9 DEF IInv

-----------------------------------------------------------------------------
(* Steps that change the served root.                                      *)

(* A package is published once; what is there already stays.               *)
LEMMA PublishKeeps ==
  ASSUME IInv, PublishPackage
  PROVE  IInv'
<1>1. /\ UNCHANGED <<change, ingested, fetched, adopted, catalog, pending, bootSlot, manifest>>
      /\ UNCHANGED <<op, group, target, built, resuming, draft, crashes>>
      /\ pc = "publish" /\ pc' = "mark" /\ packages' = Published(built)
  BY DEF PublishPackage, Goto, corpus
<1>2. /\ change \in Nat /\ built \in PackageType /\ IsRow(built) /\ built # None /\ built.seq \in Seqs
      /\ op \in Updating \cup {"bootstrap"} /\ packages \in [Seqs -> {None} \cup PackageType]
  BY <1>1, PackageFields, BoundsAssumption DEF IInv, TypeOK, OpFollowsPc, BuiltIsSound, Staging
<1>3. /\ packages' \in [Seqs -> {None} \cup PackageType]
      /\ packages'[built.seq] # None
      /\ \A s \in Seqs : packages'[s] = packages[s] \/ (s = built.seq /\ packages[s] = None /\ packages'[s] = built)
  BY <1>1, <1>2 DEF Published
<1>4. TypeOK'
  BY <1>1, <1>3 DEF IInv, TypeOK, PcType
<1>5. Cataloged' = Cataloged
  BY <1>1 DEF Cataloged
<1>6. LeftBehind'
  <2>1. SlotMatchesRow' /\ OpenRows'
    BY <1>1, <1>5 DEF IInv, LeftBehind, SlotMatchesRow, OpenRows, IsLast
  <2>2. 1 \in Seqs
    BY BoundsAssumption DEF Seqs
  <2>3. FirstBaselineKept'
    BY <1>1, <1>2, <1>3, <1>5, <2>2 DEF IInv, LeftBehind, FirstBaselineKept, IsRow
  <2> QED BY <2>1, <2>3 DEF LeftBehind
<1>7. ManifestsAreSound'
  <2>1. \A m : ReferencesStay(m) => ReferencesStay(m)'
    <3> SUFFICES ASSUME NEW m, ReferencesStay(m), NEW k \in References(m)
                 PROVE  packages'[k.seq] = k /\ k.seq \in Cataloged' /\ catalog'[k.seq].pkg = k
                        /\ (k.kind = "rebaseline" => catalog'[k.seq].status = "published")
      BY <1>1 DEF ReferencesStay, References
    <3>1. k.seq \in Cataloged /\ packages[k.seq] = k /\ catalog[k.seq].pkg = k
      BY DEF ReferencesStay
    <3>2. k # None /\ k.seq \in Seqs
      BY <3>1, RowFields, PackageFields DEF IInv
    <3> QED BY <1>1, <1>3, <1>5, <3>1, <3>2 DEF ReferencesStay
  <2> QED BY <1>1, <2>1 DEF IInv, ManifestsAreSound, Links, References
<1>8. CatalogShape' /\ OpFollowsPc'
  BY <1>1, <1>2, CatalogStays DEF IInv, OpFollowsPc, Staging, Updating
<1>9. BuiltIsSound'
  BY <1>1, <1>2, <1>3, <1>5 DEF IInv, BuiltIsSound, IsRow, Staging, Updating
<1>10. BaselineIsCarried'
  BY <1>1, <1>5 DEF IInv, BaselineIsCarried, Carries, Ingested, IsLast, Staging
<1> QED BY <1>4, <1>6, <1>7, <1>8, <1>9, <1>10 DEF IInv

(* The manifest about to be served becomes the one served.                 *)
LEMMA ServeKeeps ==
  ASSUME IInv, PublishRemoteManifest
  PROVE  IInv'
<1>1. /\ UNCHANGED <<change, ingested, fetched, adopted, catalog, packages, pending, bootSlot>>
      /\ UNCHANGED <<op, group, target, built, resuming, crashes>>
      /\ pc = "serve" /\ pc' = (IF op = "rebaseline" THEN "adopt" ELSE "done")
      /\ manifest' = draft /\ draft' = None
  BY DEF PublishRemoteManifest, Goto, corpus
<1>2. /\ draft # None /\ ReferencesStay(draft) /\ Links(draft) /\ change \in Nat
      /\ op \in Updating \cup {"bootstrap"} /\ resuming = FALSE
  BY <1>1, BoundsAssumption DEF IInv, TypeOK, ManifestsAreSound, OpFollowsPc, Staging
<1>3. TypeOK'
  BY <1>1 DEF IInv, TypeOK, PcType
<1>4. Cataloged' = Cataloged
  BY <1>1 DEF Cataloged
<1>5. CatalogShape' /\ LeftBehind'
  BY <1>1, <1>2, CatalogStays, LeftBehindStays DEF IInv
<1>6. ManifestsAreSound'
  BY <1>1, <1>2, <1>4 DEF ManifestsAreSound, ReferencesStay, Links, References
<1>7. OpFollowsPc' /\ BuiltIsSound'
  BY <1>1, <1>2 DEF IInv, OpFollowsPc, BuiltIsSound, Staging, Updating
<1>8. BaselineIsCarried'
  BY <1>1, <1>2 DEF IInv, BaselineIsCarried, Carries, Ingested, Staging
<1> QED BY <1>3, <1>5, <1>6, <1>7, <1>8 DEF IInv

-----------------------------------------------------------------------------
(* Steps that change the catalog.                                          *)

(* Marking a row changes its status alone.                                 *)
LEMMA MarkKeeps ==
  ASSUME IInv, MarkPublished
  PROVE  IInv'
<1>1. /\ UNCHANGED <<change, ingested, fetched, adopted, packages, pending, bootSlot, manifest>>
      /\ UNCHANGED <<op, group, target, built, resuming, draft, crashes>>
      /\ pc = "mark" /\ pc' = "clean"
      /\ catalog' = [catalog EXCEPT ![built.seq].status = "published"]
  BY DEF MarkPublished, Goto, corpus
<1>2. /\ change \in Nat /\ built \in PackageType /\ IsRow(built) /\ built.seq \in Cataloged
      /\ op \in Updating \cup {"bootstrap"} /\ packages[built.seq] # None
  BY <1>1, BoundsAssumption DEF IInv, TypeOK, OpFollowsPc, BuiltIsSound, IsRow, Staging
<1> DEFINE row == [catalog[built.seq] EXCEPT !.status = "published"]
<1>3. /\ catalog[built.seq] \in RowType /\ built.seq \in Seqs
      /\ row \in RowType /\ row.pkg = catalog[built.seq].pkg /\ row.status = "published"
  BY <1>2, RowFields DEF IInv, RowType
<1>4. /\ catalog' = [catalog EXCEPT ![built.seq] = row]
      /\ catalog' \in [Seqs -> {None} \cup RowType]
      /\ Cataloged' = Cataloged
      /\ \A s \in Cataloged : catalog'[s].pkg = catalog[s].pkg
      /\ \A s \in Cataloged : catalog'[s].status = (IF s = built.seq THEN "published" ELSE catalog[s].status)
  <2>1. catalog' = [catalog EXCEPT ![built.seq] = row]
    BY <1>1
  <2>2. catalog \in [Seqs -> {None} \cup RowType] /\ row # None
    BY <1>3, NoneAssumption DEF IInv, TypeOK
  <2> HIDE DEF row
  <2> QED BY <1>2, <1>3, <2>1, <2>2 DEF Cataloged
<1> HIDE DEF row
<1>5. TypeOK'
  BY <1>1, <1>4 DEF IInv, TypeOK, PcType
<1>6. CatalogShape'
  <2>1. CatalogIsPrefix' /\ FirstIsBaseline' /\ HighsGrow'
    BY <1>1, <1>4 DEF IInv, CatalogShape, CatalogIsPrefix, FirstIsBaseline, HighsGrow
  <2>2. CatalogIsChain'
    BY <1>4 DEF IInv, CatalogShape, CatalogIsChain
  <2>3. GenerationsInherited'
    <3> SUFFICES ASSUME NEW s \in Cataloged, NEW t \in Cataloged, t <= s,
                        \A u \in t + 1 .. s : catalog'[u].pkg.kind = "incremental"
                 PROVE  catalog'[s].pkg.gen = catalog'[t].pkg.gen
      BY <1>4 DEF GenerationsInherited
    <3>1. \A u \in t + 1 .. s : u \in Cataloged
      BY RowFields DEF IInv, CatalogShape, CatalogIsPrefix
    <3>2. \A u \in t + 1 .. s : catalog[u].pkg.kind = "incremental"
      BY <1>4, <3>1
    <3> QED BY <1>4, <3>2 DEF IInv, CatalogShape, GenerationsInherited
  <2> QED BY <2>1, <2>2, <2>3 DEF CatalogShape
<1>7. LeftBehind'
  <2>1. 1 \in Cataloged => catalog'[1].pkg = catalog[1].pkg
    BY <1>4
  <2>2. FirstBaselineKept'
    BY <1>1, <1>4, <2>1 DEF IInv, LeftBehind, FirstBaselineKept
  <2>3. SlotMatchesRow' /\ OpenRows'
    BY <1>1, <1>4 DEF IInv, LeftBehind, SlotMatchesRow, OpenRows, IsLast
  <2> QED BY <2>2, <2>3 DEF LeftBehind
<1>8. ManifestsAreSound'
  BY <1>1, <1>4 DEF IInv, ManifestsAreSound, ReferencesStay, Links, References
<1>9. OpFollowsPc' /\ BuiltIsSound'
  BY <1>1, <1>2, <1>4 DEF IInv, OpFollowsPc, BuiltIsSound, IsRow, Staging, Updating
<1>10. BaselineIsCarried'
  BY <1>1, <1>4 DEF IInv, BaselineIsCarried, Carries, Ingested, IsLast, Staging
<1> QED BY <1>5, <1>6, <1>7, <1>8, <1>9, <1>10 DEF IInv

(* A rebaseline run takes back the row of the rebaseline it found staged:  *)
(* the newest one, which no manifest references.                           *)
LEMMA DiscardKeeps ==
  ASSUME IInv, ResumeDiscard
  PROVE  IInv'
<1>1. /\ UNCHANGED <<change, ingested, fetched, adopted, packages, pending, bootSlot, manifest>>
      /\ UNCHANGED <<op, group, target, built, resuming, draft, crashes>>
      /\ pc = "resume" /\ pc' = "discard" /\ pending \notin {None, Torn} /\ DiscardsSlot
      /\ catalog' = [catalog EXCEPT ![pending.seq] =
                       IF @ # None /\ @.status = "built" THEN None ELSE @]
  BY DEF ResumeDiscard, Goto, corpus
<1>2. /\ pending \in PackageType /\ pending.seq \in Seqs /\ op \in Updating /\ resuming = FALSE
      /\ change \in Nat
  BY <1>1, PackageFields, BoundsAssumption DEF IInv, TypeOK, OpFollowsPc, Staging
<1>3. OpFollowsPc'
  BY <1>1, <1>2 DEF IInv, OpFollowsPc, Staging, Updating
<1>4. BaselineIsCarried'
  <2>1. Ingested(change) => Ingested(change)'
    BY <1>1 DEF Ingested
  <2> QED BY <1>1, <1>2, <2>1 DEF IInv, BaselineIsCarried, Staging
<1>5. CASE ~(catalog[pending.seq] # None /\ catalog[pending.seq].status = "built")
  <2>1. catalog' = catalog
    BY <1>1, <1>2, <1>5 DEF IInv, TypeOK
  <2>2. TypeOK'
    BY <1>1, <2>1 DEF IInv, TypeOK, PcType
  <2>3. pending.seq \in Cataloged => catalog[pending.seq].status = "published"
    BY <1>2, <1>5, RowFields DEF IInv, Cataloged
  <2>4. Cataloged' = Cataloged
    BY <2>1 DEF Cataloged
  <2>5. BuiltIsSound'
    BY <1>1, <1>2, <2>1, <2>3, <2>4 DEF BuiltIsSound, Staging, Updating
  <2> QED BY <1>1, <1>2, <1>3, <1>4, <2>1, <2>2, <2>5, TablesStay
<1>6. CASE catalog[pending.seq] # None /\ catalog[pending.seq].status = "built"
  <2> DEFINE n == pending.seq
  <2>1. /\ n \in Cataloged /\ n > 1 /\ IsLast(n) /\ catalog[n].pkg = pending
        /\ pending.kind = "rebaseline" /\ catalog[n].status = "built"
    BY <1>1, <1>2, <1>6, PackageFields
    DEF IInv, LeftBehind, SlotMatchesRow, OpenRows, DiscardsSlot, Cataloged
  <2>2. /\ catalog' = [catalog EXCEPT ![n] = None]
        /\ catalog' \in [Seqs -> {None} \cup RowType]
    BY <1>1, <1>6 DEF IInv, TypeOK
  <2> HIDE DEF n
  <2>3. /\ Cataloged' = Cataloged \ {n}
        /\ \A s \in Cataloged : s # n => s < n /\ catalog'[s] = catalog[s]
    BY <2>1, <2>2, RowFields DEF IInv, TypeOK, Cataloged, IsLast
  <2>4. TypeOK'
    BY <1>1, <2>2 DEF IInv, TypeOK, PcType
  <2>5. CatalogShape'
    <3>1. CatalogIsPrefix'
      <4> SUFFICES ASSUME NEW s \in Cataloged, s # n, NEW t \in 1..s PROVE t \in Cataloged /\ t # n
        BY <2>3 DEF CatalogIsPrefix
      <4>1. t <= s /\ s < n /\ n \in Nat /\ s \in Nat /\ t \in Nat
        BY <2>1, <2>3, RowFields DEF IInv
      <4> QED BY <4>1 DEF IInv, CatalogShape, CatalogIsPrefix
    <3>2. CatalogIsChain'
      <4> SUFFICES ASSUME NEW s \in Cataloged, s # n
                   PROVE  /\ catalog'[s].pkg.seq = s
                          /\ s > 1 => /\ s - 1 \in Cataloged \ {n}
                                      /\ catalog'[s].pkg.low = catalog'[s - 1].pkg.high
                                      /\ catalog'[s].pkg.prev = PayloadOf(catalog'[s - 1].pkg)
        BY <2>3 DEF CatalogIsChain, PayloadOf
      <4>1. s < n /\ n \in Nat /\ s \in Nat /\ catalog'[s] = catalog[s]
        BY <2>1, <2>3, RowFields DEF IInv
      <4>2. s > 1 => s - 1 \in Cataloged /\ s - 1 # n
        BY <4>1 DEF IInv, CatalogShape, CatalogIsChain
      <4> QED BY <2>3, <4>1, <4>2 DEF IInv, CatalogShape, CatalogIsChain
    <3>3. FirstIsBaseline' /\ HighsGrow'
      BY <1>1, <2>3 DEF IInv, CatalogShape, FirstIsBaseline, HighsGrow
    <3>4. GenerationsInherited'
      <4> SUFFICES ASSUME NEW s \in Cataloged, NEW t \in Cataloged, s # n, t # n, t <= s,
                          \A u \in t + 1 .. s : catalog'[u].pkg.kind = "incremental"
                   PROVE  catalog'[s].pkg.gen = catalog'[t].pkg.gen
        BY <2>3 DEF GenerationsInherited
      <4>1. s < n /\ n \in Nat /\ s \in Nat /\ t \in Nat
        BY <2>1, <2>3, RowFields DEF IInv
      <4>2. \A u \in t + 1 .. s : u \in Cataloged /\ u # n
        BY <4>1 DEF IInv, CatalogShape, CatalogIsPrefix
      <4>3. \A u \in t + 1 .. s : catalog[u].pkg.kind = "incremental"
        BY <2>3, <4>2
      <4> QED BY <2>3, <4>3 DEF IInv, CatalogShape, GenerationsInherited
    <3> QED BY <3>1, <3>2, <3>3, <3>4 DEF CatalogShape
  <2>6. LeftBehind'
    <3>1. SlotMatchesRow'
      BY <1>1, <2>1, <2>3 DEF IInv, LeftBehind, SlotMatchesRow, n
    <3>2. OpenRows'
      BY <1>1, <2>1, <2>3, RowFields DEF IInv, LeftBehind, OpenRows, IsLast
    <3>3. 1 \in Cataloged => 1 # n /\ catalog'[1] = catalog[1]
      BY <2>1, <2>3
    <3>4. FirstBaselineKept'
      BY <1>1, <2>3, <3>3 DEF IInv, LeftBehind, FirstBaselineKept
    <3> QED BY <3>1, <3>2, <3>4 DEF LeftBehind
  <2>7. ManifestsAreSound'
    <3>1. ASSUME NEW m, ReferencesStay(m) PROVE ReferencesStay(m)'
      <4>1. \A k \in References(m) : k.seq # n
        BY <2>1, <3>1 DEF ReferencesStay
      <4> QED BY <1>1, <2>3, <3>1, <4>1 DEF ReferencesStay, References
    <3> QED BY <1>1, <3>1 DEF IInv, ManifestsAreSound, Links, References
  <2>8. BuiltIsSound'
    BY <1>1, <1>2, <2>3 DEF BuiltIsSound, Staging, Updating, n
  <2> QED BY <1>3, <1>4, <2>4, <2>5, <2>6, <2>7, <2>8 DEF IInv
<1> QED BY <1>5, <1>6

(* The row of a new package: the first one, or the next after the last.    *)
LEMMA InsertKeeps ==
  ASSUME IInv, InsertCatalogRow
  PROVE  IInv'
<1> DEFINE n == built.seq
           row == [pkg |-> built, status |-> "built"]
<1>1. /\ UNCHANGED <<change, ingested, fetched, adopted, packages, pending, bootSlot, manifest>>
      /\ UNCHANGED <<op, group, target, built, resuming, draft, crashes>>
      /\ pc = "catalog" /\ pc' = "publish" /\ catalog' = [catalog EXCEPT ![n] = row]
  BY DEF InsertCatalogRow, Goto, corpus
<1>2. /\ built \in PackageType /\ Extends(built) /\ n \in Seqs /\ n \notin Cataloged /\ n \in Nat
      /\ change \in Nat /\ op \in Updating \cup {"bootstrap"} /\ resuming = FALSE
      /\ built.high \in Nat /\ built.high <= change
  BY <1>1, PackageFields, BoundsAssumption
  DEF IInv, TypeOK, OpFollowsPc, BuiltIsSound, Extends, Staging
<1>3. row \in RowType /\ row.pkg = built /\ row.status = "built" /\ row # None
  BY <1>2, NoneAssumption DEF RowType
<1> HIDE DEF row
<1>4. /\ Cataloged' = Cataloged \cup {n}
      /\ \A s \in Cataloged : s # n /\ catalog'[s] = catalog[s]
      /\ catalog'[n] = row
      /\ catalog' \in [Seqs -> {None} \cup RowType]
  BY <1>1, <1>2, <1>3 DEF IInv, TypeOK, Cataloged
<1> HIDE DEF n
(* Either the catalog was empty, or its last row is the one before.        *)
<1>5. \/ op = "bootstrap" /\ built = bootSlot /\ Cataloged = {} /\ n = 1 /\ built.kind = "baseline"
      \/ /\ op \in Updating /\ built = pending /\ built.kind \in {"incremental", "rebaseline"}
         /\ \E s \in Cataloged :
              /\ IsLast(s) /\ n = s + 1 /\ s \in Nat /\ s >= 1
              /\ built.low = catalog[s].pkg.high /\ built.prev = PayloadOf(catalog[s].pkg)
              /\ catalog[s].pkg.high <= built.high
              /\ built.kind = "incremental" => built.gen = catalog[s].pkg.gen
  <2>1. CASE op = "bootstrap"
    <3>1. built = bootSlot /\ Cataloged = {}
      BY <1>2, <2>1 DEF Extends, Updating
    <3>2. built # None
      BY <1>2, PackageFields
    <3> QED BY <2>1, <3>1, <3>2 DEF IInv, LeftBehind, FirstBaselineKept, n
  <2>2. CASE op # "bootstrap"
    BY <1>2, <2>2, RowFields DEF Extends, Updating, IInv, n
  <2> QED BY <2>1, <2>2
<1>6. \A s \in Cataloged : s \in Nat /\ s >= 1 /\ s < n
  BY <1>5, RowFields DEF IInv, IsLast
<1>7. n \in Cataloged' /\ \A t \in Cataloged' : t <= n
  BY <1>2, <1>4, <1>6
<1>8. n >= 1 /\ \A t \in 1..(n - 1) : t \in Cataloged
  <2>1. CASE Cataloged = {}
    BY <1>5, <2>1
  <2>2. CASE Cataloged # {}
    <3>1. PICK s \in Cataloged : n = s + 1 /\ s \in Nat /\ s >= 1
      BY <1>5, <2>2
    <3> QED BY <3>1 DEF IInv, CatalogShape, CatalogIsPrefix
  <2> QED BY <2>1, <2>2
<1>9. TypeOK'
  BY <1>1, <1>4 DEF IInv, TypeOK, PcType
<1>10. CatalogShape'
  <2>1. CatalogIsPrefix'
    <3> SUFFICES ASSUME NEW s \in Cataloged', NEW t \in 1..s PROVE t \in Cataloged'
      BY DEF CatalogIsPrefix
    <3>1. CASE s = n
      BY <1>2, <1>4, <1>8, <3>1
    <3>2. CASE s # n
      BY <1>4, <3>2 DEF IInv, CatalogShape, CatalogIsPrefix
    <3> QED BY <3>1, <3>2
  <2>2. CatalogIsChain'
    <3> SUFFICES ASSUME NEW s \in Cataloged'
                 PROVE  /\ catalog'[s].pkg.seq = s
                        /\ s > 1 => /\ s - 1 \in Cataloged
                                    /\ catalog'[s].pkg.low = catalog'[s - 1].pkg.high
                                    /\ catalog'[s].pkg.prev = PayloadOf(catalog'[s - 1].pkg)
      BY <1>4 DEF CatalogIsChain, PayloadOf
    <3>1. CASE s = n
      <4>1. n > 1 => n - 1 \in Cataloged /\ built.low = catalog[n - 1].pkg.high
                     /\ built.prev = PayloadOf(catalog[n - 1].pkg)
        <5> SUFFICES ASSUME n > 1 PROVE n - 1 \in Cataloged /\ built.low = catalog[n - 1].pkg.high
                                        /\ built.prev = PayloadOf(catalog[n - 1].pkg)
          OBVIOUS
        <5>1. PICK u \in Cataloged : n = u + 1 /\ u \in Nat /\ built.low = catalog[u].pkg.high
                                     /\ built.prev = PayloadOf(catalog[u].pkg)
          BY <1>5
        <5>2. u = n - 1
          BY <1>2, <5>1
        <5> QED BY <5>1, <5>2
      <4> QED BY <1>3, <1>4, <3>1, <4>1 DEF n
    <3>2. CASE s # n
      <4>1. s \in Cataloged /\ catalog'[s] = catalog[s]
        BY <1>4, <3>2
      <4>2. s > 1 => s - 1 \in Cataloged
        BY <4>1 DEF IInv, CatalogShape, CatalogIsChain
      <4> QED BY <1>4, <4>1, <4>2 DEF IInv, CatalogShape, CatalogIsChain
    <3> QED BY <3>1, <3>2
  <2>3. FirstIsBaseline'
    <3>1. built.kind = "baseline" <=> n = 1
      BY <1>2, <1>5, <1>6
    <3> QED BY <1>3, <1>4, <3>1 DEF IInv, CatalogShape, FirstIsBaseline
  <2>4. HighsGrow'
    <3>1. \A s \in Cataloged : catalog[s].pkg.high <= built.high
      <4> SUFFICES ASSUME NEW s \in Cataloged PROVE catalog[s].pkg.high <= built.high
        OBVIOUS
      <4>1. PICK u \in Cataloged : IsLast(u) /\ catalog[u].pkg.high <= built.high
        BY <1>5
      <4>2. catalog[s].pkg.high <= catalog[u].pkg.high
        BY <4>1 DEF IsLast, IInv, CatalogShape, HighsGrow
      <4>3. catalog[s].pkg.high \in Nat /\ catalog[u].pkg.high \in Nat
        BY RowFields, PackageFields DEF IInv
      <4> QED BY <1>2, <4>1, <4>2, <4>3
    <3> SUFFICES ASSUME NEW s \in Cataloged'
                 PROVE  /\ catalog'[s].pkg.high <= change
                        /\ \A t \in Cataloged' : t <= s => catalog'[t].pkg.high <= catalog'[s].pkg.high
      BY <1>1 DEF HighsGrow
    <3>2. CASE s = n
      BY <1>2, <1>3, <1>4, <3>1, <3>2
    <3>3. CASE s # n
      <4>1. s \in Cataloged /\ ~(n <= s)
        BY <1>2, <1>4, <1>6, <3>3
      <4> QED BY <1>4, <4>1 DEF IInv, CatalogShape, HighsGrow
    <3> QED BY <3>2, <3>3
  <2>5. GenerationsInherited'
    <3> SUFFICES ASSUME NEW s \in Cataloged', NEW t \in Cataloged', t <= s,
                        \A u \in t + 1 .. s : catalog'[u].pkg.kind = "incremental"
                 PROVE  catalog'[s].pkg.gen = catalog'[t].pkg.gen
      BY DEF GenerationsInherited
    <3>0. s \in Nat /\ t \in Nat /\ s <= n /\ t >= 1
      BY <1>2, <1>4, <1>6, <1>8
    <3>1. CASE s # n
      <4>1. s \in Cataloged /\ t \in Cataloged /\ s < n
        BY <1>4, <1>6, <3>0, <3>1
      <4>2. \A u \in t + 1 .. s : u \in Cataloged
        BY <3>0, <4>1 DEF IInv, CatalogShape, CatalogIsPrefix
      <4>3. \A u \in t + 1 .. s : catalog[u].pkg.kind = "incremental"
        BY <1>4, <4>2
      <4> QED BY <1>4, <4>1, <4>3 DEF IInv, CatalogShape, GenerationsInherited
    <3>2. CASE s = n /\ t # n
      <4>1. t \in Cataloged /\ n \in t + 1 .. s /\ t < n
        BY <1>4, <1>6, <3>0, <3>2
      <4>2. built.kind = "incremental"
        BY <1>3, <1>4, <4>1
      <4>3. PICK u \in Cataloged : IsLast(u) /\ n = u + 1 /\ u \in Nat /\ built.gen = catalog[u].pkg.gen
        BY <1>5, <4>1, <4>2
      <4>4. t <= u /\ \A v \in t + 1 .. u : v \in t + 1 .. s /\ v \in Cataloged
        BY <3>0, <3>2, <4>1, <4>3 DEF IInv, CatalogShape, CatalogIsPrefix
      <4>5. \A v \in t + 1 .. u : catalog[v].pkg.kind = "incremental"
        BY <1>4, <4>4
      <4>6. catalog[u].pkg.gen = catalog[t].pkg.gen
        BY <4>1, <4>4, <4>5 DEF IInv, CatalogShape, GenerationsInherited
      <4> QED BY <1>3, <1>4, <3>2, <4>1, <4>3, <4>6
    <3>3. CASE s = n /\ t = n
      BY <3>3
    <3> QED BY <3>1, <3>2, <3>3
  <2> QED BY <2>1, <2>2, <2>3, <2>4, <2>5 DEF CatalogShape
<1>11. LeftBehind'
  <2>1. SlotMatchesRow'
    <3>1. SUFFICES ASSUME pending \notin {None, Torn}, pending.seq = n PROVE pending = built
      BY <1>1, <1>3, <1>4 DEF IInv, LeftBehind, SlotMatchesRow
    <3>2. n > 1
      BY <3>1 DEF IInv, LeftBehind, SlotMatchesRow
    <3> QED BY <1>5, <3>2
  <2>2. OpenRows'
    <3> SUFFICES ASSUME NEW s \in Cataloged', catalog'[s].status = "built", s # 1
                 PROVE  IsLast(s)' /\ pending = catalog'[s].pkg
      BY <1>1 DEF OpenRows
    <3>1. CASE s = n
      <4>1. IsLast(s)'
        BY <1>7, <3>1 DEF IsLast
      <4>2. built = pending
        BY <1>5, <3>1
      <4> QED BY <1>3, <1>4, <3>1, <4>1, <4>2
    <3>2. CASE s # n
      <4>1. s \in Cataloged /\ catalog'[s] = catalog[s]
        BY <1>4, <3>2
      <4>2. IsLast(s) /\ pending = catalog[s].pkg
        BY <4>1 DEF IInv, LeftBehind, OpenRows
      <4>3. pending.seq = s
        BY <4>1, <4>2 DEF IInv, CatalogShape, CatalogIsChain
      <4>4. built = pending
        BY <1>5, <4>1
      <4> QED BY <3>2, <4>3, <4>4 DEF n
    <3> QED BY <3>1, <3>2
  <2>3. FirstBaselineKept'
    <3>1. CASE n = 1
      <4>1. op = "bootstrap" /\ built = bootSlot /\ 1 \notin Cataloged /\ bootSlot # None
        BY <1>2, <1>5, <1>6, <3>1, PackageFields
      <4> QED BY <1>1, <1>3, <1>4, <3>1, <4>1 DEF IInv, LeftBehind, FirstBaselineKept
    <3>2. CASE n # 1
      <4>1. 1 \in Cataloged => catalog'[1] = catalog[1]
        BY <1>4
      <4> QED BY <1>1, <1>4, <3>2, <4>1 DEF IInv, LeftBehind, FirstBaselineKept
    <3> QED BY <3>1, <3>2
  <2> QED BY <2>1, <2>2, <2>3 DEF LeftBehind
<1>12. ManifestsAreSound'
  BY <1>1, <1>4 DEF IInv, ManifestsAreSound, ReferencesStay, Links, References
<1>13. OpFollowsPc'
  BY <1>1, <1>2 DEF IInv, OpFollowsPc, Staging, Updating
<1>14. BuiltIsSound'
  <2>1. IsRow(built)'
    BY <1>1, <1>3, <1>4, <1>5 DEF IsRow, n, Updating
  <2>2. op = "bootstrap" => \A s \in Cataloged' : catalog'[s].pkg.kind # "rebaseline"
    BY <1>3, <1>4, <1>5 DEF Updating
  <2> QED BY <1>1, <1>2, <2>1, <2>2 DEF BuiltIsSound, Staging, Updating
<1>15. BaselineIsCarried'
  <2>1. op = "rebaseline" => Carries(built)
    BY <1>1, <1>2 DEF IInv, BaselineIsCarried
  <2>2. op = "rebaseline" => Carries(built)'
    BY <1>1, <2>1 DEF Carries, Ingested
  <2>3. IsLast(built.seq)'
    BY <1>1, <1>7 DEF n, IsLast
  <2> QED BY <1>1, <1>2, <2>2, <2>3 DEF BaselineIsCarried, Staging
<1> QED BY <1>9, <1>10, <1>11, <1>12, <1>13, <1>14, <1>15 DEF IInv

-----------------------------------------------------------------------------
(* The manifest a run builds.                                              *)

(* Past the media root there are only incrementals, up to the last row.    *)
LEMMA AfterTheMedia ==
  ASSUME TypeOK, CatalogShape, NEW n \in Cataloged, IsLast(n),
         NEW m \in Cataloged, \A t \in Media : t <= m
  PROVE  /\ m \in Nat /\ n \in Nat /\ m >= 1 /\ m <= n
         /\ \A s \in m + 1 .. n : s \in Cataloged /\ catalog[s].pkg.kind = "incremental"
         /\ {s \in Cataloged : s > m /\ catalog[s].pkg.kind = "incremental"} = m + 1 .. n
<1>1. m \in Nat /\ n \in Nat /\ m >= 1 /\ m <= n
  BY RowFields DEF IsLast
<1>2. ASSUME NEW s \in m + 1 .. n PROVE s \in Cataloged /\ catalog[s].pkg.kind = "incremental"
  <2>1. s \in Cataloged
    BY <1>1 DEF CatalogShape, CatalogIsPrefix
  <2>2. s \notin Media
    BY <1>1
  <2>3. catalog[s].pkg.kind \in {"baseline", "rebaseline", "incremental"}
    BY <2>1, RowFields, PackageFields
  <2> QED BY <2>1, <2>2, <2>3 DEF Media, MediaKinds
<1>3. ASSUME NEW s \in Cataloged, s > m PROVE s \in m + 1 .. n
  <2>1. s \in Nat /\ s <= n
    BY RowFields DEF IsLast
  <2> QED BY <1>1, <1>3, <2>1
<1>4. {s \in Cataloged : s > m /\ catalog[s].pkg.kind = "incremental"} = m + 1 .. n
  <2>1. \A s \in m + 1 .. n : s > m
    BY <1>1
  <2> QED BY <1>2, <1>3, <2>1
<1> QED BY <1>1, <1>2, <1>4

(* The window: the newest MaxRetained of them.                             *)
LEMMA RetainedIsWindow ==
  ASSUME TypeOK, CatalogShape, NEW n \in Cataloged, IsLast(n),
         NEW m \in Cataloged, \A t \in Media : t <= m
  PROVE  Retained(m) = {s \in m + 1 .. n : n - s < MaxRetained}
<1> DEFINE after == {s \in Cataloged : s > m /\ catalog[s].pkg.kind = "incremental"}
<1>1. m \in Nat /\ n \in Nat /\ after = m + 1 .. n
  BY AfterTheMedia
<1>2. Retained(m) = {s \in after : Cardinality({t \in after : t > s}) < MaxRetained}
  BY DEF Retained
<1> HIDE DEF after
<1>3. ASSUME NEW s \in m + 1 .. n PROVE Cardinality({t \in after : t > s}) = n - s
  <2>1. {t \in after : t > s} = s + 1 .. n
    BY <1>1
  <2>2. s \in Nat /\ s <= n /\ s + 1 \in Int /\ n \in Int
    BY <1>1
  <2>3. Cardinality(s + 1 .. n) = IF s + 1 > n THEN 0 ELSE n - (s + 1) + 1
    BY <2>2, FS_Interval
  <2>4. Cardinality(s + 1 .. n) = n - s
    BY <1>1, <2>2, <2>3
  <2> QED BY <2>1, <2>4, Zenon
<1> QED BY <1>1, <1>2, <1>3

(* Packages of distinct rows are distinct.                                 *)
LEMMA PackagesOfRows ==
  ASSUME TypeOK, CatalogShape, NEW R \in SUBSET Cataloged, IsFiniteSet(R),
         \A s \in R : packages[s] = catalog[s].pkg
  PROVE  Cardinality({packages[s] : s \in R}) = Cardinality(R)
<1> DEFINE T == {packages[s] : s \in R}
           f == [s \in R |-> packages[s]]
<1>1. f \in [R -> T] /\ \A k \in T : \E s \in R : f[s] = k
  OBVIOUS
<1>2. ASSUME NEW s \in R, NEW t \in R, f[s] = f[t] PROVE s = t
  <2>1. f[s].seq = s /\ f[t].seq = t
    BY DEF CatalogShape, CatalogIsChain
  <2> QED BY <1>2, <2>1
<1> HIDE DEF f, T
<1>3. f \in Bijection(R, T)
  BY <1>1, <1>2 DEF Bijection, Injection, Surjection, IsInjective
<1>4. ExistsBijection(R, T)
  BY <1>3 DEF ExistsBijection
<1> QED BY <1>4, FS_Bijection DEF T

LEMMA ManifestKeeps ==
  ASSUME IInv, BuildRemoteManifest
  PROVE  IInv'
<1> DEFINE m == Newest(Media)
           R == Retained(m)
<1>1. /\ UNCHANGED <<change, ingested, fetched, adopted, catalog, packages, pending, bootSlot, manifest>>
      /\ UNCHANGED <<op, group, target, built, resuming, crashes>>
      /\ pc = "manifest" /\ pc' = "serve" /\ Media # {}
      /\ packages[m] = catalog[m].pkg /\ \A s \in R : packages[s] = catalog[s].pkg
      /\ draft' = [media |-> packages[m], incs |-> {packages[s] : s \in R}]
  BY DEF BuildRemoteManifest, ManifestBuildable, NewManifest, Verified, Goto, corpus, durable
<1>2. /\ change \in Nat /\ op \in Updating \cup {"bootstrap"} /\ resuming = FALSE
      /\ op \in Updating => pending = None
      /\ op = "bootstrap" => \A s \in Cataloged : catalog[s].pkg.kind # "rebaseline"
  BY <1>1, BoundsAssumption DEF IInv, TypeOK, OpFollowsPc, BuiltIsSound, Staging
<1>3. m \in Media /\ m \in Cataloged /\ \A t \in Media : t <= m
  <2>1. Media \in SUBSET Seqs
    BY DEF Media, Cataloged
  <2>2. m \in Media /\ \A t \in Media : t <= m
    BY <1>1, <2>1, NewestIsGreatest
  <2> QED BY <2>2 DEF Media
<1> HIDE DEF m, R
<1>4. PICK n \in Cataloged : IsLast(n)
  BY <1>3, LatestIsLast DEF IInv
<1>5. /\ m \in Nat /\ n \in Nat /\ m >= 1 /\ m <= n /\ MaxRetained \in Nat /\ MaxRetained > 0
      /\ \A s \in m + 1 .. n : s \in Cataloged /\ catalog[s].pkg.kind = "incremental"
  BY <1>3, <1>4, AfterTheMedia, BoundsAssumption DEF IInv
<1>6. R = {s \in m + 1 .. n : n - s < MaxRetained}
  BY <1>3, <1>4, RetainedIsWindow DEF IInv, R
<1>7. \A s \in {m} \cup R : /\ s \in Cataloged /\ s \in Nat
                            /\ packages[s] = catalog[s].pkg /\ catalog[s].pkg \in PackageType
                            /\ catalog[s].pkg.seq = s
  BY <1>1, <1>3, <1>5, <1>6, RowFields DEF IInv, CatalogShape, CatalogIsChain
<1>8. References(draft') = {packages[s] : s \in {m} \cup R}
  BY <1>1 DEF References
<1>9. \A k \in References(draft') :
        \E s \in {m} \cup R : k = packages[s] /\ k = catalog[s].pkg /\ k.seq = s /\ s \in Cataloged
  BY <1>7, <1>8
<1>10. TypeOK'
  <2>1. draft' \in ManifestType
    BY <1>1, <1>7 DEF ManifestType
  <2> QED BY <1>1, <2>1 DEF IInv, TypeOK, PcType
<1>11. Cataloged' = Cataloged
  BY <1>1 DEF Cataloged
<1>12. ReferencesStay(draft)'
  <2>1. ASSUME NEW k \in References(draft')
        PROVE  /\ packages[k.seq] = k /\ k.seq \in Cataloged /\ catalog[k.seq].pkg = k
               /\ k.kind = "rebaseline" => catalog[k.seq].status = "published"
    <3>1. PICK s \in {m} \cup R : k = packages[s] /\ k = catalog[s].pkg /\ k.seq = s /\ s \in Cataloged
      BY <1>9
    <3>2. ASSUME k.kind = "rebaseline", catalog[s].status # "published" PROVE FALSE
      <4>1. catalog[s].status = "built" /\ s # 1
        BY <3>1, <3>2, RowFields DEF IInv, CatalogShape, FirstIsBaseline
      <4>2. pending = k
        BY <3>1, <4>1 DEF IInv, LeftBehind, OpenRows
      <4>3. op \in Updating
        BY <1>2, <3>1, <3>2
      <4>4. k # None
        BY <3>1, RowFields, PackageFields DEF IInv
      <4> QED BY <1>2, <4>2, <4>3, <4>4
    <3> QED BY <3>1, <3>2
  <2> QED BY <1>1, <1>11, <2>1 DEF ReferencesStay, References
<1>13. Links(draft)'
  <2> SUFFICES ASSUME NEW k \in draft'.incs
               PROVE  /\ k.gen = draft'.media.gen
                      /\ \A j \in References(draft') : j.seq + 1 = k.seq =>
                           k.low = j.high /\ k.prev = PayloadOf(j)
                      /\ \/ \E j \in References(draft') : j.seq + 1 = k.seq
                         \/ /\ Cardinality(draft'.incs) = MaxRetained
                            /\ \A j \in draft'.incs : k.seq <= j.seq
    BY DEF Links, References, PayloadOf
  <2>1. PICK s \in R : k = packages[s]
    BY <1>1
  <2>2. /\ s \in m + 1 .. n /\ n - s < MaxRetained /\ s \in Nat /\ s > m /\ s <= n
        /\ k = catalog[s].pkg /\ k.seq = s /\ s \in Cataloged
    BY <1>5, <1>6, <1>7, <2>1
  <2>3. k.gen = draft'.media.gen
    <3>1. \A u \in m + 1 .. s : u \in m + 1 .. n
      BY <1>5, <2>2
    <3>2. m <= s /\ \A u \in m + 1 .. s : catalog[u].pkg.kind = "incremental"
      BY <1>5, <2>2, <3>1
    <3>3. catalog[s].pkg.gen = catalog[m].pkg.gen
      BY <1>3, <2>2, <3>2 DEF IInv, CatalogShape, GenerationsInherited
    <3> QED BY <1>1, <2>2, <3>3
  <2>4. ASSUME NEW j \in References(draft'), j.seq + 1 = k.seq
        PROVE  k.low = j.high /\ k.prev = PayloadOf(j)
    <3>1. PICK t \in {m} \cup R : j = catalog[t].pkg /\ j.seq = t
      BY <1>9
    <3>2. t = s - 1 /\ s > 1
      BY <1>5, <1>7, <2>2, <2>4, <3>1
    <3> QED BY <2>2, <3>1, <3>2 DEF IInv, CatalogShape, CatalogIsChain
  <2>5. CASE s - 1 \in {m} \cup R
    <3>1. packages[s - 1] \in References(draft') /\ packages[s - 1].seq = s - 1
      BY <1>7, <1>8, <2>5
    <3> QED BY <2>2, <2>3, <2>4, <3>1
  <2>6. CASE s - 1 \notin {m} \cup R
    <3>1. s - 1 \in m + 1 .. n
      BY <1>5, <2>2, <2>6
    <3>2. n - s + 1 = MaxRetained
      BY <1>5, <1>6, <2>2, <2>6, <3>1
    <3>3. R = s .. n
      <4>1. ASSUME NEW u \in R PROVE u \in s .. n
        BY <1>5, <1>6, <2>2, <3>2
      <4>2. ASSUME NEW u \in s .. n PROVE u \in R
        BY <1>5, <1>6, <2>2, <3>2
      <4> QED BY <4>1, <4>2
    <3>4. IsFiniteSet(R) /\ Cardinality(R) = MaxRetained
      <4>1. IsFiniteSet(s .. n) /\ Cardinality(s .. n) = IF s > n THEN 0 ELSE n - s + 1
        BY <1>5, <2>2, FS_Interval
      <4> QED BY <1>5, <2>2, <3>2, <3>3, <4>1
    <3>5. Cardinality(draft'.incs) = MaxRetained
      <4>1. R \in SUBSET Cataloged /\ \A u \in R : packages[u] = catalog[u].pkg
        BY <1>7
      <4>2. Cardinality({packages[u] : u \in R}) = Cardinality(R)
        BY <3>4, <4>1, PackagesOfRows DEF IInv
      <4> QED BY <1>1, <3>4, <4>2
    <3>6. \A j \in draft'.incs : k.seq <= j.seq
      <4> SUFFICES ASSUME NEW u \in R PROVE s <= packages[u].seq
        BY <1>1, <2>2
      <4> QED BY <1>5, <1>7, <2>2, <3>3
    <3> QED BY <2>3, <2>4, <3>5, <3>6
  <2> QED BY <2>5, <2>6
<1>14. EndsWithLast(draft)'
  <2>1. n \in {m} \cup R
    BY <1>5, <1>6
  <2>2. packages[n] \in References(draft') /\ packages[n].seq = n
    BY <1>7, <1>8, <2>1
  <2>3. IsLast(n)'
    BY <1>4, <1>11 DEF IsLast
  <2> QED BY <2>2, <2>3 DEF EndsWithLast, IsLast, References
<1>15. ManifestsAreSound'
  <2>1. draft' # None
    <3>1. draft' \in ManifestType
      BY <1>1, <1>7 DEF ManifestType
    <3> QED BY <3>1, NoneAssumption
  <2>2. manifest # None => ReferencesStay(manifest)' /\ Links(manifest)'
    BY <1>1, <1>11 DEF IInv, ManifestsAreSound, ReferencesStay, Links, References
  <2> QED BY <1>1, <1>12, <1>13, <1>14, <2>1, <2>2 DEF ManifestsAreSound
<1>16. CatalogShape' /\ LeftBehind'
  BY <1>1, <1>2, CatalogStays, LeftBehindStays DEF IInv
<1>17. OpFollowsPc' /\ BuiltIsSound'
  BY <1>1, <1>2 DEF IInv, OpFollowsPc, BuiltIsSound, Staging, Updating
<1>18. BaselineIsCarried'
  <2>1. ASSUME op = "rebaseline" PROVE Carries(draft.media)'
    <3>1. PICK s \in Cataloged : IsLast(s) /\ Carries(catalog[s].pkg)
      BY <1>1, <2>1 DEF IInv, BaselineIsCarried
    <3>2. s \in Media
      BY <3>1 DEF Carries, Media, MediaKinds
    <3>3. s = m
      BY <1>3, <1>5, <3>1, <3>2, RowFields DEF IsLast, IInv
    <3>4. draft'.media = catalog[s].pkg
      BY <1>1, <3>3
    <3> QED BY <1>1, <3>1, <3>4 DEF Carries, Ingested
  <2> QED BY <1>1, <1>2, <2>1 DEF BaselineIsCarried, Staging
<1> QED BY <1>10, <1>15, <1>16, <1>17, <1>18 DEF IInv

-----------------------------------------------------------------------------
(* The invariant.                                                          *)

LEMMA InitKeeps == Init => IInv
<1> SUFFICES ASSUME Init PROVE IInv
  OBVIOUS
<1>1. Cataloged = {}
  BY DEF Init, Cataloged
<1>2. TypeOK
  <2>1. /\ 0 \in 0..MaxChange /\ 0 \in 0..MaxBaselines /\ 0 \in 0..MaxCrashes
        /\ "idle" \in PcType
    BY BoundsAssumption DEF PcType
  <2> QED BY <2>1 DEF Init, TypeOK
<1>3. CatalogShape
  BY <1>1 DEF CatalogShape, CatalogIsPrefix, CatalogIsChain, FirstIsBaseline, HighsGrow,
              GenerationsInherited
<1>4. LeftBehind
  <2>1. 1 \in Seqs
    BY BoundsAssumption DEF Seqs
  <2> QED BY <1>1, <2>1 DEF Init, LeftBehind, SlotMatchesRow, OpenRows, FirstBaselineKept
<1>5. OpFollowsPc /\ BuiltIsSound /\ ManifestsAreSound /\ BaselineIsCarried
  BY DEF Init, OpFollowsPc, BuiltIsSound, ManifestsAreSound, BaselineIsCarried, Updating, Staging
<1> QED BY <1>2, <1>3, <1>4, <1>5 DEF IInv

LEMMA NextKeeps == IInv /\ [Next]_vars => IInv'
<1> SUFFICES ASSUME IInv, [Next]_vars PROVE IInv'
  OBVIOUS
<1> USE DEF Step
<1>1. CASE Change
  BY <1>1, ChangeKeeps
<1>2. CASE \E g \in Groups : FetchBaseline(g)
  BY <1>2, FetchBaselineKeeps
<1>3. CASE BeginBootstrap \/ \E g \in Groups : BeginUpdate(g)
  BY <1>3, BeginKeeps
<1>4. CASE IngestBaseline \/ IncrementalMayProceed
  BY <1>4, IngestKeeps
<1>5. CASE \/ NeedsRebaseline \/ ResumeTorn \/ BuildRefused \/ PublishConflict \/ BootRefuse
           \/ ManifestRefused \/ Done \/ Crash
  <2>1. Return /\ UNCHANGED <<corpus, durable>>
    BY <1>5 DEF NeedsRebaseline, ResumeTorn, BuildRefused, PublishConflict, BootRefuse,
                ManifestRefused, Done, Crash
  <2>2. crashes' = crashes \/ (crashes < MaxCrashes /\ crashes' = crashes + 1)
    BY <1>5 DEF NeedsRebaseline, ResumeTorn, BuildRefused, PublishConflict, BootRefuse,
                ManifestRefused, Done, Crash
  <2>3. crashes' \in 0..MaxCrashes
    BY <2>2, BoundsAssumption DEF IInv, TypeOK
  <2> QED BY <2>1, <2>3, ReturnKeeps
<1>6. CASE ResumeNothing \/ BuildNothing
  BY <1>6, RunMovesKeeps
<1>7. CASE ResumeDiscard
  BY <1>7, DiscardKeeps
<1>8. CASE ResumeDiscardClean
  BY <1>8, DiscardCleanKeeps
<1>9. CASE ResumeStaged
  BY <1>9, ResumeStagedKeeps
<1>10. CASE BuildPackage
  BY <1>10, BuildKeeps
<1>11. CASE InsertCatalogRow
  BY <1>11, InsertKeeps
<1>12. CASE PublishPackage
  BY <1>12, PublishKeeps
<1>13. CASE MarkPublished
  BY <1>13, MarkKeeps
<1>14. CASE CleanSlot
  BY <1>14, CleanSlotKeeps
<1>15. CASE BootBuild
  BY <1>15, BootBuildKeeps
<1>16. CASE BootResume
  BY <1>16, BootResumeKeeps
<1>17. CASE BuildRemoteManifest
  BY <1>17, ManifestKeeps
<1>18. CASE PublishRemoteManifest
  BY <1>18, ServeKeeps
<1>19. CASE AdoptNewBaselines
  BY <1>19, AdoptKeeps
<1>20. CASE CrashTorn
  BY <1>20, CrashTornKeeps
<1>21. CASE UNCHANGED vars
  <2>1. /\ UNCHANGED <<change, ingested, fetched, adopted, catalog, packages, pending, bootSlot, manifest>>
        /\ UNCHANGED <<pc, op, group, target, built, resuming, draft, crashes>>
    BY <1>21 DEF vars
  <2>2. Cataloged' = Cataloged
    BY <2>1 DEF Cataloged
  <2>3. change \in Nat
    BY BoundsAssumption DEF IInv, TypeOK
  <2>4. TypeOK'
    BY <2>1 DEF IInv, TypeOK
  <2>5. OpFollowsPc' /\ BuiltIsSound' /\ BaselineIsCarried'
    BY <2>1, <2>2 DEF IInv, OpFollowsPc, BuiltIsSound, Extends, IsRow, BaselineIsCarried, Carries,
                      Ingested, IsLast
  <2> QED BY <2>1, <2>3, <2>4, <2>5, TablesStay
<1> QED
  BY <1>1, <1>2, <1>3, <1>4, <1>5, <1>6, <1>7, <1>8, <1>9, <1>10, <1>11, <1>12, <1>13, <1>14,
     <1>15, <1>16, <1>17, <1>18, <1>19, <1>20, <1>21
  DEF Next

LEMMA InvariantAlways == Spec => []IInv
BY InitKeeps, NextKeeps, PTL DEF Spec

-----------------------------------------------------------------------------
(* The theorems.                                                           *)

(* Every variable of the producer keeps its type, whatever runs and dies.  *)
THEOREM TypeCorrect == Spec => []TypeOK
<1>1. IInv => TypeOK
  BY DEF IInv
<1> QED BY <1>1, InvariantAlways, PTL

(* Whatever runs die where, what the served manifest references is in the  *)
(* served root under the identity cataloged, a client that follows it      *)
(* misses no change and meets none twice, and the catalog is one chain     *)
(* (cycle.rs, catalog.rs, remote_manifest.rs).                             *)
THEOREM ChainIsServedAlways == Spec => []ChainIsServed
<1>1. IInv => ChainIsServed
  <2> SUFFICES ASSUME IInv PROVE ChainIsServed
    OBVIOUS
  <2>1. ServedIsPublished
    BY DEF IInv, ManifestsAreSound, ReferencesStay, ServedIsPublished, Cataloged
  <2>2. ServedChainLinks
    BY DEF IInv, ManifestsAreSound, Links, ServedChainLinks
  <2> QED BY <2>1, <2>2 DEF IInv, CatalogShape, ChainIsServed
<1> QED BY <1>1, InvariantAlways, PTL

(* The head of a sound manifest is a row of the catalog.                   *)
LEMMA HeadIsRow ==
  ASSUME TypeOK, NEW m \in ManifestType, ReferencesStay(m)
  PROVE  /\ HeadOf(m) \in Cataloged /\ HeadPackage(m) = catalog[HeadOf(m)].pkg
         /\ \A k \in References(m) : k.seq <= HeadOf(m)
         /\ HeadOf(m) \in Nat /\ HeadPackage(m).high \in Nat
<1> DEFINE T == {k.seq : k \in References(m)}
<1>1. \A k \in References(m) : k.seq \in Cataloged /\ catalog[k.seq].pkg = k
  BY DEF ReferencesStay
<1>2. T \in SUBSET Seqs /\ T # {} /\ T \subseteq Cataloged
  BY <1>1 DEF References, Cataloged
<1>3. HeadOf(m) \in T /\ \A t \in T : t <= HeadOf(m)
  BY <1>2, NewestIsGreatest DEF HeadOf
<1>4. \E k \in References(m) : k.seq = HeadOf(m)
  BY <1>3
<1>5. HeadPackage(m) \in References(m) /\ HeadPackage(m).seq = HeadOf(m)
  BY <1>4 DEF HeadPackage
<1>6. HeadOf(m) \in Cataloged /\ HeadPackage(m) = catalog[HeadOf(m)].pkg
  BY <1>1, <1>5
<1> QED BY <1>3, <1>6, RowFields, PackageFields

(* Only serving a manifest changes the served one, and it ends no earlier. *)
LEMMA HeadMovesForward ==
  ASSUME IInv, [Next]_vars, manifest # None
  PROVE  /\ HeadOf(manifest') >= HeadOf(manifest)
         /\ HeadPackage(manifest').high >= HeadPackage(manifest).high
<1>1. /\ manifest \in ManifestType /\ ReferencesStay(manifest)
      /\ HeadOf(manifest) \in Cataloged /\ HeadPackage(manifest) = catalog[HeadOf(manifest)].pkg
      /\ HeadOf(manifest) \in Nat /\ HeadPackage(manifest).high \in Nat
  <2>1. manifest \in ManifestType /\ ReferencesStay(manifest)
    BY DEF IInv, TypeOK, ManifestsAreSound
  <2> QED BY <2>1, HeadIsRow DEF IInv
<1>2. CASE UNCHANGED manifest
  BY <1>1, <1>2
<1>3. CASE PublishRemoteManifest
  <2>1. manifest' = draft /\ pc = "serve"
    BY <1>3 DEF PublishRemoteManifest, Goto
  <2>2. draft \in ManifestType /\ ReferencesStay(draft) /\ EndsWithLast(draft)
    BY <2>1 DEF IInv, TypeOK, ManifestsAreSound
  <2>3. /\ HeadOf(draft) \in Cataloged /\ HeadPackage(draft) = catalog[HeadOf(draft)].pkg
        /\ HeadOf(draft) \in Nat /\ HeadPackage(draft).high \in Nat
        /\ \A k \in References(draft) : k.seq <= HeadOf(draft)
    BY <2>2, HeadIsRow DEF IInv
  <2>4. PICK k \in References(draft) : IsLast(k.seq)
    BY <2>2 DEF EndsWithLast
  <2>5. k.seq \in Nat /\ HeadOf(manifest) <= k.seq /\ k.seq <= HeadOf(draft)
    BY <1>1, <2>3, <2>4, RowFields DEF IsLast, IInv
  <2>6. HeadOf(manifest) <= HeadOf(draft)
    BY <1>1, <2>3, <2>5
  <2>7. catalog[HeadOf(manifest)].pkg.high <= catalog[HeadOf(draft)].pkg.high
    BY <1>1, <2>3, <2>6 DEF IInv, CatalogShape, HighsGrow
  <2> QED BY <1>1, <2>1, <2>3, <2>6, <2>7
<1>4. UNCHANGED manifest \/ PublishRemoteManifest
  BY DEF Next, Step, vars, durable, Change, FetchBaseline, BeginUpdate, BeginBootstrap,
         IngestBaseline, IncrementalMayProceed, NeedsRebaseline, ResumeNothing, ResumeDiscard,
         ResumeDiscardClean, ResumeStaged, ResumeTorn, BuildRefused, BuildNothing, BuildPackage,
         InsertCatalogRow, PublishPackage, PublishConflict, MarkPublished, CleanSlot, BootRefuse,
         BootBuild, BootResume, BuildRemoteManifest, ManifestRefused, AdoptNewBaselines, Done,
         Crash, CrashTorn
<1> QED BY <1>2, <1>3, <1>4

(* Only a rebaseline run that has served its package writes a marker.      *)
LEMMA AdoptsWhatIsServed ==
  ASSUME IInv, [Next]_vars, NEW g \in Groups, adopted'[g] # adopted[g]
  PROVE  /\ manifest # None
         /\ manifest.media.kind = "rebaseline"
         /\ \E e \in ingested : /\ e.group = g
                                /\ e.baseline = adopted'[g]
                                /\ e.at <= manifest.media.high
<1>1. UNCHANGED adopted \/ AdoptNewBaselines
  BY DEF Next, Step, vars, durable, Change, FetchBaseline, BeginUpdate, BeginBootstrap,
         IngestBaseline, IncrementalMayProceed, NeedsRebaseline, ResumeNothing, ResumeDiscard,
         ResumeDiscardClean, ResumeStaged, ResumeTorn, BuildRefused, BuildNothing, BuildPackage,
         InsertCatalogRow, PublishPackage, PublishConflict, MarkPublished, CleanSlot, BootRefuse,
         BootBuild, BootResume, BuildRemoteManifest, PublishRemoteManifest, ManifestRefused, Done,
         Crash, CrashTorn
<1>2. pc = "adopt" /\ adopted' = [adopted EXCEPT ![group] = target]
  BY <1>1 DEF AdoptNewBaselines, Goto
<1>3. adopted \in [Groups -> 0..MaxBaselines]
  BY DEF IInv, TypeOK
<1>4. g = group /\ adopted'[g] = target
  BY <1>2, <1>3
<1>5. manifest # None /\ Carries(manifest.media)
  BY <1>2 DEF IInv, OpFollowsPc, BaselineIsCarried
<1> QED BY <1>4, <1>5 DEF Carries, Ingested

(* Whatever runs die where and whatever is fetched meanwhile, the served   *)
(* head never moves back, and a group's marker names a baseline only once  *)
(* a rebaseline that holds it is served (cycle.rs:290, update.rs).         *)
THEOREM PublicationMovesAlways == Spec => PublicationMoves
<1>1. IInv /\ [Next]_vars =>
        [manifest # None =>
           /\ HeadOf(manifest') >= HeadOf(manifest)
           /\ HeadPackage(manifest').high >= HeadPackage(manifest).high]_vars
  BY HeadMovesForward
<1>2. IInv /\ [Next]_vars =>
        [\A g \in Groups : adopted'[g] # adopted[g] =>
           /\ manifest # None
           /\ manifest.media.kind = "rebaseline"
           /\ \E e \in ingested : /\ e.group = g
                                  /\ e.baseline = adopted'[g]
                                  /\ e.at <= manifest.media.high]_vars
  BY AdoptsWhatIsServed
<1> QED
  BY <1>1, <1>2, InvariantAlways, PTL
  DEF Spec, PublicationMoves, ServedHeadMonotone, AdoptionIsServed

-----------------------------------------------------------------------------
(* Windows and baselines.                                                  *)

(* Which step changes what.                                                *)
LEMMA Footprint ==
  ASSUME [Next]_vars
  PROVE  /\ UNCHANGED ingested \/ IngestBaseline
         /\ UNCHANGED change \/ Change \/ IngestBaseline
         /\ UNCHANGED fetched \/ \E g \in Groups : FetchBaseline(g)
         /\ UNCHANGED adopted \/ AdoptNewBaselines
         /\ UNCHANGED catalog \/ ResumeDiscard \/ InsertCatalogRow \/ MarkPublished
         /\ UNCHANGED packages \/ PublishPackage
         /\ pending' \in {pending, None, Torn} \/ BuildPackage
         /\ UNCHANGED <<op, group, target>> \/ op' \in {"none", "bootstrap"}
              \/ \E g \in Groups : BeginUpdate(g)
<1> USE DEF Step, vars, durable, corpus, run, Return
<1>1. CASE \/ Change \/ BeginBootstrap \/ (\E g \in Groups : FetchBaseline(g) \/ BeginUpdate(g))
           \/ Crash \/ CrashTorn \/ UNCHANGED vars
  BY <1>1 DEF Change, FetchBaseline, BeginUpdate, BeginBootstrap, Crash, CrashTorn
<1>2. CASE \/ IngestBaseline \/ IncrementalMayProceed \/ NeedsRebaseline \/ ResumeNothing
           \/ ResumeDiscard \/ ResumeDiscardClean \/ ResumeStaged \/ ResumeTorn
  BY <1>2 DEF IngestBaseline, IncrementalMayProceed, NeedsRebaseline, ResumeNothing,
              ResumeDiscard, ResumeDiscardClean, ResumeStaged, ResumeTorn
<1>3. CASE \/ BuildRefused \/ BuildNothing \/ BuildPackage \/ InsertCatalogRow
           \/ PublishPackage \/ PublishConflict \/ MarkPublished \/ CleanSlot
  BY <1>3 DEF BuildRefused, BuildNothing, BuildPackage, InsertCatalogRow,
              PublishPackage, PublishConflict, MarkPublished, CleanSlot
<1>4. CASE \/ BootRefuse \/ BootBuild \/ BootResume \/ BuildRemoteManifest
           \/ ManifestRefused \/ PublishRemoteManifest \/ AdoptNewBaselines \/ Done
  BY <1>4 DEF BootRefuse, BootBuild, BootResume, BuildRemoteManifest,
              ManifestRefused, PublishRemoteManifest, AdoptNewBaselines, Done
<1> QED BY <1>1, <1>2, <1>3, <1>4 DEF Next

LEMMA NumbersTyped ==
  ASSUME TypeOK
  PROVE  /\ change \in Nat /\ target \in Nat
         /\ \A g \in Groups : fetched[g] \in Nat /\ adopted[g] \in Nat
         /\ \A e \in ingested : e.group \in Groups /\ e.baseline \in Nat /\ e.at \in Nat
BY BoundsAssumption DEF TypeOK, IngestType

(* What an ingest of a baseline records.                                   *)
LEMMA IngestRecords ==
  ASSUME IInv, IngestBaseline
  PROVE  /\ op = "rebaseline" /\ pc = "ingest" /\ pc' = "resume" /\ group \in Groups
         /\ change' \in Nat /\ change <= change'
         /\ UNCHANGED <<op, group, target, fetched, adopted, catalog, packages, pending>>
         /\ ingested \subseteq ingested'
         /\ \A e \in ingested' \ ingested :
              /\ e.group = group /\ e.baseline = target /\ e.at = change'
              /\ e.delta => change' = change + 1
<1>1. /\ op = "rebaseline" /\ pc = "ingest" /\ pc' = "resume"
      /\ change' = change \/ change' = change + 1
      /\ UNCHANGED <<op, group, target, fetched, adopted, catalog, packages, pending>>
      /\ ingested' = ingested \cup {[group |-> group, baseline |-> target, at |-> change',
                                     delta |-> change' # change]}
  BY DEF IngestBaseline, Goto, durable
<1>2. change \in Nat /\ group \in Groups
  BY <1>1, NumbersTyped DEF IInv, OpFollowsPc, Updating
<1>3. change' \in Nat /\ change <= change'
  BY <1>1, <1>2
<1>4. ASSUME NEW e \in ingested' \ ingested
      PROVE  e.group = group /\ e.baseline = target /\ e.at = change'
             /\ (e.delta => change' = change + 1)
  <2>1. e = [group |-> group, baseline |-> target, at |-> change', delta |-> change' # change]
    BY <1>1
  <2>2. e.delta => change' # change
    BY <2>1, Zenon
  <2>3. e.group = group /\ e.baseline = target /\ e.at = change'
    BY <2>1, Zenon
  <2> QED BY <1>1, <2>2, <2>3, Zenon
<1> QED BY <1>1, <1>2, <1>3, <1>4

LEMMA ChangeGrows ==
  ASSUME IInv, [Next]_vars
  PROVE  change' \in Nat /\ change <= change' /\ ingested \subseteq ingested'
<1>1. change \in Nat
  BY NumbersTyped DEF IInv
<1>2. CASE IngestBaseline
  BY <1>2, IngestRecords
<1>3. CASE ~IngestBaseline
  BY <1>1, <1>3, Footprint DEF Change
<1> QED BY <1>2, <1>3

(* A marked row is never taken back.                                       *)
LEMMA PublishedStay ==
  ASSUME IInv, [Next]_vars, NEW s \in Cataloged, catalog[s].status = "published"
  PROVE  s \in Cataloged' /\ catalog'[s].status = "published" /\ catalog'[s].pkg = catalog[s].pkg
<1>1. s \in Seqs /\ catalog[s] \in RowType /\ catalog[s] # None
  BY RowFields, NoneAssumption DEF IInv
<1>2. catalog \in [Seqs -> {None} \cup RowType]
  BY DEF IInv, TypeOK
<1>3. CASE UNCHANGED catalog
  BY <1>3 DEF Cataloged
<1>4. CASE ResumeDiscard
  <2>1. catalog'[s] = catalog[s]
    BY <1>1, <1>2, <1>4 DEF ResumeDiscard
  <2> QED BY <1>1, <2>1 DEF Cataloged
<1>5. CASE InsertCatalogRow
  <2>1. catalog'[s] = catalog[s]
    BY <1>1, <1>2, <1>5 DEF InsertCatalogRow
  <2> QED BY <1>1, <2>1 DEF Cataloged
<1>6. CASE MarkPublished
  <2> DEFINE row == [catalog[built.seq] EXCEPT !.status = "published"]
  <2>1. catalog' = [catalog EXCEPT ![built.seq] = row]
    BY <1>6 DEF MarkPublished
  <2>2. s = built.seq => row \in RowType /\ row.pkg = catalog[s].pkg /\ row.status = "published"
    BY <1>1 DEF RowType
  <2>3. s = built.seq => row # None
    BY <2>2, NoneAssumption
  <2> HIDE DEF row
  <2>4. catalog'[s] = IF s = built.seq THEN row ELSE catalog[s]
    BY <1>1, <1>2, <2>1
  <2> QED BY <1>1, <2>2, <2>3, <2>4 DEF Cataloged
<1> QED BY <1>3, <1>4, <1>5, <1>6, Footprint

LEMMA CoveredStays ==
  ASSUME IInv, [Next]_vars
  PROVE  \A e : Covered(e) => Covered(e)'
<1> SUFFICES ASSUME NEW e, Covered(e) PROVE Covered(e)'
  OBVIOUS
<1>1. PICK s \in Cataloged : catalog[s].status = "published" /\ e.at <= catalog[s].pkg.high
  BY DEF Covered
<1> QED BY <1>1, PublishedStay DEF Covered

LEMMA SettleKeeps ==
  ASSUME IInv, IInv', BInv, [Next]_vars
  PROVE  BaselinesSettle'
<1> USE DEF Updating
<1>0. TypeOK /\ TypeOK' /\ BaselinesSettle /\ RunCovers
  BY DEF IInv, BInv
<1>1. /\ change \in Nat /\ target \in Nat
      /\ \A g \in Groups : fetched[g] \in Nat /\ adopted[g] \in Nat /\ adopted[g] <= fetched[g]
      /\ \A e \in ingested : /\ e.group \in Groups /\ e.baseline \in Nat /\ e.at \in Nat
                             /\ e.at <= change /\ e.baseline <= fetched[e.group]
  BY <1>0, NumbersTyped DEF BaselinesSettle
<1>2. change' \in Nat /\ change <= change'
  BY ChangeGrows
<1>3. /\ fetched \in [Groups -> 0..MaxBaselines] /\ adopted \in [Groups -> 0..MaxBaselines]
      /\ op \in Updating => group \in Groups
  BY DEF IInv, TypeOK, OpFollowsPc
<1>4. CASE \E g \in Groups : FetchBaseline(g)
  <2>1. PICK g \in Groups : fetched' = [fetched EXCEPT ![g] = @ + 1]
    BY <1>4 DEF FetchBaseline
  <2>2. UNCHANGED <<ingested, change, adopted, pc, op, group, target>>
    BY <1>4 DEF FetchBaseline, corpus, run
  <2>3. \A h \in Groups : fetched'[h] \in Nat /\ fetched[h] <= fetched'[h]
    BY <1>1, <1>3, <2>1
  <2>4. \A h \in Groups : adopted'[h] <= fetched'[h]
    BY <1>1, <2>2, <2>3
  <2>5. ASSUME NEW e \in ingested'
        PROVE  /\ e.at <= change' /\ e.baseline <= fetched'[e.group]
               /\ Covered(e)' \/ adopted'[e.group] < e.baseline
    BY <1>0, <1>1, <2>2, <2>3, CoveredStays DEF BaselinesSettle
  <2>6. op' \in Updating => target' <= fetched'[group']
    BY <1>0, <1>1, <1>3, <2>2, <2>3 DEF BaselinesSettle
  <2> QED BY <1>0, <2>2, <2>4, <2>5, <2>6 DEF BaselinesSettle
<1>5. CASE \E g \in Groups : BeginUpdate(g)
  <2>1. PICK g \in Groups : BeginUpdate(g)
    BY <1>5
  <2>2. /\ UNCHANGED <<ingested, change, fetched, adopted>>
        /\ group' = g /\ target' = fetched[g] /\ (op' = "rebaseline" => fetched[g] # adopted[g])
    BY <2>1 DEF BeginUpdate, corpus, durable
  <2>3. target' <= fetched'[group'] /\ (op' = "rebaseline" => adopted'[group'] < target')
    BY <1>1, <2>2
  <2> QED BY <1>0, <2>2, <2>3, CoveredStays DEF BaselinesSettle
<1>6. CASE IngestBaseline
  <2>1. /\ op = "rebaseline" /\ pc = "ingest" /\ pc' = "resume" /\ group \in Groups
        /\ UNCHANGED <<op, group, target, fetched, adopted>>
        /\ \A e \in ingested' \ ingested :
             e.group = group /\ e.baseline = target /\ e.at = change'
    BY <1>6, IngestRecords
  <2>2. target <= fetched[group] /\ adopted[group] < target
    BY <1>0, <2>1 DEF BaselinesSettle
  <2>3. ASSUME NEW e \in ingested'
        PROVE  /\ e.at <= change' /\ e.baseline <= fetched'[e.group]
               /\ Covered(e)' \/ adopted'[e.group] < e.baseline
    <3>1. CASE e \in ingested
      BY <1>0, <1>1, <1>2, <2>1, <3>1, CoveredStays DEF BaselinesSettle
    <3>2. CASE e \notin ingested
      BY <1>2, <2>1, <2>2, <3>2
    <3> QED BY <3>1, <3>2
  <2> QED BY <1>0, <2>1, <2>2, <2>3 DEF BaselinesSettle
<1>7. CASE AdoptNewBaselines
  <2>1. /\ pc = "adopt" /\ pc' = "done" /\ adopted' = [adopted EXCEPT ![group] = target]
        /\ UNCHANGED <<ingested, change, fetched, op, group, target>>
    BY <1>7 DEF AdoptNewBaselines, Goto, corpus
  <2>2. op = "rebaseline" /\ group \in Groups
    BY <2>1 DEF IInv, OpFollowsPc
  <2>3. \A g \in Groups : adopted'[g] <= fetched'[g]
    BY <1>0, <1>1, <1>3, <2>1, <2>2 DEF BaselinesSettle
  <2>4. \A e \in ingested : Covered(e)'
    BY <1>0, <2>1, <2>2, CoveredStays DEF RunCovers
  <2> QED BY <1>0, <1>1, <2>1, <2>2, <2>3, <2>4 DEF BaselinesSettle
<1>8. CASE ~(\/ \E g \in Groups : FetchBaseline(g) \/ BeginUpdate(g)
             \/ IngestBaseline \/ AdoptNewBaselines)
  <2>1. /\ UNCHANGED <<ingested, fetched, adopted>>
        /\ UNCHANGED <<op, group, target>> \/ op' \in {"none", "bootstrap"}
    BY <1>8, Footprint
  <2>2. ASSUME NEW e \in ingested'
        PROVE  /\ e.at <= change' /\ e.baseline <= fetched'[e.group]
               /\ Covered(e)' \/ adopted'[e.group] < e.baseline
    BY <1>0, <1>1, <1>2, <2>1, CoveredStays DEF BaselinesSettle
  <2>3. ASSUME op' = "rebaseline", pc' # "done" PROVE pc # "done"
    BY <2>3 DEF Next, Step, vars, durable, corpus, run, Return, Goto, Change, FetchBaseline,
         BeginUpdate, BeginBootstrap,
         IngestBaseline, IncrementalMayProceed, NeedsRebaseline, ResumeNothing, ResumeDiscard,
         ResumeDiscardClean, ResumeStaged, ResumeTorn, BuildRefused, BuildNothing, BuildPackage,
         InsertCatalogRow, PublishPackage, PublishConflict, MarkPublished, CleanSlot, BootRefuse,
         BootBuild, BootResume, BuildRemoteManifest, PublishRemoteManifest, ManifestRefused,
         AdoptNewBaselines, Done, Crash, CrashTorn
  <2> QED BY <1>0, <2>1, <2>2, <2>3 DEF BaselinesSettle
<1> QED BY <1>4, <1>5, <1>6, <1>7, <1>8

LEMMA RunCoversKeeps ==
  ASSUME IInv, IInv', BInv, [Next]_vars
  PROVE  RunCovers'
<1> USE DEF Updating, Staging
<1>0. /\ BaselinesSettle /\ RunCovers /\ change \in Nat /\ change' \in Nat /\ change <= change'
      /\ \A e \in ingested : e.group \in Groups /\ e.at \in Nat /\ e.at <= change
      /\ \A g \in Groups : fetched[g] \in Nat /\ adopted[g] \in Nat
      /\ \A e : Covered(e) => Covered(e)'
  BY ChangeGrows, NumbersTyped, CoveredStays DEF IInv, BInv, BaselinesSettle
(* Nobody runs, or a run starts.                                           *)
<1>1. CASE op' \in {"none", "bootstrap"} \/ pc' = "ingest"
  BY <1>1 DEF RunCovers
(* Others write while the run stands still.                                *)
<1>2. CASE UNCHANGED <<ingested, pc, op, group, built, resuming>>
  BY <1>0, <1>2 DEF RunCovers
(* The run leaves its ingest: nothing of the group is left to adopt.       *)
<1>3. CASE IngestBaseline
  BY <1>3, IngestRecords DEF RunCovers
<1>4. CASE IncrementalMayProceed
  <2>1. /\ pc' = "resume" /\ op = "incremental" /\ fetched[group] = adopted[group]
        /\ UNCHANGED <<op, group, ingested>>
    BY <1>4 DEF IncrementalMayProceed, Goto, corpus
  <2>2. ASSUME NEW e \in ingested, e.group = group PROVE Covered(e)
    <3>1. e.baseline \in Nat /\ e.baseline <= fetched[group] /\ adopted[group] \in Nat
      BY <1>0, <2>2, NumbersTyped DEF BaselinesSettle, IInv
    <3> QED BY <1>0, <2>1, <2>2, <3>1 DEF BaselinesSettle
  <2> QED BY <1>0, <2>1, <2>2 DEF RunCovers
(* An ordinary run goes on, or a rebaseline run before it builds.          *)
<1>5. CASE \/ ResumeNothing \/ ResumeDiscard \/ ResumeDiscardClean \/ ResumeStaged \/ BuildNothing
           \/ (op \notin {"rebaseline"} /\ UNCHANGED <<ingested, op, group>> /\ pc # "ingest")
  <2>1. UNCHANGED <<ingested, op, group>> /\ pc # "ingest"
    BY <1>5 DEF ResumeNothing, ResumeDiscard, ResumeDiscardClean, ResumeStaged, BuildNothing,
                Goto, corpus
  <2>2. op = "rebaseline" =>
          pc' \notin {"catalog", "manifest", "serve", "adopt"} /\ (pc' \in Staging => resuming')
    BY <1>5 DEF ResumeNothing, ResumeDiscard, ResumeDiscardClean, ResumeStaged, BuildNothing, Goto
  <2> QED BY <1>0, <2>1, <2>2 DEF RunCovers
(* A rebaseline run builds, publishes and serves.                          *)
<1>6. CASE op = "rebaseline" /\ BuildPackage
  <2>1. pc' = "catalog" /\ built'.high = change /\ UNCHANGED <<ingested, op, group>>
    BY <1>6 DEF BuildPackage, RebaselineOf, Goto, corpus
  <2> QED BY <1>0, <1>6, <2>1 DEF RunCovers
<1>7. CASE op = "rebaseline" /\ (InsertCatalogRow \/ PublishPackage \/ MarkPublished)
  <2>1. /\ pc \in {"catalog"} \cup Staging /\ pc' \in Staging
        /\ UNCHANGED <<ingested, op, group, built, resuming>>
    BY <1>7 DEF InsertCatalogRow, PublishPackage, MarkPublished, Goto, corpus
  <2> QED BY <1>0, <1>7, <2>1 DEF RunCovers
<1>8. CASE op = "rebaseline" /\ CleanSlot
  <2>1. /\ pc = "clean" /\ pc' = (IF resuming THEN "build" ELSE "manifest")
        /\ UNCHANGED <<ingested, op, group, catalog>>
    BY <1>8 DEF CleanSlot, Goto, corpus
  <2>2. /\ built.seq \in Cataloged /\ catalog[built.seq].pkg = built
        /\ catalog[built.seq].status = "published"
    BY <2>1 DEF IInv, BuiltIsSound, IsRow
  <2>3. ~resuming => \A e \in ingested : Covered(e)
    BY <1>0, <1>8, <2>1, <2>2 DEF RunCovers, Covered
  <2> QED BY <1>0, <1>8, <2>1, <2>3 DEF RunCovers
<1>9. CASE op = "rebaseline" /\ (BuildRemoteManifest \/ PublishRemoteManifest)
  <2>1. /\ pc \in {"manifest", "serve"} /\ pc' \in {"serve", "adopt"}
        /\ UNCHANGED <<ingested, op, group>>
    BY <1>9 DEF BuildRemoteManifest, PublishRemoteManifest, Goto, corpus
  <2> QED BY <1>0, <1>9, <2>1 DEF RunCovers
<1>10. CASE AdoptNewBaselines
  BY <1>10 DEF AdoptNewBaselines, IInv, OpFollowsPc, Goto, RunCovers
<1>11. CASE ~(op = "rebaseline") /\ Next /\ op' \notin {"none", "bootstrap"} /\ pc' # "ingest"
            /\ ~UNCHANGED <<ingested, pc, op, group, built, resuming>>
            /\ ~IncrementalMayProceed /\ ~IngestBaseline
  <2>1. UNCHANGED <<ingested, op, group>>
    BY <1>11, Footprint DEF BeginUpdate, Goto
  <2>2. pc # "ingest"
    BY <1>11
    DEF Next, Step, durable, corpus, run, Return, Goto, Change, FetchBaseline,
        BeginUpdate, BeginBootstrap, NeedsRebaseline, ResumeNothing, ResumeDiscard,
        ResumeDiscardClean, ResumeStaged, ResumeTorn, BuildRefused, BuildNothing, BuildPackage,
        InsertCatalogRow, PublishPackage, PublishConflict, MarkPublished, CleanSlot, BootRefuse,
        BootBuild, BootResume, BuildRemoteManifest, PublishRemoteManifest, ManifestRefused,
        AdoptNewBaselines, Done, Crash, CrashTorn
  <2> QED BY <1>5, <1>11, <2>1, <2>2
<1>12. ASSUME op = "rebaseline", op' \notin {"none", "bootstrap"}, pc' # "ingest",
              ~UNCHANGED <<ingested, pc, op, group, built, resuming>>
       PROVE  \/ IngestBaseline \/ IncrementalMayProceed
              \/ ResumeNothing \/ ResumeDiscard \/ ResumeDiscardClean \/ ResumeStaged \/ BuildNothing
              \/ BuildPackage \/ InsertCatalogRow \/ PublishPackage \/ MarkPublished \/ CleanSlot
              \/ BuildRemoteManifest \/ PublishRemoteManifest \/ AdoptNewBaselines
  <2>1. pc # "boot"
    BY <1>12 DEF IInv, OpFollowsPc
  <2> QED
    BY <1>12, <2>1
    DEF Next, Step, vars, durable, corpus, run, Return, Goto, Change, FetchBaseline,
        BeginUpdate, BeginBootstrap, NeedsRebaseline, ResumeTorn, BuildRefused, PublishConflict,
        BootRefuse, BootBuild, BootResume, ManifestRefused, Done, Crash, CrashTorn
<1>13. CASE UNCHANGED vars
  BY <1>2, <1>13 DEF vars
<1> QED BY <1>1, <1>2, <1>3, <1>4, <1>5, <1>6, <1>7, <1>8, <1>9, <1>10, <1>11, <1>12, <1>13

(* The same after a step.                                                  *)
UncrossedAfter(k) ==
  /\ k.high <= change'
  /\ k.kind = "incremental" =>
       \A e \in ingested' : e.delta => ~(k.low < e.at /\ e.at <= k.high)

(* A later ingest lies beyond every window there is.                       *)
LEMMA UncrossedStays ==
  ASSUME IInv, [Next]_vars, NEW k \in PackageType, Uncrossed(k)
  PROVE  UncrossedAfter(k)
<1>1. /\ change \in Nat /\ change' \in Nat /\ change <= change' /\ k.high \in Nat /\ k.high <= change
  BY ChangeGrows, NumbersTyped, PackageFields DEF IInv, Uncrossed
<1>2. ASSUME k.kind = "incremental", NEW e \in ingested', e.delta
      PROVE  ~(k.low < e.at /\ e.at <= k.high)
  <2>1. CASE e \in ingested
    BY <1>2, <2>1 DEF Uncrossed
  <2>2. CASE e \notin ingested
    <3>1. IngestBaseline
      BY <2>2, Footprint
    <3>2. e.at = change' /\ change' = change + 1
      BY <1>2, <2>2, <3>1, IngestRecords
    <3> QED BY <1>1, <3>2
  <2> QED BY <2>1, <2>2
<1> QED BY <1>1, <1>2 DEF UncrossedAfter

(* With one group an ordinary run starts its window where everything that  *)
(* was ingested is marked.                                                 *)
LEMMA WindowsKeep ==
  ASSUME NEW g, Groups = {g}, IInv, BInv, [Next]_vars
  PROVE  WindowsUncrossed'
<1>0. WindowsUncrossed /\ RunCovers /\ TypeOK
  BY DEF BInv, IInv
<1>1. ASSUME NEW s \in Cataloged' PROVE UncrossedAfter(catalog'[s].pkg)
  <2>1. s \in Seqs /\ catalog'[s] # None
    BY DEF Cataloged
  <2>2. CASE s \in Cataloged /\ catalog'[s].pkg = catalog[s].pkg
    <3>1. catalog[s].pkg \in PackageType /\ Uncrossed(catalog[s].pkg)
      BY <1>0, <2>2, RowFields DEF WindowsUncrossed
    <3>2. UncrossedAfter(catalog[s].pkg)
      BY <3>1, UncrossedStays
    <3> QED BY <2>2, <3>2
  <2>3. CASE InsertCatalogRow /\ ~(s \in Cataloged /\ catalog'[s].pkg = catalog[s].pkg)
    <3>1. pc = "catalog" /\ catalog' = [catalog EXCEPT ![built.seq] = [pkg |-> built, status |-> "built"]]
      BY <2>3 DEF InsertCatalogRow, Goto
    <3>2. built \in PackageType /\ Extends(built)
      BY <3>1 DEF IInv, BuiltIsSound
    <3>3. s = built.seq
      BY <1>0, <2>1, <2>3, <3>1 DEF Cataloged, TypeOK
    <3>4. catalog'[s].pkg = built
      BY <1>0, <2>1, <3>1, <3>3 DEF TypeOK
    <3>5. Uncrossed(built)
      <4>1. CASE op \in Updating /\ built = pending
        <5>1. built # None /\ built # Torn
          BY <3>2, PackageFields
        <5> QED BY <1>0, <4>1, <5>1 DEF WindowsUncrossed
      <4>2. CASE op = "bootstrap" /\ built = bootSlot
        <5>1. built.kind = "baseline" /\ built.high <= change
          BY <3>2, <4>2, PackageFields DEF IInv, LeftBehind, FirstBaselineKept, Extends
        <5> QED BY <5>1 DEF Uncrossed
      <4> QED BY <3>2, <4>1, <4>2 DEF Extends
    <3>6. UncrossedAfter(built)
      <4>1. UNCHANGED built
        BY <2>3 DEF InsertCatalogRow
      <4> QED BY <3>2, <3>5, <4>1, UncrossedStays
    <3> QED BY <3>4, <3>6
  <2>4. CASE ResumeDiscard
    <3>1. catalog'[s] = catalog[s]
      BY <1>0, <2>1, <2>4 DEF ResumeDiscard, TypeOK
    <3> QED BY <2>1, <2>2, <3>1 DEF Cataloged
  <2>5. CASE MarkPublished
    <3>1. catalog[s] # None /\ catalog'[s].pkg = catalog[s].pkg
      <4> DEFINE row == [catalog[built.seq] EXCEPT !.status = "published"]
      <4>1. catalog' = [catalog EXCEPT ![built.seq] = row] /\ catalog[built.seq] # None
        BY <2>5 DEF MarkPublished
      <4>2. s = built.seq => catalog[s] \in RowType /\ row.pkg = catalog[s].pkg
        BY <1>0, <2>1, <4>1 DEF RowType, TypeOK
      <4> HIDE DEF row
      <4>3. catalog'[s] = IF s = built.seq THEN row ELSE catalog[s]
        BY <1>0, <2>1, <4>1 DEF TypeOK
      <4> QED BY <2>1, <4>1, <4>2, <4>3
    <3> QED BY <2>1, <2>2, <3>1 DEF Cataloged
  <2>6. CASE UNCHANGED catalog
    BY <2>1, <2>2, <2>6 DEF Cataloged
  <2> QED BY <2>2, <2>3, <2>4, <2>5, <2>6, Footprint
<1>2. ASSUME NEW s \in Seqs, packages'[s] # None PROVE UncrossedAfter(packages'[s])
  <2>1. CASE packages'[s] = packages[s]
    <3>1. packages[s] \in PackageType /\ Uncrossed(packages[s])
      BY <1>0, <1>2, <2>1 DEF WindowsUncrossed, TypeOK
    <3>2. UncrossedAfter(packages[s])
      BY <3>1, UncrossedStays
    <3> QED BY <2>1, <3>2
  <2>2. CASE packages'[s] # packages[s]
    <3>1. PublishPackage
      BY <2>2, Footprint
    <3>2. pc = "publish" /\ packages' = Published(built) /\ UNCHANGED built
      BY <3>1 DEF PublishPackage, Goto
    <3>3. built \in PackageType /\ built.seq \in Cataloged /\ catalog[built.seq].pkg = built
      BY <3>2 DEF IInv, BuiltIsSound, IsRow, Staging
    <3>4. packages'[s] = built
      BY <1>0, <2>2, <3>2 DEF Published, TypeOK
    <3>5. Uncrossed(built)
      BY <1>0, <3>3 DEF WindowsUncrossed
    <3>6. UncrossedAfter(built)
      BY <3>2, <3>3, <3>5, UncrossedStays
    <3> QED BY <3>4, <3>6
  <2> QED BY <2>1, <2>2
<1>3. ASSUME pending' \notin {None, Torn} PROVE UncrossedAfter(pending')
  <2>1. CASE pending' = pending
    <3>1. pending \in PackageType /\ Uncrossed(pending)
      BY <1>0, <1>3, <2>1 DEF WindowsUncrossed, TypeOK
    <3> QED BY <2>1, <3>1, UncrossedStays
  <2>2. CASE pending' # pending
    <3>1. BuildPackage
      BY <1>3, <2>2, Footprint
    <3>2. /\ pc = "build" /\ pending' = built' /\ Cataloged # {} /\ UNCHANGED <<change, ingested>>
          /\ \/ op = "incremental" /\ built' = IncrementalOf(Latest, NewBuild)
             \/ built' = RebaselineOf(Latest, NewBuild)
      BY <3>1 DEF BuildPackage, Goto, corpus
    <3>3. change \in Nat
      BY NumbersTyped, <1>0
    <3>4. CASE built' = RebaselineOf(Latest, NewBuild)
      <4>1. built'.kind = "rebaseline" /\ built'.high = change
        BY <3>4 DEF RebaselineOf
      <4> QED BY <3>2, <3>3, <4>1 DEF UncrossedAfter
    <3>5. CASE op = "incremental" /\ built' = IncrementalOf(Latest, NewBuild)
      <4>1. built'.low = Latest.high /\ built'.high = change
        BY <3>5 DEF IncrementalOf
      <4>2. PICK n \in Cataloged : IsLast(n) /\ Latest = catalog[n].pkg
        BY <1>0, <3>2, LatestIsLast
      <4>3. ASSUME NEW e \in ingested PROVE e.at <= Latest.high /\ e.at \in Nat /\ Latest.high \in Nat
        <5>1. e.group = group /\ e.at \in Nat
          BY <1>0, <3>5, NumbersTyped DEF IInv, OpFollowsPc, Updating
        <5>2. PICK s \in Cataloged : e.at <= catalog[s].pkg.high
          BY <1>0, <3>2, <3>5, <5>1 DEF RunCovers, Covered
        <5>3. catalog[s].pkg.high <= catalog[n].pkg.high
          BY <4>2 DEF IsLast, IInv, CatalogShape, HighsGrow
        <5>4. catalog[s].pkg.high \in Nat /\ catalog[n].pkg.high \in Nat
          BY <1>0, RowFields, PackageFields
        <5> QED BY <4>2, <5>1, <5>2, <5>3, <5>4
      <4>4. \A e \in ingested : ~(built'.low < e.at)
        BY <4>1, <4>3
      <4> QED BY <3>2, <3>3, <4>1, <4>4 DEF UncrossedAfter
    <3> QED BY <3>2, <3>4, <3>5
  <2> QED BY <2>1, <2>2
<1> QED BY <1>1, <1>2, <1>3 DEF WindowsUncrossed, Uncrossed, UncrossedAfter

(* With one group of sources no ordinary incremental ever carries the rows *)
(* of a new upstream baseline, whatever dies and whatever is fetched       *)
(* meanwhile (update.rs:481, baseline.rs:4).  With two it may.             *)
THEOREM OneGroupNeverStraddles ==
  ASSUME NEW g, Groups = {g}
  PROVE  Spec => []NoDeltaCrossesBaseline
<1>1. Init => BInv
  <2> SUFFICES ASSUME Init PROVE BInv
    OBVIOUS
  <2>1. Cataloged = {} /\ ingested = {} /\ op = "none" /\ pending = None
    BY DEF Init, Cataloged
  <2>2. BaselinesSettle
    BY <2>1 DEF Init, BaselinesSettle, Updating
  <2>3. RunCovers
    BY <2>1 DEF RunCovers
  <2>4. WindowsUncrossed
    BY <2>1 DEF Init, WindowsUncrossed
  <2> QED BY <2>2, <2>3, <2>4 DEF BInv
<1>2. IInv /\ IInv' /\ BInv /\ [Next]_vars => BInv'
  BY SettleKeeps, RunCoversKeeps, WindowsKeep DEF BInv
<1>3. BInv => NoDeltaCrossesBaseline
  BY DEF BInv, WindowsUncrossed, Uncrossed, NoDeltaCrossesBaseline
<1>4. Spec => []IInv
  BY InvariantAlways
<1> QED BY <1>1, <1>2, <1>3, <1>4, PTL DEF Spec

-----------------------------------------------------------------------------
(* Recursion: folds of a sequence, and what holds of their results.        *)

(* What is built step by step from 0 ...                                   *)
Unfolds(f, n, base, step) == f[0] = base /\ \A i \in 1..n : f[i] = step[<<i, f[i - 1]>>]

LEMMA RecursionExists ==
  ASSUME NEW n \in Nat, NEW D, NEW base \in D, NEW step \in [(1..n) \X D -> D]
  PROVE  \E f \in [0..n -> D] : Unfolds(f, n, base, step)
<1> USE DEF Unfolds
<1> DEFINE Built(f, j) == Unfolds(f, j, base, step)
           Good(j) == \E f \in [0..j -> D] : Built(f, j)
           S == {j \in 0..n : ~Good(j)}
<1> SUFFICES ASSUME S # {} PROVE FALSE
  OBVIOUS
<1>1. PICK j \in S : \A y \in S : j <= y
  <2>1. S \in SUBSET Nat
    OBVIOUS
  <2> HIDE DEF S
  <2> QED
    BY <2>1, LeastExists
<1>2. Good(0)
  <2> DEFINE f == [i \in 0..0 |-> base]
  <2>1. f \in [0..0 -> D] /\ Built(f, 0)
    OBVIOUS
  <2> QED
    BY <2>1
<1>3. j \in 1..n /\ Good(j - 1)
  <2> HIDE DEF Good
  <2>1. j # 0 /\ j \in 0..n
    BY <1>2
  <2>2. j - 1 \in 0..n /\ ~(j <= j - 1)
    BY <2>1
  <2> QED
    BY <1>1, <2>1, <2>2
<1>4. PICK f \in [0..(j - 1) -> D] : Built(f, j - 1)
  BY <1>3
<1> DEFINE last == step[<<j, f[j - 1]>>]
           g == [i \in 0..j |-> IF i = j THEN last ELSE f[i]]
<1>5. j - 1 \in 0..(j - 1) /\ f[j - 1] \in D
  BY <1>3
<1>6. last \in D
  BY <1>3, <1>5
<1>7. g \in [0..j -> D]
  <2>1. \A i \in 0..j : i # j => i \in 0..(j - 1)
    BY <1>3
  <2> HIDE DEF last
  <2> QED
    BY <1>6, <2>1
<1>8. Built(g, j)
  <2>1. g[0] = base
    BY <1>3, <1>4
  <2>2. ASSUME NEW i \in 1..j PROVE g[i] = step[<<i, g[i - 1]>>]
    <3>1. g[i - 1] = f[i - 1]
      BY <1>3
    <3>2. CASE i = j
      BY <2>2, <3>1, <3>2
    <3>3. CASE i # j
      <4>1. i \in 1..(j - 1) /\ g[i] = f[i]
        BY <1>3, <3>3
      <4> QED
        BY <1>4, <3>1, <4>1
    <3> QED
      BY <3>2, <3>3
  <2> QED
    BY <2>1, <2>2
<1>9. Good(j)
  <2> HIDE DEF g, Built
  <2> QED
    BY <1>7, <1>8
<1> QED
  BY <1>9

(* ... and what holds of 0, and of a number with the one before it, holds  *)
(* up to n.                                                                *)
LEMMA UpTo ==
  ASSUME NEW n \in Nat, NEW S, 0 \in S, \A i \in 1..n : i - 1 \in S => i \in S
  PROVE  \A i \in 0..n : i \in S
<1> DEFINE T == {i \in 0..n : i \notin S}
<1> SUFFICES ASSUME T # {} PROVE FALSE
  OBVIOUS
<1>1. PICK i \in T : \A y \in T : i <= y
  <2>1. T \in SUBSET Nat
    OBVIOUS
  <2> HIDE DEF T
  <2> QED
    BY <2>1, LeastExists
<1>2. i \in 1..n
  OBVIOUS
<1>3. i - 1 \in 0..n /\ i - 1 \notin T
  <2>1. ~(i <= i - 1) /\ i - 1 \in 0..n
    BY <1>2
  <2> HIDE DEF T
  <2> QED
    BY <1>1, <2>1
<1> QED
  BY <1>2, <1>3

-----------------------------------------------------------------------------
(* Sequences of sequences.                                                 *)

LEMMA AppendIsSeq ==
  ASSUME NEW T, NEW s \in Seq(T), NEW e \in T
  PROVE  Append(s, e) \in Seq(T) /\ Append(s, e) # <<>>
  BY AppendProperties

LEMMA AppendToLast ==
  ASSUME NEW T, NEW a \in Seq(T), NEW b \in Seq(T), NEW e \in T
  PROVE  a \o Append(b, e) = Append(a \o b, e)
  OBVIOUS

(* flat is what the pieces give one after the other.                       *)
Flattens(T, seqs, flat) ==
  \E f \in [0..Len(seqs) -> Seq(T)] :
    f[0] = <<>> /\ f[Len(seqs)] = flat /\ \A i \in 1..Len(seqs) : f[i] = f[i - 1] \o seqs[i]

LEMMA FlattenSeqIs ==
  ASSUME NEW T, NEW seqs \in Seq(Seq(T)), seqs # <<>>, NEW flat, Flattens(T, seqs, flat)
  PROVE  Record!FlattenSeq(seqs) = flat
<1> DEFINE n == Len(seqs)
<1>1. n \in Nat \ {0} /\ \A i \in 1..n : seqs[i] \in Seq(T)
  OBVIOUS
<1>2. PICK f \in [0..n -> Seq(T)] :
        f[0] = <<>> /\ f[n] = flat /\ \A i \in 1..n : f[i] = f[i - 1] \o seqs[i]
  BY DEF Flattens
<1> DEFINE Is(g) == g = [i \in 1..n |-> IF i = 1 THEN seqs[i] ELSE g[i - 1] \o seqs[i]]
           h == [i \in 1..n |-> f[i]]
<1>3. h[1] = seqs[1]
  <2>1. 1 \in 1..n /\ seqs[1] \in Seq(T) /\ 1 - 1 = 0
    BY <1>1
  <2>2. f[1] = f[1 - 1] \o seqs[1]
    BY <1>2, <2>1
  <2>3. <<>> \o seqs[1] = seqs[1]
    BY <2>1, ConcatEmptySeq
  <2> QED
    BY <1>2, <2>1, <2>2, <2>3
<1>4. Is(h)
  <2> DEFINE k == [i \in 1..n |-> IF i = 1 THEN seqs[i] ELSE h[i - 1] \o seqs[i]]
  <2>1. ASSUME NEW i \in 1..n PROVE h[i] = k[i]
    <3>1. CASE i = 1
      BY <1>3, <3>1
    <3>2. CASE i # 1
      <4>1. i - 1 \in 1..n /\ h[i - 1] = f[i - 1]
        BY <1>1, <3>2
      <4> QED
        BY <1>2, <3>2, <4>1
    <3> QED
      BY <3>1, <3>2
  <2>2. h = [i \in 1..n |-> h[i]] /\ k = [i \in 1..n |-> k[i]]
    OBVIOUS
  <2> QED
    BY <2>1, <2>2
<1> DEFINE flatten == CHOOSE g : Is(g)
<1>5. Is(flatten)
  <2> HIDE DEF Is
  <2> QED
    BY <1>4
<1>6. Record!FlattenSeq(seqs) = flatten[n]
  BY <1>1 DEF Record!FlattenSeq
<1> HIDE DEF flatten
<1>7. flatten[n] = h[n]
  <2> DEFINE S == {i \in 0..n : i = 0 \/ flatten[i] = h[i]}
  <2>1. \A i \in 1..n : flatten[i] = IF i = 1 THEN seqs[i] ELSE flatten[i - 1] \o seqs[i]
    BY <1>5
  <2>2. \A i \in 1..n : h[i] = IF i = 1 THEN seqs[i] ELSE h[i - 1] \o seqs[i]
    BY <1>4
  <2> HIDE DEF h, Is
  <2>3. 0 \in S /\ n \in Nat
    BY <1>1
  <2>4. ASSUME NEW i \in 1..n, i - 1 \in S PROVE i \in S
    <3>1. i # 1 => flatten[i - 1] = h[i - 1]
      BY <2>4
    <3> QED
      BY <2>1, <2>2, <3>1
  <2> HIDE DEF S, n
  <2>5. \A i \in 0..n : i \in S
    BY <2>3, <2>4, UpTo
  <2> QED
    BY <1>1, <2>5 DEF S
<1> QED
  BY <1>1, <1>2, <1>6, <1>7

LEMMA FlattensAppend ==
  ASSUME NEW T, NEW seqs \in Seq(Seq(T)), NEW x \in Seq(T), NEW flat, Flattens(T, seqs, flat)
  PROVE  Flattens(T, Append(seqs, x), flat \o x)
<1> DEFINE n == Len(seqs)
<1>1. PICK f \in [0..n -> Seq(T)] :
        f[0] = <<>> /\ f[n] = flat /\ \A i \in 1..n : f[i] = f[i - 1] \o seqs[i]
  BY DEF Flattens
<1>2. n \in Nat /\ Len(Append(seqs, x)) = n + 1 /\ Append(seqs, x)[n + 1] = x
  OBVIOUS
<1>3. \A i \in 1..n : Append(seqs, x)[i] = seqs[i]
  OBVIOUS
<1> DEFINE g == [i \in 0..(n + 1) |-> IF i = n + 1 THEN flat \o x ELSE f[i]]
<1>4. flat \o x \in Seq(T)
  <2>1. flat \in Seq(T)
    BY <1>1, <1>2
  <2> QED
    BY <2>1, ConcatProperties
<1>5. g \in [0..(n + 1) -> Seq(T)]
  BY <1>2, <1>4
<1>6. g[0] = <<>> /\ g[n + 1] = flat \o x /\ \A i \in 0..n : g[i] = f[i]
  BY <1>1, <1>2
<1>7. ASSUME NEW i \in 1..(n + 1) PROVE g[i] = g[i - 1] \o Append(seqs, x)[i]
  <2>1. g[i - 1] = f[i - 1]
    BY <1>2, <1>6
  <2>2. CASE i = n + 1
    <3>1. i - 1 = n /\ g[i] = flat \o x /\ Append(seqs, x)[i] = x
      BY <1>2, <1>6, <2>2
    <3>2. g[i - 1] = flat
      BY <1>1, <2>1, <3>1
    <3> QED
      BY <3>1, <3>2
  <2>3. CASE i # n + 1
    <3>1. i \in 1..n /\ g[i] = f[i]
      BY <1>2, <1>6, <2>3
    <3> QED
      BY <1>1, <1>3, <2>1, <3>1
  <2> QED
    BY <2>2, <2>3
<1> HIDE DEF g, n
<1> QED
  BY <1>2, <1>5, <1>6, <1>7 DEF Flattens

-----------------------------------------------------------------------------
(* A fold is the last of the states it goes through.                       *)
Goes(f, step, base, seq) ==
  /\ f[0] = base /\ \A i \in 1..Len(seq) : f[i] = step[<<f[i - 1], seq[i]>>]
  /\ Record!Folded(step, base, seq) = f[Len(seq)]

LEMMA FoldedIs ==
  ASSUME NEW D, NEW E, NEW step \in [D \X E -> D], NEW base \in D, NEW seq \in Seq(E)
  PROVE  \E f \in [0..Len(seq) -> D] : Goes(f, step, base, seq)
<1> DEFINE n == Len(seq)
           Is(f) == f = [i \in 0..n |-> IF i = 0 THEN base ELSE step[<<f[i - 1], seq[i]>>]]
           by == [p \in (1..n) \X D |-> step[<<p[2], seq[p[1]]>>]]
           folded == CHOOSE f : Is(f)
<1>1. n \in Nat /\ \A i \in 1..n : seq[i] \in E
  OBVIOUS
<1>2. by \in [(1..n) \X D -> D]
  <2>1. \A p \in (1..n) \X D : step[<<p[2], seq[p[1]]>>] \in D
    BY <1>1
  <2> HIDE DEF n
  <2> QED
    BY <2>1
<1>3. PICK f \in [0..n -> D] : f[0] = base /\ \A i \in 1..n : f[i] = by[<<i, f[i - 1]>>]
  <2> HIDE DEF by, n
  <2>1. \A s \in [(1..n) \X D -> D] : \E f \in [0..n -> D] : Unfolds(f, n, base, s)
    BY <1>1, RecursionExists
  <2> QED
    BY <1>2, <2>1 DEF Unfolds
<1>4. ASSUME NEW i \in 1..n PROVE f[i] = step[<<f[i - 1], seq[i]>>]
  <2>1. <<i, f[i - 1]>> \in (1..n) \X D
    <3>1. i - 1 \in 0..n
      BY <1>1
    <3> HIDE DEF n, by
    <3>2. f[i - 1] \in D
      BY <1>3, <3>1
    <3> QED
      BY <3>2
  <2>2. by[<<i, f[i - 1]>>] = step[<<f[i - 1], seq[i]>>]
    BY <2>1
  <2> HIDE DEF by
  <2> QED
    BY <1>3, <2>2
<1>5. \E g : Is(g)
  <2> DEFINE h == [i \in 0..n |-> IF i = 0 THEN base ELSE step[<<f[i - 1], seq[i]>>]]
  <2>1. \A i \in 0..n : f[i] = h[i]
    BY <1>1, <1>3, <1>4
  <2>2. f = [i \in 0..n |-> f[i]] /\ h = [i \in 0..n |-> h[i]]
    OBVIOUS
  <2>3. f = h
    BY <2>1, <2>2
  <2> QED
    BY <2>3
<1>6. Is(folded)
  <2> HIDE DEF Is
  <2> QED
    BY <1>5
<1>7. Record!Folded(step, base, seq) = folded[n]
  BY DEF Record!Folded
<1> HIDE DEF folded
<1>8. folded[0] = base /\ \A i \in 1..n : folded[i] = step[<<folded[i - 1], seq[i]>>]
  BY <1>1, <1>6
<1> DEFINE S == {i \in 0..n : folded[i] = f[i]}
<1>9. n \in S
  <2>1. 0 \in S
    BY <1>1, <1>3, <1>8
  <2>2. ASSUME NEW i \in 1..n, i - 1 \in S PROVE i \in S
    <3>1. folded[i - 1] = f[i - 1]
      BY <2>2
    <3>2. folded[i] = f[i]
      BY <1>4, <1>8, <3>1
    <3> QED
      BY <1>1, <3>2
  <2> HIDE DEF S, n
  <2>3. \A i \in 0..n : i \in S
    BY <1>1, <2>1, <2>2, UpTo
  <2> QED
    BY <1>1, <2>3
<1>10. Goes(f, step, base, seq)
  BY <1>3, <1>4, <1>7, <1>9 DEF Goes
<1> QED
  BY <1>3, <1>10

(* What holds of the first state and is kept by a step holds of a fold.    *)
LEMMA FoldHolds ==
  ASSUME NEW D, NEW E, NEW step \in [D \X E -> D], NEW base \in D, NEW seq \in Seq(E), NEW RecordInv,
         <<0, base>> \in RecordInv,
         \A i \in 1..Len(seq) : \A d \in D :
           <<i - 1, d>> \in RecordInv => <<i, step[<<d, seq[i]>>]>> \in RecordInv
  PROVE  Record!Folded(step, base, seq) \in D
         /\ <<Len(seq), Record!Folded(step, base, seq)>> \in RecordInv
<1>0. PICK f \in [0..Len(seq) -> D] : Goes(f, step, base, seq)
  BY FoldedIs
<1> DEFINE n == Len(seq)
<1>1. /\ f \in [0..n -> D] /\ f[0] = base /\ \A i \in 1..n : f[i] = step[<<f[i - 1], seq[i]>>]
      /\ Record!Folded(step, base, seq) = f[n]
  BY <1>0 DEF Goes
<1>2. n \in Nat
  OBVIOUS
<1> DEFINE S == {i \in 0..n : <<i, f[i]>> \in RecordInv}
<1>3. 0 \in S
  BY <1>1, <1>2
<1>4. ASSUME NEW i \in 1..n, i - 1 \in S PROVE i \in S
  <2>1. i - 1 \in 0..n /\ i \in 0..n
    BY <1>2
  <2> HIDE DEF n
  <2>2. f[i - 1] \in D
    BY <1>1, <2>1
  <2>3. <<i - 1, f[i - 1]>> \in RecordInv
    BY <1>4
  <2>4. <<i, step[<<f[i - 1], seq[i]>>]>> \in RecordInv
    BY <2>2, <2>3 DEF n
  <2>5. f[i] = step[<<f[i - 1], seq[i]>>]
    BY <1>1
  <2> QED
    BY <2>1, <2>4, <2>5
<1> HIDE DEF S, n
<1>5. n \in S
  <2>1. \A i \in 0..n : i \in S
    BY <1>2, <1>3, <1>4, UpTo
  <2> QED
    BY <1>2, <2>1
<1> QED
  BY <1>1, <1>2, <1>5 DEF S, n

-----------------------------------------------------------------------------
(* Texts.  One that was read begins with a letter and has no two blanks in *)
(* a row; its letters are the ones that were read, in order, and a blank   *)
(* precedes the ones that were apart.                                      *)
Normal(t) ==
  /\ t \in Record!Texts
  /\ t # <<>> => ~Record!IsBlank(t[1])
  /\ \A i \in 2..Len(t) : Record!IsBlank(t[i - 1]) => ~Record!IsBlank(t[i])

Ranked(t, n) ==
  /\ \A i \in 1..Len(t) : Record!IsBlank(t[i]) \/ t[i] \in 1..n
  /\ \A k \in 1..n : \E i \in 1..Len(t) : t[i] = k
  /\ \A i, j \in 1..Len(t) : i < j /\ ~Record!IsBlank(t[i]) /\ ~Record!IsBlank(t[j]) => t[i] < t[j]

Spaced(t, marks) ==
  \A i \in 2..Len(t) : ~Record!IsBlank(t[i]) => (Record!IsBlank(t[i - 1]) <=> marks[t[i]].apart)

Waits(t, mark) == t # <<>> => (Record!IsBlank(t[Len(t)]) <=> mark.apart)

BodyHolds(t, marks, mark) ==
  Normal(t) /\ Ranked(t, Len(marks)) /\ Spaced(t, marks) /\ Waits(t, mark)

LEMMA Appending ==
  ASSUME NEW t \in Record!Texts, NEW c \in Int
  PROVE  /\ Append(t, c) \in Record!Texts /\ Len(Append(t, c)) = Len(t) + 1
         /\ \A i \in 1..Len(t) : Append(t, c)[i] = t[i]
         /\ Append(t, c)[Len(t) + 1] = c /\ Append(t, c) # <<>>
  BY AppendProperties DEF Record!Texts

LEMMA KeptIs ==
  ASSUME NEW t \in Record!Texts, NEW c \in Int
  PROVE  Record!Kept(t, c) = IF c = Record!Space /\ (t = <<>> \/ Record!IsBlank(t[Len(t)])) THEN t ELSE Append(t, c)
  BY DEF Record!Kept, Record!Last

LEMMA KeptNormal ==
  ASSUME NEW t, Normal(t), NEW c \in Int, c # Record!Line
  PROVE  Normal(Record!Kept(t, c))
<1>1. t \in Record!Texts /\ Len(t) \in Nat /\ (t = <<>> <=> Len(t) = 0)
  BY DEF Normal, Record!Texts
<1>2. CASE c = Record!Space /\ (t = <<>> \/ Record!IsBlank(t[Len(t)]))
  BY <1>1, <1>2, KeptIs
<1>3. CASE ~(c = Record!Space /\ (t = <<>> \/ Record!IsBlank(t[Len(t)])))
  <2> DEFINE u == Append(t, c)
  <2>1. Record!Kept(t, c) = u
    BY <1>1, <1>3, KeptIs
  <2>2. /\ u \in Record!Texts /\ Len(u) = Len(t) + 1 /\ \A i \in 1..Len(t) : u[i] = t[i]
        /\ u[Len(t) + 1] = c
    BY <1>1, Appending
  <2> HIDE DEF u
  <2>3. Record!IsBlank(c) => c = Record!Space
    BY DEF Record!IsBlank
  <2>4. u # <<>> => ~Record!IsBlank(u[1])
    <3>1. CASE t = <<>>
      BY <1>1, <1>3, <2>2, <2>3, <3>1
    <3>2. CASE t # <<>>
      BY <1>1, <2>2, <3>2 DEF Normal
    <3> QED
      BY <3>1, <3>2
  <2>5. ASSUME NEW i \in 2..Len(u), Record!IsBlank(u[i - 1]) PROVE ~Record!IsBlank(u[i])
    <3>1. CASE i = Len(t) + 1
      <4>1. i - 1 = Len(t) /\ Len(t) \in 1..Len(t) /\ t # <<>>
        BY <1>1, <2>2, <3>1
      <4> QED
        BY <1>3, <2>2, <2>3, <2>5, <3>1, <4>1
    <3>2. CASE i # Len(t) + 1
      <4>1. i \in 2..Len(t) /\ i \in 1..Len(t) /\ i - 1 \in 1..Len(t)
        BY <1>1, <2>2, <3>2
      <4> QED
        BY <2>2, <2>5, <4>1 DEF Normal
    <3> QED
      BY <3>1, <3>2
  <2> QED
    BY <2>1, <2>2, <2>4, <2>5 DEF Normal
<1> QED
  BY <1>2, <1>3

(* A letter or a space is read.                                            *)
LEMMA TakenKeeps ==
  ASSUME NEW s \in Record!Readings, BodyHolds(s.body, s.read, s.pending), NEW letter \in BOOLEAN
  PROVE  /\ Record!Taken(s, letter) \in Record!Readings
         /\ BodyHolds(Record!Taken(s, letter).body, Record!Taken(s, letter).read, Record!Taken(s, letter).pending)
<1> DEFINE t == s.body
           n == Len(s.read)
<1>1. t \in Record!Texts /\ Len(t) \in Nat
      /\ (t = <<>> <=> Len(t) = 0) /\ s.read \in Seq(Record!Pending) /\ n \in Nat
      /\ s.pending \in Record!Pending
  BY DEF Record!Readings, Record!Texts
<1>2. Normal(t) /\ Ranked(t, n) /\ Spaced(t, s.read) /\ Waits(t, s.pending)
  BY DEF BodyHolds
<1>3. ASSUME letter
      PROVE  /\ Record!Taken(s, letter) \in Record!Readings
             /\ BodyHolds(Record!Taken(s, letter).body, Record!Taken(s, letter).read, Record!Taken(s, letter).pending)
  <2> DEFINE u == Append(t, n + 1)
             marks == Append(s.read, s.pending)
             mark == [apart |-> FALSE, block |-> FALSE]
  <2>1. n + 1 \in Int /\ n + 1 # Record!Line /\ n + 1 # Record!Space /\ ~Record!IsBlank(n + 1)
    BY <1>1 DEF Record!Line, Record!Space, Record!IsBlank
  <2>2. Record!Kept(t, n + 1) = u
    BY <1>1, <2>1, KeptIs
  <2>3. Record!Taken(s, letter) = [body |-> u, read |-> marks, pending |-> mark]
    BY <1>3, <2>2 DEF Record!Taken
  <2>4. Normal(u)
    BY <1>2, <2>1, <2>2, KeptNormal
  <2>5. /\ u \in Record!Texts /\ Len(u) = Len(t) + 1 /\ \A i \in 1..Len(t) : u[i] = t[i]
        /\ u[Len(t) + 1] = n + 1 /\ u # <<>>
    BY <1>1, <2>1, Appending
  <2>6. /\ marks \in Seq(Record!Pending) /\ Len(marks) = n + 1 /\ \A k \in 1..n : marks[k] = s.read[k]
        /\ marks[n + 1] = s.pending
    BY <1>1, AppendProperties
  <2>7. mark \in Record!Pending /\ mark.apart = FALSE
    BY DEF Record!Pending
  <2>8. Record!Taken(s, letter) \in Record!Readings
    BY <2>3, <2>5, <2>6, <2>7 DEF Record!Readings
  <2> HIDE DEF u, marks, mark
  <2>9. Ranked(u, n + 1)
    <3>1. ASSUME NEW i \in 1..Len(u) PROVE Record!IsBlank(u[i]) \/ u[i] \in 1..(n + 1)
      <4>1. CASE i = Len(t) + 1
        BY <1>1, <2>5, <4>1
      <4>2. CASE i # Len(t) + 1
        <5>1. i \in 1..Len(t)
          BY <1>1, <2>5, <4>2
        <5>2. Record!IsBlank(t[i]) \/ t[i] \in 1..n
          BY <1>2, <5>1 DEF Ranked
        <5> QED
          BY <1>1, <2>5, <5>1, <5>2
      <4> QED
        BY <4>1, <4>2
    <3>2. ASSUME NEW k \in 1..(n + 1) PROVE \E i \in 1..Len(u) : u[i] = k
      <4>1. CASE k = n + 1
        BY <1>1, <2>5, <4>1
      <4>2. CASE k # n + 1
        <5>1. k \in 1..n
          BY <1>1, <4>2
        <5>2. PICK i \in 1..Len(t) : t[i] = k
          BY <1>2, <5>1 DEF Ranked
        <5>3. i \in 1..Len(u) /\ u[i] = k
          BY <1>1, <2>5, <5>2
        <5> QED
          BY <5>3
      <4> QED
        BY <4>1, <4>2
    <3>3. ASSUME NEW i \in 1..Len(u), NEW j \in 1..Len(u), i < j, ~Record!IsBlank(u[i]),
                 ~Record!IsBlank(u[j])
          PROVE  u[i] < u[j]
      <4>1. i \in 1..Len(t) /\ u[i] = t[i] /\ t[i] \in 1..n
        <5>1. i \in 1..Len(t)
          BY <1>1, <2>5, <3>3
        <5> QED
          BY <1>2, <2>5, <3>3, <5>1 DEF Ranked
      <4>2. CASE j = Len(t) + 1
        BY <1>1, <2>5, <4>1, <4>2
      <4>3. CASE j # Len(t) + 1
        <5>1. j \in 1..Len(t) /\ u[j] = t[j]
          BY <1>1, <2>5, <4>3
        <5> QED
          BY <1>2, <3>3, <4>1, <5>1 DEF Ranked
      <4> QED
        BY <4>2, <4>3
    <3> QED
      BY <3>1, <3>2, <3>3 DEF Ranked
  <2>10. ASSUME NEW i \in 2..Len(u),
                ~Record!IsBlank(u[i]) PROVE Record!IsBlank(u[i - 1]) <=> marks[u[i]].apart
    <3>1. CASE i = Len(t) + 1
      <4>1. t # <<>> /\ Len(t) \in 1..Len(t) /\ i - 1 = Len(t)
        BY <1>1, <2>5, <3>1
      <4>2. Record!IsBlank(t[Len(t)]) <=> s.pending.apart
        BY <1>2, <4>1 DEF Waits
      <4>3. u[i - 1] = t[Len(t)] /\ u[i] = n + 1
        BY <2>5, <3>1, <4>1
      <4> QED
        BY <2>6, <4>2, <4>3
    <3>2. CASE i # Len(t) + 1
      <4>1. i \in 2..Len(t) /\ i \in 1..Len(t) /\ i - 1 \in 1..Len(t)
        BY <1>1, <2>5, <3>2
      <4>2. u[i] = t[i] /\ u[i - 1] = t[i - 1]
        BY <2>5, <4>1
      <4>3. t[i] \in 1..n
        BY <1>2, <2>10, <4>1, <4>2 DEF Ranked
      <4>4. Record!IsBlank(t[i - 1]) <=> s.read[t[i]].apart
        BY <1>2, <2>10, <4>1, <4>2 DEF Spaced
      <4> QED
        BY <2>6, <4>2, <4>3, <4>4
    <3> QED
      BY <3>1, <3>2
  <2>11. Waits(u, mark)
    <3>1. u[Len(u)] = n + 1
      BY <2>5
    <3> QED
      BY <2>1, <2>7, <3>1 DEF Waits
  <2>12. BodyHolds(u, marks, mark)
    BY <2>4, <2>6, <2>9, <2>10, <2>11 DEF BodyHolds, Spaced
  <2> QED
    BY <2>3, <2>8, <2>12
<1>4. ASSUME ~letter
      PROVE  /\ Record!Taken(s, letter) \in Record!Readings
             /\ BodyHolds(Record!Taken(s, letter).body, Record!Taken(s, letter).read, Record!Taken(s, letter).pending)
  <2> DEFINE u == Record!Kept(t, Record!Space)
             mark == [s.pending EXCEPT !.apart = TRUE]
  <2>1. Record!Taken(s, letter).body = u /\ Record!Taken(s, letter).read = s.read
        /\ Record!Taken(s, letter).pending = mark
    BY <1>4 DEF Record!Taken, Record!Readings
  <2>2. mark \in Record!Pending /\ mark.apart = TRUE
    BY <1>1 DEF Record!Pending
  <2>3. Record!Space \in Int /\ Record!Space # Record!Line /\ Record!IsBlank(Record!Space)
    BY DEF Record!Space, Record!Line, Record!IsBlank
  <2>4. Normal(u)
    BY <1>2, <2>3, KeptNormal
  <2>5. u \in Record!Texts
    BY <2>4 DEF Normal
  <2>6. Record!Taken(s, letter) \in Record!Readings
    BY <1>4, <2>2, <2>5 DEF Record!Taken, Record!Readings
  <2> HIDE DEF mark
  <2>7. Ranked(u, n) /\ Spaced(u, s.read) /\ Waits(u, mark)
    <3>1. CASE t = <<>> \/ Record!IsBlank(t[Len(t)])
      <4>1. u = t
        BY <1>1, <2>3, <3>1, KeptIs
      <4> HIDE DEF u
      <4> QED
        BY <1>2, <2>2, <3>1, <4>1 DEF Waits
    <3>2. CASE ~(t = <<>> \/ Record!IsBlank(t[Len(t)]))
      <4>1. u = Append(t, Record!Space)
        BY <1>1, <2>3, <3>2, KeptIs
      <4> HIDE DEF u
      <4>2. /\ Len(u) = Len(t) + 1 /\ \A i \in 1..Len(t) : u[i] = t[i]
            /\ u[Len(t) + 1] = Record!Space /\ u # <<>>
        BY <1>1, <2>3, <4>1, Appending
      <4>3. \A i \in 1..Len(u) : ~Record!IsBlank(u[i]) => i \in 1..Len(t) /\ u[i] = t[i]
        BY <1>1, <2>3, <4>2
      <4>4. Ranked(u, n)
        <5>1. \A i \in 1..Len(u) : Record!IsBlank(u[i]) \/ u[i] \in 1..n
          BY <1>2, <4>3 DEF Ranked
        <5>2. \A k \in 1..n : \E i \in 1..Len(u) : u[i] = k
          <6>1. \A i \in 1..Len(t) : i \in 1..Len(u) /\ u[i] = t[i]
            BY <1>1, <4>2
          <6> QED
            BY <1>2, <6>1 DEF Ranked
        <5>3. \A i, j \in 1..Len(u) : i < j /\ ~Record!IsBlank(u[i]) /\ ~Record!IsBlank(u[j]) => u[i] < u[j]
          BY <1>2, <4>3 DEF Ranked
        <5> QED
          BY <5>1, <5>2, <5>3 DEF Ranked
      <4>5. Spaced(u, s.read)
        <5> SUFFICES ASSUME NEW i \in 2..Len(u), ~Record!IsBlank(u[i])
                     PROVE  Record!IsBlank(u[i - 1]) <=> s.read[u[i]].apart
          BY DEF Spaced
        <5>1. i \in 1..Len(t) /\ u[i] = t[i]
          BY <1>1, <4>2, <4>3
        <5>2. i \in 2..Len(t) /\ i - 1 \in 1..Len(t)
          BY <1>1, <5>1
        <5> QED
          BY <1>2, <4>2, <5>1, <5>2 DEF Spaced
      <4>6. Waits(u, mark)
        BY <2>2, <2>3, <4>2 DEF Waits
      <4> QED
        BY <4>4, <4>5, <4>6
    <3> QED
      BY <3>1, <3>2
  <2>8. BodyHolds(u, s.read, mark)
    BY <2>4, <2>7 DEF BodyHolds
  <2> QED
    BY <2>1, <2>6, <2>8
<1> QED
  BY <1>3, <1>4

LEMMA MaxIs ==
  ASSUME NEW S \in SUBSET Int, NEW m \in S, \A x \in S : x <= m
  PROVE  Record!Max(S) = m
<1> DEFINE Is(x) == x \in S /\ \A y \in S : x >= y
<1>1. Is(m)
  OBVIOUS
<1>2. \A x : Is(x) => x = m
  OBVIOUS
<1>3. Record!Max(S) = CHOOSE x : Is(x)
  BY DEF Record!Max
<1> HIDE DEF Is
<1> QED
  BY <1>1, <1>2, <1>3

(* What is trimmed ends with a letter; what went is blank.                 *)
LEMMA TrimEndIs ==
  ASSUME NEW t \in Record!Texts
  PROVE  \E n \in 0..Len(t) :
           /\ Record!TrimEnd(t) = SubSeq(t, 1, n) /\ (n = 0 \/ ~Record!IsBlank(t[n]))
           /\ \A i \in (n + 1)..Len(t) : Record!IsBlank(t[i])
<1> DEFINE S == {0} \union {i \in DOMAIN t : ~Record!IsBlank(t[i])}
<1>1. Len(t) \in Nat /\ DOMAIN t = 1..Len(t)
  BY DEF Record!Texts
<1>2. S \in SUBSET Nat /\ S # {} /\ \A y \in S : y <= Len(t)
  BY <1>1
<1>3. \A y \in S : y = 0 \/ ~Record!IsBlank(t[y])
  OBVIOUS
<1>4. \A i \in 1..Len(t) : ~Record!IsBlank(t[i]) => i \in S
  BY <1>1
<1>5. Record!TrimEnd(t) = SubSeq(t, 1, Record!Max(S))
  BY DEF Record!TrimEnd
<1> HIDE DEF S
<1>6. PICK n \in S : \A y \in S : y <= n
  BY <1>1, <1>2, GreatestExists
<1>7. Record!Max(S) = n
  <2>1. S \in SUBSET Int
    BY <1>2
  <2> QED
    BY <1>6, <2>1, MaxIs
<1>8. n \in 0..Len(t)
  BY <1>1, <1>2
<1>9. \A i \in (n + 1)..Len(t) : Record!IsBlank(t[i])
  <2> SUFFICES ASSUME NEW i \in (n + 1)..Len(t), ~Record!IsBlank(t[i]) PROVE FALSE
    OBVIOUS
  <2>1. i \in 1..Len(t) /\ i > n
    BY <1>1, <1>8
  <2>2. i \in S
    BY <1>4, <2>1
  <2> QED
    BY <1>6, <1>8, <2>1, <2>2
<1> QED
  BY <1>3, <1>5, <1>7, <1>8, <1>9

LEMMA Cutting ==
  ASSUME NEW t \in Record!Texts, NEW a \in 1..(Len(t) + 1), NEW b \in 0..Len(t), a <= b + 1
  PROVE  /\ SubSeq(t, a, b) \in Record!Texts /\ Len(SubSeq(t, a, b)) = b - a + 1
         /\ \A i \in 1..(b - a + 1) : SubSeq(t, a, b)[i] = t[a + i - 1]
<1>1. Len(t) \in Nat
  BY DEF Record!Texts
<1>2. a \in Int /\ b \in Int /\ \A i \in a..b : t[i] \in Int
  <2>1. \A i \in a..b : i \in 1..Len(t)
    BY <1>1
  <2> QED
    BY <2>1 DEF Record!Texts
<1>3. SubSeq(t, a, b) \in Record!Texts /\ Len(SubSeq(t, a, b)) = IF a <= b THEN b - a + 1 ELSE 0
  BY <1>2, SubSeqProperties DEF Record!Texts
<1>4. \A i \in 1..(b - a + 1) : SubSeq(t, a, b)[i] = t[a + i - 1]
  BY <1>2, SubSeqProperties
<1> QED
  BY <1>1, <1>3, <1>4

(* The beginning of a text that was read.                                  *)
LEMMA BeginningIsNormal ==
  ASSUME NEW t, Normal(t), NEW n \in 0..Len(t)
  PROVE  Normal(SubSeq(t, 1, n))
<1> DEFINE u == SubSeq(t, 1, n)
<1>1. t \in Record!Texts /\ Len(t) \in Nat
  BY DEF Normal, Record!Texts
<1>2. u \in Record!Texts /\ Len(u) = n /\ \A i \in 1..n : u[i] = t[i]
  <2>1. 1 \in 1..(Len(t) + 1) /\ 1 <= n + 1
    BY <1>1
  <2>2. u \in Record!Texts /\ Len(u) = n - 1 + 1 /\ \A i \in 1..(n - 1 + 1) : u[i] = t[1 + i - 1]
    BY <1>1, <2>1, Cutting
  <2> HIDE DEF u
  <2> QED
    BY <1>1, <2>2
<1> HIDE DEF u
<1>3. u # <<>> => ~Record!IsBlank(u[1])
  <2> SUFFICES ASSUME u # <<>> PROVE ~Record!IsBlank(u[1])
    OBVIOUS
  <2>1. n >= 1
    BY <1>1, <1>2 DEF Record!Texts
  <2>2. t # <<>> /\ 1 \in 1..n
    BY <1>1, <2>1
  <2> QED
    BY <1>2, <2>2 DEF Normal
<1>4. ASSUME NEW i \in 2..Len(u), Record!IsBlank(u[i - 1]) PROVE ~Record!IsBlank(u[i])
  <2>1. i \in 1..n /\ i - 1 \in 1..n /\ i \in 2..Len(t)
    BY <1>1, <1>2
  <2> QED
    BY <1>2, <1>4, <2>1 DEF Normal
<1> QED
  BY <1>2, <1>3, <1>4 DEF Normal, u

(* Its letters, when only blanks are left out.                             *)
LEMMA BeginningIsRead ==
  ASSUME NEW t, Normal(t), NEW marks, NEW n \in Nat, Ranked(t, n), Spaced(t, marks),
         NEW m \in 0..Len(t), \A i \in (m + 1)..Len(t) : Record!IsBlank(t[i])
  PROVE  Ranked(SubSeq(t, 1, m), n) /\ Spaced(SubSeq(t, 1, m), marks)
<1> DEFINE u == SubSeq(t, 1, m)
<1>1. t \in Record!Texts /\ Len(t) \in Nat
  BY DEF Normal, Record!Texts
<1>2. u \in Record!Texts /\ Len(u) = m /\ \A i \in 1..m : u[i] = t[i]
  <2>1. 1 \in 1..(Len(t) + 1) /\ 1 <= m + 1
    BY <1>1
  <2>2. u \in Record!Texts /\ Len(u) = m - 1 + 1 /\ \A i \in 1..(m - 1 + 1) : u[i] = t[1 + i - 1]
    BY <1>1, <2>1, Cutting
  <2> HIDE DEF u
  <2> QED
    BY <1>1, <2>2
<1> HIDE DEF u
<1>3. \A i \in 1..Len(u) : i \in 1..Len(t) /\ u[i] = t[i]
  BY <1>1, <1>2
<1>4. \A i \in 1..Len(t) : ~Record!IsBlank(t[i]) => i \in 1..Len(u) /\ u[i] = t[i]
  BY <1>1, <1>2
<1>5. Ranked(u, n)
  <2>1. \A i \in 1..Len(u) : Record!IsBlank(u[i]) \/ u[i] \in 1..n
    BY <1>3 DEF Ranked
  <2>2. ASSUME NEW k \in 1..n PROVE \E i \in 1..Len(u) : u[i] = k
    <3>1. PICK i \in 1..Len(t) : t[i] = k
      BY DEF Ranked
    <3>2. ~Record!IsBlank(k)
      BY DEF Record!IsBlank, Record!Space, Record!Line
    <3> QED
      BY <1>4, <3>1, <3>2
  <2>3. \A i, j \in 1..Len(u) : i < j /\ ~Record!IsBlank(u[i]) /\ ~Record!IsBlank(u[j]) => u[i] < u[j]
    BY <1>3 DEF Ranked
  <2> QED
    BY <2>1, <2>2, <2>3 DEF Ranked
<1>6. Spaced(u, marks)
  <2> SUFFICES ASSUME NEW i \in 2..Len(u), ~Record!IsBlank(u[i])
               PROVE  Record!IsBlank(u[i - 1]) <=> marks[u[i]].apart
    BY DEF Spaced
  <2>1. i \in 1..m /\ i - 1 \in 1..m /\ i \in 2..Len(t)
    BY <1>1, <1>2
  <2> QED
    BY <1>2, <2>1 DEF Spaced
<1> QED
  BY <1>5, <1>6 DEF u

(* A blank after a letter.                                                 *)
LEMMA BlankAppended ==
  ASSUME NEW t, Normal(t), t # <<>>, ~Record!IsBlank(t[Len(t)]), NEW c \in Int, Record!IsBlank(c),
         NEW marks, NEW n \in Nat, Ranked(t, n), Spaced(t, marks)
  PROVE  Normal(Append(t, c)) /\ Ranked(Append(t, c), n) /\ Spaced(Append(t, c), marks)
<1> DEFINE u == Append(t, c)
<1>1. t \in Record!Texts /\ Len(t) \in Nat \ {0}
  BY DEF Normal, Record!Texts
<1>2. /\ u \in Record!Texts /\ Len(u) = Len(t) + 1 /\ \A i \in 1..Len(t) : u[i] = t[i]
      /\ u[Len(t) + 1] = c /\ u # <<>>
  BY <1>1, Appending
<1> HIDE DEF u
<1>3. \A i \in 1..Len(u) : ~Record!IsBlank(u[i]) => i \in 1..Len(t) /\ u[i] = t[i]
  BY <1>1, <1>2
<1>4. Normal(u)
  <2>1. ~Record!IsBlank(u[1])
    BY <1>1, <1>2 DEF Normal
  <2>2. ASSUME NEW i \in 2..Len(u), Record!IsBlank(u[i - 1]) PROVE ~Record!IsBlank(u[i])
    <3>1. CASE i = Len(t) + 1
      <4>1. i - 1 = Len(t) /\ Len(t) \in 1..Len(t)
        BY <1>1, <3>1
      <4> QED
        BY <1>2, <2>2, <4>1
    <3>2. CASE i # Len(t) + 1
      <4>1. i \in 2..Len(t) /\ i \in 1..Len(t) /\ i - 1 \in 1..Len(t)
        BY <1>1, <1>2, <3>2
      <4> QED
        BY <1>2, <2>2, <4>1 DEF Normal
    <3> QED
      BY <3>1, <3>2
  <2> QED
    BY <1>2, <2>1, <2>2 DEF Normal
<1>5. Ranked(u, n)
  <2>1. \A i \in 1..Len(u) : Record!IsBlank(u[i]) \/ u[i] \in 1..n
    BY <1>3 DEF Ranked
  <2>2. \A k \in 1..n : \E i \in 1..Len(u) : u[i] = k
    <3>1. \A i \in 1..Len(t) : i \in 1..Len(u) /\ u[i] = t[i]
      BY <1>1, <1>2
    <3> QED
      BY <3>1 DEF Ranked
  <2>3. \A i, j \in 1..Len(u) : i < j /\ ~Record!IsBlank(u[i]) /\ ~Record!IsBlank(u[j]) => u[i] < u[j]
    BY <1>3 DEF Ranked
  <2> QED
    BY <2>1, <2>2, <2>3 DEF Ranked
<1>6. Spaced(u, marks)
  <2> SUFFICES ASSUME NEW i \in 2..Len(u), ~Record!IsBlank(u[i])
               PROVE  Record!IsBlank(u[i - 1]) <=> marks[u[i]].apart
    BY DEF Spaced
  <2>1. i \in 1..Len(t) /\ u[i] = t[i]
    BY <1>1, <1>2, <1>3
  <2>2. i \in 2..Len(t) /\ i - 1 \in 1..Len(t)
    BY <1>1, <2>1
  <2> QED
    BY <1>2, <2>1, <2>2 DEF Spaced
<1> QED
  BY <1>4, <1>5, <1>6 DEF u

(* The end of a block.                                                     *)
LEMMA ClosedKeeps ==
  ASSUME NEW t, NEW marks, NEW mark, BodyHolds(t, marks, mark), Len(marks) \in Nat,
         NEW closed, closed.apart = TRUE
  PROVE  BodyHolds(Record!Closed(t), marks, closed)
<1> DEFINE n == Len(marks)
           S == {0} \union {i \in DOMAIN t : t[i] # Record!Space}
<1>1. Normal(t) /\ Ranked(t, n) /\ Spaced(t, marks) /\ Waits(t, mark)
  BY DEF BodyHolds
<1>2. t \in Record!Texts /\ Len(t) \in Nat /\ DOMAIN t = 1..Len(t) /\ (t = <<>> <=> Len(t) = 0)
  BY <1>1 DEF Normal, Record!Texts
<1>3. S \in SUBSET Nat /\ S # {} /\ \A y \in S : y <= Len(t)
  BY <1>2
<1>4. \A y \in S : y = 0 \/ t[y] # Record!Space
  OBVIOUS
<1>5. \A i \in 1..Len(t) : t[i] # Record!Space => i \in S
  BY <1>2
<1> DEFINE trimmed == SubSeq(t, 1, Record!Max(S))
<1>6. Record!Closed(t) = IF trimmed # <<>> /\ Record!Last(trimmed) # Record!Line THEN Append(trimmed, Record!Line) ELSE trimmed
  BY DEF Record!Closed
<1> HIDE DEF S
<1>7. PICK m \in S : \A y \in S : y <= m
  BY <1>2, <1>3, GreatestExists
<1>8. m \in 0..Len(t) /\ m \in Nat
  BY <1>2, <1>3
<1>9. trimmed = SubSeq(t, 1, m)
  <2>1. S \in SUBSET Int
    BY <1>3
  <2> QED
    BY <1>7, <2>1, MaxIs
<1> HIDE DEF trimmed
<1>10. \A i \in (m + 1)..Len(t) : t[i] = Record!Space
  <2> SUFFICES ASSUME NEW i \in (m + 1)..Len(t), t[i] # Record!Space PROVE FALSE
    OBVIOUS
  <2>1. i \in 1..Len(t) /\ i > m
    BY <1>2, <1>8
  <2> QED
    BY <1>5, <1>7, <1>8, <2>1
<1>11. \A i \in (m + 1)..Len(t) : Record!IsBlank(t[i])
  BY <1>10 DEF Record!IsBlank
<1>12. Normal(trimmed) /\ Ranked(trimmed, n) /\ Spaced(trimmed, marks)
  <2> HIDE DEF n
  <2>1. n \in Nat
    BY DEF n
  <2> QED
    BY <1>1, <1>8, <1>9, <1>11, <2>1, BeginningIsNormal, BeginningIsRead
<1>13. trimmed \in Record!Texts /\ Len(trimmed) = m /\ \A i \in 1..m : trimmed[i] = t[i]
  <2>1. 1 \in 1..(Len(t) + 1) /\ 1 <= m + 1
    BY <1>2, <1>8
  <2>2. trimmed \in Record!Texts /\ Len(trimmed) = m - 1 + 1
        /\ \A i \in 1..(m - 1 + 1) : trimmed[i] = t[1 + i - 1]
    BY <1>2, <1>8, <1>9, <2>1, Cutting
  <2> QED
    BY <1>8, <2>2
<1>14. CASE t = <<>>
  <2>1. trimmed = <<>>
    BY <1>2, <1>8, <1>13, <1>14 DEF Record!Texts
  <2>2. Record!Closed(t) = <<>> /\ Record!Closed(t) = trimmed
    BY <1>6, <2>1
  <2> QED
    BY <1>12, <2>2 DEF BodyHolds, Waits
<1>15. CASE t # <<>>
  <2>1. m # 0
    <3>1. t[1] # Record!Space /\ 1 \in 1..Len(t)
      BY <1>1, <1>2, <1>15 DEF Normal, Record!IsBlank
    <3> QED
      BY <1>5, <1>7, <1>8, <3>1
  <2>2. trimmed # <<>> /\ Record!Last(trimmed) = t[m] /\ trimmed[Len(trimmed)] = t[m]
        /\ t[m] # Record!Space
    <3>1. m \in 1..m /\ trimmed # <<>>
      BY <1>8, <1>13, <2>1 DEF Record!Texts
    <3> QED
      BY <1>4, <1>13, <2>1, <3>1 DEF Record!Last
  <2>3. CASE t[m] = Record!Line
    <3>1. Record!Closed(t) = trimmed
      BY <1>6, <2>2, <2>3
    <3>2. Waits(trimmed, closed)
      BY <2>2, <2>3 DEF Waits, Record!IsBlank
    <3> QED
      BY <1>12, <3>1, <3>2 DEF BodyHolds
  <2>4. CASE t[m] # Record!Line
    <3>1. Record!Closed(t) = Append(trimmed, Record!Line)
      BY <1>6, <2>2, <2>4
    <3>2. ~Record!IsBlank(trimmed[Len(trimmed)])
      BY <2>2, <2>4 DEF Record!IsBlank
    <3>3. Record!Line \in Int /\ Record!IsBlank(Record!Line)
      BY DEF Record!Line, Record!IsBlank
    <3> DEFINE u == Append(trimmed, Record!Line)
    <3>4. Normal(u) /\ Ranked(u, n) /\ Spaced(u, marks)
      <4> HIDE DEF n
      <4>1. n \in Nat
        BY DEF n
      <4> QED
        BY <1>12, <2>2, <3>2, <3>3, <4>1, BlankAppended
    <3>5. u[Len(u)] = Record!Line
      BY <1>13, <3>3, Appending
    <3>6. Waits(u, closed)
      BY <3>3, <3>5 DEF Waits
    <3> QED
      BY <3>1, <3>4, <3>6 DEF BodyHolds
  <2> QED
    BY <2>3, <2>4
<1> QED
  BY <1>14, <1>15

LEMMA KeptType ==
  ASSUME NEW t \in Record!Texts, NEW c \in Int
  PROVE  Record!Kept(t, c) \in Record!Texts
<1>1. Append(t, c) \in Record!Texts
  BY Appending
<1> QED
  BY <1>1, KeptIs

LEMMA TakenType ==
  ASSUME NEW s \in Record!Readings, NEW letter \in BOOLEAN
  PROVE  Record!Taken(s, letter) \in Record!Readings
<1>1. s.body \in Record!Texts /\ s.read \in Seq(Record!Pending) /\ s.pending \in Record!Pending
      /\ Len(s.read) + 1 \in Int
      /\ Record!Space \in Int
  BY DEF Record!Readings, Record!Space
<1>2. CASE letter
  <2>1. Record!Kept(s.body, Len(s.read) + 1) \in Record!Texts
    BY <1>1, KeptType
  <2>2. Append(s.read, s.pending) \in Seq(Record!Pending)
    BY <1>1
  <2>3. [apart |-> FALSE, block |-> FALSE] \in Record!Pending
    BY DEF Record!Pending
  <2> QED
    BY <1>2, <2>1, <2>2, <2>3 DEF Record!Taken, Record!Readings
<1>3. CASE ~letter
  <2>1. Record!Kept(s.body, Record!Space) \in Record!Texts
    BY <1>1, KeptType
  <2>2. [s.pending EXCEPT !.apart = TRUE] \in Record!Pending
    BY <1>1 DEF Record!Pending
  <2> QED
    BY <1>3, <2>1, <2>2 DEF Record!Taken, Record!Readings
<1> QED
  BY <1>2, <1>3

LEMMA TakenAllKeeps ==
  ASSUME BodyHolds(body, read, separation), body \in Record!Texts, read \in Seq(Record!Pending),
         separation \in Record!Pending,
         NEW piece \in Seq(BOOLEAN)
  PROVE  /\ Record!TakenAll(piece) \in Record!Readings
         /\ BodyHolds(Record!TakenAll(piece).body, Record!TakenAll(piece).read, Record!TakenAll(piece).pending)
<1> DEFINE step == [p \in Record!Readings \X BOOLEAN |-> Record!Taken(p[1], p[2])]
           base == [body |-> body, read |-> read, pending |-> separation]
           Holds(s) == BodyHolds(s.body, s.read, s.pending)
           RecordInv == {p \in Nat \X Record!Readings : Holds(p[2])}
<1>1. Record!TakenAll(piece) = Record!Folded(step, base, piece)
  BY DEF Record!TakenAll
<1>2. base \in Record!Readings /\ Holds(base)
  BY DEF Record!Readings
<1>3. \A s \in Record!Readings : \A l \in BOOLEAN : Record!Taken(s, l) \in Record!Readings
  BY TakenType
<1>4. \A s \in Record!Readings : \A l \in BOOLEAN : Holds(s) => Holds(Record!Taken(s, l))
  BY TakenKeeps
<1>5. step \in [Record!Readings \X BOOLEAN -> Record!Readings]
  BY <1>3
<1>6. \A s \in Record!Readings : \A l \in BOOLEAN : step[<<s, l>>] = Record!Taken(s, l)
  OBVIOUS
<1> HIDE DEF step, base, Holds
<1>7. <<0, base>> \in RecordInv
  BY <1>2
<1>8. ASSUME NEW i \in 1..Len(piece), NEW s \in Record!Readings, <<i - 1, s>> \in RecordInv
      PROVE  <<i, step[<<s, piece[i]>>]>> \in RecordInv
  <2>1. piece[i] \in BOOLEAN /\ i \in Nat /\ Holds(s)
    BY <1>8
  <2> QED
    BY <1>3, <1>4, <1>6, <2>1
<1> HIDE DEF RecordInv
<1>9. Record!Folded(step, base, piece) \in Record!Readings
      /\ <<Len(piece), Record!Folded(step, base, piece)>> \in RecordInv
  BY <1>2, <1>5, <1>7, <1>8, FoldHolds
<1> QED
  BY <1>1, <1>9 DEF RecordInv, Holds

-----------------------------------------------------------------------------
(* Segments: a text that holds the letters lo + 1 to hi, in order; a chain *)
(* of texts holds each what comes after the one before.                    *)
Covers(t, lo, hi) ==
  /\ lo <= hi
  /\ \A i \in 1..Len(t) : Record!IsBlank(t[i]) \/ t[i] \in (lo + 1)..hi
  /\ \A k \in (lo + 1)..hi : \E i \in 1..Len(t) : t[i] = k
  /\ \A i, j \in 1..Len(t) : i < j /\ ~Record!IsBlank(t[i]) /\ ~Record!IsBlank(t[j]) => t[i] < t[j]

Segment(t, lo, hi, marks) == t \in Record!Texts /\ Spaced(t, marks) /\ Covers(t, lo, hi)

Chain(ps, lo, hi, marks) ==
  \E cut \in [0..Len(ps) -> Nat] :
    /\ cut[0] = lo /\ cut[Len(ps)] = hi
    /\ \A k \in 1..Len(ps) : Segment(ps[k], cut[k - 1], cut[k], marks)

OneLine(t) == \A i \in 1..Len(t) : t[i] # Record!Line
EndsInLetter(t) == t # <<>> /\ ~Record!IsBlank(t[Len(t)])

(* The letters up to position m are those up to h.                         *)
Upto(t, m, h) ==
  /\ \A i \in 1..m : Record!IsBlank(t[i]) \/ t[i] <= h
  /\ \A i \in (m + 1)..Len(t) : Record!IsBlank(t[i]) \/ t[i] > h

LEMMA RankedCovers ==
  ASSUME NEW t, NEW n \in Nat
  PROVE  Ranked(t, n) <=> Covers(t, 0, n)
<1>1. 0 + 1 = 1 /\ 0 <= n
  OBVIOUS
<1> QED
  BY <1>1 DEF Ranked, Covers

LEMMA EmptyCovers ==
  ASSUME NEW h \in Nat, NEW marks
  PROVE  <<>> \in Record!Texts /\ Normal(<<>>) /\ Segment(<<>>, h, h, marks) /\ OneLine(<<>>)
<1>1. <<>> \in Record!Texts /\ Len(<<>>) = 0 /\ (h + 1)..h = {} /\ h <= h /\ 1..0 = {} /\ 2..0 = {}
  BY DEF Record!Texts
<1> QED
  BY <1>1 DEF Normal, Segment, Spaced, Covers, OneLine

LEMMA CoversBlank ==
  ASSUME NEW t \in Record!Texts, NEW lo \in Nat, NEW hi \in Nat, Covers(t, lo, hi), NEW c \in Int,
         Record!IsBlank(c)
  PROVE  Covers(Append(t, c), lo, hi)
<1> DEFINE u == Append(t, c)
<1>1. Len(t) \in Nat /\ Len(u) = Len(t) + 1 /\ (\A i \in 1..Len(t) : u[i] = t[i]) /\ u[Len(t) + 1] = c
  BY Appending DEF Record!Texts
<1> HIDE DEF u
<1>2. \A i \in 1..Len(u) : Record!IsBlank(u[i]) \/ (i \in 1..Len(t) /\ u[i] = t[i])
  BY <1>1
<1>3. \A i \in 1..Len(t) : i \in 1..Len(u) /\ u[i] = t[i]
  BY <1>1
<1> QED
  BY <1>2, <1>3 DEF Covers, u

LEMMA CoversLetter ==
  ASSUME NEW t \in Record!Texts, NEW lo \in Nat, NEW hi \in Nat, Covers(t, lo, hi)
  PROVE  Covers(Append(t, hi + 1), lo, hi + 1)
<1> DEFINE u == Append(t, hi + 1)
<1>1. Len(t) \in Nat /\ Len(u) = Len(t) + 1
      /\ (\A i \in 1..Len(t) : u[i] = t[i]) /\ u[Len(t) + 1] = hi + 1
  BY Appending DEF Record!Texts
<1> HIDE DEF u
<1>2. \A i \in 1..Len(u) : (i = Len(t) + 1 /\ u[i] = hi + 1) \/ (i \in 1..Len(t) /\ u[i] = t[i])
  BY <1>1
<1>3. \A i \in 1..Len(t) : i \in 1..Len(u) /\ u[i] = t[i]
  BY <1>1
<1>4. \A i \in 1..Len(t) : Record!IsBlank(t[i]) \/ (t[i] \in (lo + 1)..hi /\ t[i] < hi + 1)
  BY DEF Covers
<1>5. \A i \in 1..Len(u) : Record!IsBlank(u[i]) \/ u[i] \in (lo + 1)..(hi + 1)
  <2>1. lo <= hi
    BY DEF Covers
  <2> QED
    BY <1>2, <1>4, <2>1
<1>6. ASSUME NEW k \in (lo + 1)..(hi + 1) PROVE \E i \in 1..Len(u) : u[i] = k
  <2>1. CASE k = hi + 1
    BY <1>1, <2>1
  <2>2. CASE k # hi + 1
    <3>1. k \in (lo + 1)..hi
      BY <2>2
    <3> QED
      BY <1>3, <3>1 DEF Covers
  <2> QED
    BY <2>1, <2>2
<1>7. ASSUME NEW i \in 1..Len(u), NEW j \in 1..Len(u), i < j, ~Record!IsBlank(u[i]),
             ~Record!IsBlank(u[j])
      PROVE  u[i] < u[j]
  <2>1. i \in 1..Len(t) /\ u[i] = t[i]
    BY <1>1, <1>2, <1>7
  <2>2. CASE j \in 1..Len(t)
    BY <1>3, <1>7, <2>1, <2>2 DEF Covers
  <2>3. CASE j \notin 1..Len(t)
    BY <1>2, <1>4, <1>7, <2>1, <2>3
  <2> QED
    BY <2>2, <2>3
<1>8. lo <= hi + 1
  BY DEF Covers
<1> QED
  BY <1>5, <1>6, <1>7, <1>8 DEF Covers, u

(* One text after another.                                                 *)
LEMMA Concatenated ==
  ASSUME NEW x \in Record!Texts, NEW y \in Record!Texts
  PROVE  /\ x \o y \in Record!Texts /\ Len(x \o y) = Len(x) + Len(y) /\ Len(x) \in Nat /\ Len(y) \in Nat
         /\ \A i \in 1..Len(x) : (x \o y)[i] = x[i]
         /\ \A i \in 1..Len(y) : (x \o y)[Len(x) + i] = y[i]
         /\ \A i \in 1..Len(x \o y) : i \in 1..Len(x) \/ (i - Len(x) \in 1..Len(y) /\ (x \o y)[i] = y[i - Len(x)])
<1>1. Len(x) \in Nat /\ Len(y) \in Nat /\ x \o y \in Record!Texts /\ Len(x \o y) = Len(x) + Len(y)
  BY ConcatProperties DEF Record!Texts
<1>2. \A i \in 1..(Len(x) + Len(y)) : (x \o y)[i] = IF i <= Len(x) THEN x[i] ELSE y[i - Len(x)]
  BY ConcatProperties DEF Record!Texts
<1> DEFINE u == x \o y
           n == Len(x)
           m == Len(y)
<1> HIDE DEF u, n, m
<1>3. n \in Nat /\ m \in Nat /\ Len(u) = n + m
      /\ \A i \in 1..(n + m) : u[i] = IF i <= n THEN x[i] ELSE y[i - n]
  BY <1>1, <1>2 DEF u, n, m
<1>4. \A i \in 1..n : u[i] = x[i]
  BY <1>3
<1>5. \A i \in 1..m : u[n + i] = y[i]
  <2> SUFFICES ASSUME NEW i \in 1..m PROVE u[n + i] = y[i]
    OBVIOUS
  <2>1. n + i \in 1..(n + m) /\ ~(n + i <= n) /\ n + i - n = i
    BY <1>3
  <2> QED
    BY <1>3, <2>1
<1>6. \A i \in 1..(n + m) : i \in 1..n \/ (i - n \in 1..m /\ u[i] = y[i - n])
  BY <1>3
<1> QED
  BY <1>1, <1>3, <1>4, <1>5, <1>6 DEF u, n, m

LEMMA CoversConcat ==
  ASSUME NEW x \in Record!Texts, NEW y \in Record!Texts, NEW lo \in Nat, NEW mid \in Nat,
         NEW hi \in Nat,
         Covers(x, lo, mid), Covers(y, mid, hi)
  PROVE  Covers(x \o y, lo, hi)
<1> DEFINE u == x \o y
           n == Len(x)
           m == Len(y)
<1>1. /\ u \in Record!Texts /\ Len(u) = n + m /\ n \in Nat /\ m \in Nat
      /\ \A i \in 1..n : u[i] = x[i]
      /\ \A i \in 1..m : u[n + i] = y[i]
      /\ \A i \in 1..Len(u) : i \in 1..n \/ (i - n \in 1..m /\ u[i] = y[i - n])
  BY Concatenated
<1>2. /\ lo <= mid /\ \A i \in 1..n : Record!IsBlank(x[i]) \/ x[i] \in (lo + 1)..mid
      /\ \A k \in (lo + 1)..mid : \E i \in 1..n : x[i] = k
      /\ \A i, j \in 1..n : i < j /\ ~Record!IsBlank(x[i]) /\ ~Record!IsBlank(x[j]) => x[i] < x[j]
  BY DEF Covers
<1>3. /\ mid <= hi /\ \A i \in 1..m : Record!IsBlank(y[i]) \/ y[i] \in (mid + 1)..hi
      /\ \A k \in (mid + 1)..hi : \E i \in 1..m : y[i] = k
      /\ \A i, j \in 1..m : i < j /\ ~Record!IsBlank(y[i]) /\ ~Record!IsBlank(y[j]) => y[i] < y[j]
  BY DEF Covers
<1> HIDE DEF u, n, m
<1>4. ASSUME NEW i \in 1..Len(u) PROVE Record!IsBlank(u[i]) \/ u[i] \in (lo + 1)..hi
  <2>1. CASE i \in 1..n
    BY <1>1, <1>2, <1>3, <2>1
  <2>2. CASE i \notin 1..n
    <3>1. i - n \in 1..m /\ u[i] = y[i - n]
      BY <1>1, <2>2
    <3> QED
      BY <1>2, <1>3, <3>1
  <2> QED
    BY <2>1, <2>2
<1>5. ASSUME NEW k \in (lo + 1)..hi PROVE \E i \in 1..Len(u) : u[i] = k
  <2>1. CASE k <= mid
    <3>1. PICK i \in 1..n : x[i] = k
      BY <1>2, <2>1
    <3>2. i \in 1..Len(u)
      BY <1>1
    <3> QED
      BY <1>1, <3>1, <3>2
  <2>2. CASE ~(k <= mid)
    <3>1. PICK i \in 1..m : y[i] = k
      BY <1>3, <2>2
    <3>2. n + i \in 1..Len(u)
      BY <1>1
    <3> QED
      BY <1>1, <3>1, <3>2
  <2> QED
    BY <2>1, <2>2
<1>6. ASSUME NEW i \in 1..Len(u), NEW j \in 1..Len(u), i < j, ~Record!IsBlank(u[i]),
             ~Record!IsBlank(u[j])
      PROVE  u[i] < u[j]
  <2>1. CASE i \in 1..n /\ j \in 1..n
    BY <1>1, <1>2, <1>6, <2>1
  <2>2. CASE i \in 1..n /\ j \notin 1..n
    <3>1. j - n \in 1..m /\ u[j] = y[j - n] /\ u[i] = x[i]
      BY <1>1, <2>2
    <3>2. x[i] <= mid /\ x[i] \in Int /\ y[j - n] > mid /\ y[j - n] \in Int
      BY <1>2, <1>3, <1>6, <2>2, <3>1
    <3> QED
      BY <3>1, <3>2
  <2>3. CASE i \notin 1..n
    <3>1. j \notin 1..n
      BY <1>1, <1>6, <2>3
    <3>2. i - n \in 1..m /\ u[i] = y[i - n] /\ j - n \in 1..m /\ u[j] = y[j - n] /\ i - n < j - n
      BY <1>1, <1>6, <2>3, <3>1
    <3> QED
      BY <1>3, <1>6, <3>2
  <2> QED
    BY <2>1, <2>2, <2>3
<1>7. lo <= hi
  BY <1>2, <1>3
<1>8. Covers(u, lo, hi)
  BY ONLY <1>4, <1>5, <1>6, <1>7 DEF Covers
<1> QED
  BY <1>8 DEF u

(* What a text has up to a position: the letters up to one of them.        *)
LEMMA UptoExists ==
  ASSUME NEW t \in Record!Texts, NEW lo \in Nat, NEW hi \in Nat, Covers(t, lo, hi), NEW m \in 0..Len(t)
  PROVE  \E h \in lo..hi : Upto(t, m, h)
<1> DEFINE S == {lo} \union {t[i] : i \in {j \in 1..m : ~Record!IsBlank(t[j])}}
<1>1. Len(t) \in Nat /\ m \in Nat /\ \A i \in 1..m : i \in 1..Len(t)
  BY DEF Record!Texts
<1>2. lo <= hi /\ \A i \in 1..Len(t) : Record!IsBlank(t[i]) \/ t[i] \in (lo + 1)..hi
  BY DEF Covers
<1>3. \A i \in 1..m : Record!IsBlank(t[i]) \/ t[i] \in S
  OBVIOUS
<1>4. \A x \in S : x = lo \/ \E i \in 1..m : x = t[i] /\ ~Record!IsBlank(t[i])
  OBVIOUS
<1>5. lo \in S
  OBVIOUS
<1> HIDE DEF S
<1>6. \A x \in S : x \in lo..hi
  BY <1>1, <1>2, <1>4
<1>7. S \in SUBSET Nat /\ S # {} /\ \A x \in S : x <= hi
  BY <1>5, <1>6
<1>8. PICK h \in S : \A x \in S : x <= h
  BY <1>7, GreatestExists
<1>9. \A i \in 1..m : Record!IsBlank(t[i]) \/ t[i] <= h
  BY <1>3, <1>8
<1>10. ASSUME NEW i \in (m + 1)..Len(t), ~Record!IsBlank(t[i]) PROVE t[i] > h
  <2>1. i \in 1..Len(t) /\ t[i] \in (lo + 1)..hi
    BY <1>1, <1>2, <1>10
  <2>2. CASE h = lo
    BY <2>1, <2>2
  <2>3. CASE \E j \in 1..m : h = t[j] /\ ~Record!IsBlank(t[j])
    <3>1. PICK j \in 1..m : h = t[j] /\ ~Record!IsBlank(t[j])
      BY <2>3
    <3>2. j \in 1..Len(t) /\ j < i /\ t[j] \in (lo + 1)..hi
      BY <1>1, <1>2, <3>1
    <3> QED
      BY <1>10, <2>1, <3>1, <3>2 DEF Covers
  <2> QED
    BY <1>4, <1>8, <2>2, <2>3
<1> QED
  BY <1>6, <1>8, <1>9, <1>10 DEF Upto

(* A segment of a segment.                                                 *)
LEMMA SegmentOf ==
  ASSUME NEW marks, NEW t, NEW lo \in Nat, NEW hi \in Nat, Segment(t, lo, hi, marks),
         NEW a \in 0..Len(t), NEW b \in 0..Len(t), a <= b,
         NEW g \in lo..hi, NEW h \in lo..hi, Upto(t, a, g), Upto(t, b, h)
  PROVE  /\ Segment(SubSeq(t, a + 1, b), g, h, marks) /\ Len(SubSeq(t, a + 1, b)) = b - a
         /\ \A i \in 1..(b - a) : SubSeq(t, a + 1, b)[i] = t[a + i]
<1> DEFINE u == SubSeq(t, a + 1, b)
<1>1. t \in Record!Texts /\ Len(t) \in Nat /\ Spaced(t, marks) /\ Covers(t, lo, hi)
  BY DEF Segment, Record!Texts
<1>2. u \in Record!Texts /\ Len(u) = b - a /\ \A i \in 1..(b - a) : u[i] = t[a + i]
  <2>1. a + 1 \in 1..(Len(t) + 1) /\ a + 1 <= b + 1 /\ a \in Int /\ b \in Int
    BY <1>1
  <2>2. /\ u \in Record!Texts /\ Len(u) = b - (a + 1) + 1
        /\ \A i \in 1..(b - (a + 1) + 1) : u[i] = t[(a + 1) + i - 1]
    BY <1>1, <2>1, Cutting
  <2> HIDE DEF u
  <2>3. b - (a + 1) + 1 = b - a
    BY <2>1
  <2>4. \A i \in 1..(b - a) : (a + 1) + i - 1 = a + i
    BY <2>1
  <2> QED
    BY <2>2, <2>3, <2>4
<1> HIDE DEF u
<1>3. a \in Nat /\ b \in Nat
  BY <1>1
<1>4. \A i \in 1..Len(u) : a + i \in (a + 1)..Len(t) /\ a + i \in 1..b /\ a + i \in 1..Len(t) /\ u[i] = t[a + i]
  BY <1>1, <1>2, <1>3
<1>5. \A j \in 1..Len(t) : j \in 1..a \/ j \in (b + 1)..Len(t) \/ (j - a \in 1..Len(u) /\ u[j - a] = t[j])
  <2> SUFFICES ASSUME NEW j \in 1..Len(t), j \notin 1..a, j \notin (b + 1)..Len(t)
               PROVE  j - a \in 1..Len(u) /\ u[j - a] = t[j]
    OBVIOUS
  <2>1. j - a \in 1..(b - a) /\ a + (j - a) = j
    BY <1>1, <1>3
  <2> QED
    BY <1>2, <2>1
<1>6. /\ \A i \in 1..Len(t) : Record!IsBlank(t[i]) \/ t[i] \in (lo + 1)..hi
      /\ \A k \in (lo + 1)..hi : \E i \in 1..Len(t) : t[i] = k
      /\ \A i, j \in 1..Len(t) : i < j /\ ~Record!IsBlank(t[i]) /\ ~Record!IsBlank(t[j]) => t[i] < t[j]
  BY <1>1 DEF Covers
<1>7. /\ \A i \in 1..a : Record!IsBlank(t[i]) \/ t[i] <= g
      /\ \A i \in (a + 1)..Len(t) : Record!IsBlank(t[i]) \/ t[i] > g
      /\ \A i \in 1..b : Record!IsBlank(t[i]) \/ t[i] <= h
      /\ \A i \in (b + 1)..Len(t) : Record!IsBlank(t[i]) \/ t[i] > h
  BY DEF Upto
<1>8. \A i \in 1..Len(u) : Record!IsBlank(u[i]) \/ u[i] \in (g + 1)..h
  <2> SUFFICES ASSUME NEW i \in 1..Len(u), ~Record!IsBlank(u[i]) PROVE u[i] \in (g + 1)..h
    OBVIOUS
  <2>1. u[i] = t[a + i] /\ u[i] > g /\ u[i] <= h /\ u[i] \in (lo + 1)..hi
    BY <1>4, <1>6, <1>7
  <2> QED
    BY <2>1
<1>9. ASSUME NEW k \in (g + 1)..h PROVE \E i \in 1..Len(u) : u[i] = k
  <2>1. k \in (lo + 1)..hi
    OBVIOUS
  <2>2. PICK j \in 1..Len(t) : t[j] = k
    BY <1>6, <2>1
  <2>3. ~Record!IsBlank(t[j])
    BY <2>1, <2>2 DEF Record!IsBlank, Record!Space, Record!Line
  <2>4. j \notin 1..a /\ j \notin (b + 1)..Len(t)
    BY <1>7, <2>2, <2>3
  <2> QED
    BY <1>5, <2>2, <2>4
<1>10. ASSUME NEW i \in 1..Len(u), NEW j \in 1..Len(u), i < j, ~Record!IsBlank(u[i]),
              ~Record!IsBlank(u[j])
       PROVE  u[i] < u[j]
  BY <1>3, <1>4, <1>6, <1>10
<1>11. g <= h
  <2> SUFFICES ASSUME g > h PROVE FALSE
    OBVIOUS
  <2>1. g \in (lo + 1)..hi
    OBVIOUS
  <2>2. PICK j \in 1..Len(t) : t[j] = g
    BY <1>6, <2>1
  <2>3. ~Record!IsBlank(t[j])
    BY <2>1, <2>2 DEF Record!IsBlank, Record!Space, Record!Line
  <2>4. j \in 1..a
    BY <1>1, <1>3, <1>7, <2>2, <2>3
  <2>5. j \in 1..b
    BY <1>3, <2>4
  <2> QED
    BY <1>7, <2>2, <2>3, <2>5
<1>12. Covers(u, g, h)
  BY <1>8, <1>9, <1>10, <1>11 DEF Covers
<1>13. Spaced(u, marks)
  <2> SUFFICES ASSUME NEW i \in 2..Len(u), ~Record!IsBlank(u[i])
               PROVE  Record!IsBlank(u[i - 1]) <=> marks[u[i]].apart
    BY DEF Spaced
  <2>1. i \in 1..Len(u) /\ i - 1 \in 1..Len(u) /\ a + i \in 2..Len(t) /\ a + i - 1 = a + (i - 1)
    BY <1>1, <1>2, <1>3
  <2>2. u[i] = t[a + i] /\ u[i - 1] = t[(a + i) - 1]
    BY <1>4, <2>1
  <2> DEFINE v == a + i
  <2>3. v \in 2..Len(t) /\ ~Record!IsBlank(t[v])
    BY <2>1, <2>2
  <2>4. Spaced(t, marks)
    BY <1>1
  <2>5. u[i] = t[v] /\ u[i - 1] = t[v - 1]
    BY <2>2
  <2> HIDE DEF v, u
  <2>6. Record!IsBlank(t[v - 1]) <=> marks[t[v]].apart
    BY <2>3, <2>4 DEF Spaced
  <2> QED
    BY <2>5, <2>6
<1> QED
  BY <1>2, <1>12, <1>13 DEF Segment, u

(* A chain after another.                                                  *)
LEMMA ChainConcat ==
  ASSUME NEW marks, NEW a \in Seq(Record!Texts), NEW b \in Seq(Record!Texts), NEW lo, NEW mid, NEW hi,
         Chain(a, lo, mid, marks), Chain(b, mid, hi, marks)
  PROVE  Chain(a \o b, lo, hi, marks)
<1> DEFINE c == a \o b
           n == Len(a)
           m == Len(b)
<1>1. PICK f \in [0..n -> Nat] :
        f[0] = lo /\ f[n] = mid /\ \A k \in 1..n : Segment(a[k], f[k - 1], f[k], marks)
  BY DEF Chain
<1>2. PICK g \in [0..m -> Nat] :
        g[0] = mid /\ g[m] = hi /\ \A k \in 1..m : Segment(b[k], g[k - 1], g[k], marks)
  BY DEF Chain
<1>3. n \in Nat /\ m \in Nat /\ Len(c) = n + m
      /\ \A k \in 1..(n + m) : c[k] = IF k <= n THEN a[k] ELSE b[k - n]
  BY ConcatProperties
<1> HIDE DEF n, m, c
<1> DEFINE h == [k \in 0..(n + m) |-> IF k <= n THEN f[k] ELSE g[k - n]]
<1>4. h \in [0..(n + m) -> Nat] /\ \A k \in 0..(n + m) : h[k] = IF k <= n THEN f[k] ELSE g[k - n]
  <2>1. \A k \in 0..(n + m) : (IF k <= n THEN f[k] ELSE g[k - n]) \in Nat
    BY <1>3
  <2> QED
    BY <2>1
<1> HIDE DEF h
<1>5. h[0] = lo /\ h[n + m] = hi
  <2>1. 0 \in 0..(n + m) /\ 0 <= n /\ n + m \in 0..(n + m)
    BY <1>3
  <2>2. CASE m = 0
    BY <1>1, <1>2, <1>3, <1>4, <2>1, <2>2
  <2>3. CASE m # 0
    <3>1. ~(n + m <= n) /\ n + m - n = m
      BY <1>3, <2>3
    <3> QED
      BY <1>1, <1>2, <1>3, <1>4, <2>1, <3>1
  <2> QED
    BY <2>2, <2>3
<1>6. ASSUME NEW k \in 1..(n + m) PROVE Segment(c[k], h[k - 1], h[k], marks)
  <2>1. k \in 0..(n + m) /\ k - 1 \in 0..(n + m)
    BY <1>3
  <2>2. CASE k <= n
    <3>1. k \in 1..n /\ k - 1 <= n
      BY <1>3, <2>2
    <3> QED
      BY <1>1, <1>3, <1>4, <2>1, <2>2, <3>1
  <2>3. CASE k = n + 1
    <3>1. k - n = 1 /\ 1 \in 1..m /\ k - 1 = n /\ ~(k <= n) /\ n <= n
      BY <1>3, <2>3
    <3>2. h[k - 1] = g[0] /\ h[k] = g[1] /\ c[k] = b[1]
      BY <1>1, <1>2, <1>3, <1>4, <2>1, <3>1
    <3>3. Segment(b[1], g[1 - 1], g[1], marks)
      BY <1>2, <3>1
    <3> QED
      BY <3>2, <3>3
  <2>4. CASE k > n + 1
    <3>1. k - n \in 1..m /\ (k - 1) - n = (k - n) - 1 /\ ~(k <= n) /\ ~(k - 1 <= n)
      BY <1>3, <2>4
    <3>2. h[k - 1] = g[(k - n) - 1] /\ h[k] = g[k - n] /\ c[k] = b[k - n]
      BY <1>3, <1>4, <2>1, <3>1
    <3> QED
      BY <1>2, <3>1, <3>2
  <2> QED
    BY <1>3, <2>2, <2>3, <2>4
<1> QED
  BY <1>3, <1>4, <1>5, <1>6 DEF Chain, c

LEMMA ChainOne ==
  ASSUME NEW marks, NEW x, NEW lo \in Nat, NEW hi \in Nat, Segment(x, lo, hi, marks)
  PROVE  Chain(<<x>>, lo, hi, marks)
<1> DEFINE cut == [k \in 0..1 |-> IF k = 0 THEN lo ELSE hi]
           s == <<x>>
<1>1. cut \in [0..1 -> Nat] /\ cut[0] = lo /\ cut[1] = hi /\ Len(s) = 1 /\ s[1] = x
  OBVIOUS
<1> HIDE DEF cut, s
<1>2. \A k \in 1..1 : Segment(s[k], cut[k - 1], cut[k], marks)
  <2>1. \A k \in 1..1 : k = 1 /\ k - 1 = 0
    OBVIOUS
  <2> QED
    BY <1>1, <2>1
<1> QED
  BY <1>1, <1>2 DEF Chain, s

LEMMA ChainNone ==
  ASSUME NEW marks, NEW lo \in Nat
  PROVE  Chain(<<>>, lo, lo, marks)
<1> DEFINE cut == [k \in 0..0 |-> lo]
           s == <<>>
<1>1. cut \in [0..0 -> Nat] /\ cut[0] = lo /\ Len(s) = 0 /\ 1..0 = {}
  OBVIOUS
<1> HIDE DEF cut, s
<1> QED
  BY <1>1 DEF Chain, s

LEMMA ChainAppend ==
  ASSUME NEW marks, NEW a \in Seq(Record!Texts), NEW x, NEW lo \in Nat, NEW mid \in Nat, NEW hi \in Nat,
         Chain(a, lo, mid, marks), Segment(x, mid, hi, marks)
  PROVE  Chain(Append(a, x), lo, hi, marks)
<1>1. x \in Record!Texts
  BY DEF Segment
<1>2. <<x>> \in Seq(Record!Texts) /\ Chain(<<x>>, mid, hi, marks) /\ Append(a, x) = a \o <<x>>
  BY <1>1, ChainOne
<1> QED
  BY <1>2, ChainConcat

(* The last of a chain.                                                    *)
LEMMA ChainLast ==
  ASSUME NEW marks, NEW a \in Seq(Record!Texts), a # <<>>, NEW lo, NEW hi, Chain(a, lo, hi, marks)
  PROVE  \E mid \in Nat : Chain(Record!Front(a), lo, mid, marks) /\ Segment(Record!Last(a), mid, hi, marks)
<1> DEFINE n == Len(a)
           b == Record!Front(a)
<1>1. PICK f \in [0..n -> Nat] :
        f[0] = lo /\ f[n] = hi /\ \A k \in 1..n : Segment(a[k], f[k - 1], f[k], marks)
  BY DEF Chain
<1>2. n \in Nat \ {0}
  OBVIOUS
<1>3. Len(b) = n - 1 /\ \A k \in 1..(n - 1) : b[k] = a[k]
  BY DEF Record!Front
<1>4. Record!Last(a) = a[n]
  BY DEF Record!Last
<1> HIDE DEF n, b
<1> DEFINE g == [k \in 0..(n - 1) |-> f[k]]
<1>5. g \in [0..(n - 1) -> Nat] /\ (\A k \in 0..(n - 1) : g[k] = f[k]) /\ n - 1 \in 0..(n - 1)
  BY <1>2
<1> HIDE DEF g
<1>6. \A k \in 1..(n - 1) : Segment(b[k], g[k - 1], g[k], marks)
  <2> SUFFICES ASSUME NEW k \in 1..(n - 1) PROVE Segment(b[k], g[k - 1], g[k], marks)
    OBVIOUS
  <2>1. k \in 1..n /\ k \in 0..(n - 1) /\ k - 1 \in 0..(n - 1)
    BY <1>2
  <2> QED
    BY <1>1, <1>3, <1>5, <2>1
<1>7. Chain(b, lo, g[n - 1], marks)
  <2>1. g[0] = lo
    BY <1>1, <1>2, <1>5
  <2>2. g \in [0..Len(b) -> Nat] /\ g[Len(b)] = g[n - 1]
        /\ \A k \in 1..Len(b) : Segment(b[k], g[k - 1], g[k], marks)
    BY ONLY <1>3, <1>5, <1>6
  <2> QED
    BY ONLY <2>1, <2>2 DEF Chain
<1>8. Segment(a[n], f[n - 1], f[n], marks) /\ g[n - 1] = f[n - 1] /\ f[n - 1] \in Nat
  BY <1>1, <1>2, <1>5
<1> QED
  BY <1>1, <1>4, <1>7, <1>8 DEF b

-----------------------------------------------------------------------------
(* Lines.                                                                  *)

(* The next letter is the one after those read.                            *)
LEMMA NextLetter ==
  ASSUME NEW t \in Record!Texts, NEW n \in Nat, Covers(t, 0, n), NEW m \in Nat, m + 1 \in 1..Len(t),
         NEW h \in 0..n, Upto(t, m, h)
  PROVE  IF Record!IsBlank(t[m + 1]) THEN Upto(t, m + 1, h)
         ELSE t[m + 1] = h + 1 /\ h + 1 \in 0..n /\ Upto(t, m + 1, h + 1)
<1>1. Len(t) \in Nat
  BY DEF Record!Texts
<1>2. /\ \A i \in 1..m : Record!IsBlank(t[i]) \/ t[i] <= h
      /\ \A i \in (m + 1)..Len(t) : Record!IsBlank(t[i]) \/ t[i] > h
  BY DEF Upto
<1>3. /\ \A i \in 1..Len(t) : Record!IsBlank(t[i]) \/ t[i] \in 1..n
      /\ \A k \in 1..n : \E i \in 1..Len(t) : t[i] = k
      /\ \A i, j \in 1..Len(t) : i < j /\ ~Record!IsBlank(t[i]) /\ ~Record!IsBlank(t[j]) => t[i] < t[j]
  BY DEF Covers
<1>4. (\A i \in 1..(m + 1) : i \in 1..m \/ i = m + 1)
      /\ (\A i \in (m + 2)..Len(t) : i \in (m + 1)..Len(t) /\ i \in 1..Len(t) /\ m + 1 < i)
      /\ m + 1 + 1 = m + 2 /\ (\A i \in 1..m : i \in 1..Len(t))
  BY <1>1
<1>5. CASE Record!IsBlank(t[m + 1])
  <2>1. \A i \in 1..(m + 1) : Record!IsBlank(t[i]) \/ t[i] <= h
    BY <1>2, <1>4, <1>5
  <2>2. \A i \in (m + 1 + 1)..Len(t) : Record!IsBlank(t[i]) \/ t[i] > h
    BY <1>2, <1>4
  <2> QED
    BY <1>5, <2>1, <2>2 DEF Upto
<1>6. CASE ~Record!IsBlank(t[m + 1])
  <2>1. t[m + 1] > h /\ t[m + 1] \in 1..n
    BY <1>1, <1>2, <1>3, <1>6
  <2>2. h + 1 \in 1..n /\ h + 1 \in 0..n
    BY <2>1
  <2>3. PICK j \in 1..Len(t) : t[j] = h + 1
    BY <1>3, <2>2
  <2>4. ~Record!IsBlank(t[j])
    BY <2>2, <2>3 DEF Record!IsBlank, Record!Space, Record!Line
  <2>5. j \notin 1..m
    BY <1>2, <2>2, <2>3, <2>4
  <2>6. j = m + 1
    <3> SUFFICES ASSUME j # m + 1 PROVE FALSE
      OBVIOUS
    <3>1. m + 1 < j
      BY <1>1, <2>5
    <3>2. t[m + 1] < t[j]
      BY <1>3, <1>6, <2>4, <3>1
    <3> QED
      BY <2>1, <2>3, <3>2
  <2>7. \A i \in 1..(m + 1) : Record!IsBlank(t[i]) \/ t[i] <= h + 1
    <3> SUFFICES ASSUME NEW i \in 1..(m + 1), ~Record!IsBlank(t[i]) PROVE t[i] <= h + 1
      OBVIOUS
    <3>1. CASE i = m + 1
      BY <2>3, <2>6, <3>1
    <3>2. CASE i \in 1..m
      <4>1. t[i] <= h /\ t[i] \in 1..n
        BY <1>2, <1>3, <1>4, <3>2
      <4> QED
        BY <4>1
    <3> QED
      BY <1>4, <3>1, <3>2
  <2>8. \A i \in (m + 1 + 1)..Len(t) : Record!IsBlank(t[i]) \/ t[i] > h + 1
    <3> SUFFICES ASSUME NEW i \in (m + 2)..Len(t), ~Record!IsBlank(t[i]) PROVE t[i] > h + 1
      BY <1>4
    <3>1. i \in 1..Len(t) /\ m + 1 < i
      BY <1>4
    <3>2. t[m + 1] < t[i] /\ t[i] \in 1..n
      BY <1>3, <1>6, <3>1
    <3> QED
      BY <2>3, <2>6, <3>2
  <2> QED
    BY <1>6, <2>2, <2>3, <2>6, <2>7, <2>8 DEF Upto
<1> QED
  BY <1>5, <1>6

LEMMA AllRead ==
  ASSUME NEW t \in Record!Texts, NEW n \in Nat, Covers(t, 0, n), NEW h \in 0..n, Upto(t, Len(t), h)
  PROVE  h = n
<1> SUFFICES ASSUME h # n PROVE FALSE
  OBVIOUS
<1>1. h + 1 \in (0 + 1)..n
  OBVIOUS
<1>2. PICK i \in 1..Len(t) : t[i] = h + 1
  BY <1>1 DEF Covers
<1>3. ~Record!IsBlank(t[i]) /\ ~(t[i] <= h)
  BY <1>1, <1>2 DEF Record!IsBlank, Record!Space, Record!Line
<1> QED
  BY <1>3 DEF Upto

LEMMA NothingRead ==
  ASSUME NEW t \in Record!Texts, NEW n \in Nat, Covers(t, 0, n)
  PROVE  Upto(t, 0, 0)
<1>1. \A i \in (0 + 1)..Len(t) : Record!IsBlank(t[i]) \/ t[i] > 0
  <2>1. \A i \in 1..Len(t) : Record!IsBlank(t[i]) \/ t[i] \in (0 + 1)..n
    BY DEF Covers
  <2>2. \A i \in (0 + 1)..Len(t) : i \in 1..Len(t)
    OBVIOUS
  <2>3. \A k \in (0 + 1)..n : k > 0
    OBVIOUS
  <2> QED
    BY <2>1, <2>2, <2>3
<1>2. 1..0 = {}
  OBVIOUS
<1> QED
  BY <1>1, <1>2 DEF Upto

(* After a break, a text starts with a letter the source sets apart.       *)
SetApart(x, marks) == x # <<>> => marks[x[1]].apart

(* What the lines of the first m characters of t are.                      *)
CutPast(ls, t, m, n, marks) ==
  /\ ls \in Seq(Record!Texts) \ {<<>>}
  /\ \E h \in 0..n : Upto(t, m, h) /\ Chain(ls, 0, h, marks)
  /\ \A k \in 1..Len(ls) : Normal(ls[k]) /\ OneLine(ls[k])
  /\ \A k \in 2..Len(ls) : SetApart(ls[k], marks)
  /\ \A k \in 1..(Len(ls) - 1) : EndsInLetter(ls[k])
  /\ Len(ls) = 1 => \A i \in 1..m : t[i] # Record!Line
  /\ IF ls[Len(ls)] = <<>> THEN (m = 0 /\ Len(ls) = 1) \/ (m > 0 /\ t[m] = Record!Line)
     ELSE m > 0 /\ ls[Len(ls)][Len(ls[Len(ls)])] = t[m]

LEMMA CutAtFirst ==
  ASSUME NEW t \in Record!Texts, NEW n \in Nat, Covers(t, 0, n), NEW marks
  PROVE  CutPast(<< <<>> >>, t, 0, n, marks)
<1> DEFINE e == <<>>
           ls == <<e>>
<1>1. e \in Record!Texts /\ Normal(e) /\ Segment(e, 0, 0, marks) /\ OneLine(e)
  BY EmptyCovers
<1>2. e = <<>>
  OBVIOUS
<1> HIDE DEF e
<1>3. ls \in Seq(Record!Texts) \ {<<>>} /\ Len(ls) = 1 /\ ls[1] = e
  BY <1>1
<1>4. Chain(ls, 0, 0, marks)
  BY <1>1, ChainOne
<1> HIDE DEF ls
<1>5. Upto(t, 0, 0) /\ 0 \in 0..n
  BY NothingRead
<1>6. \A k \in 1..Len(ls) : k = 1
  BY <1>3
<1>7. 2..Len(ls) = {} /\ 1..(Len(ls) - 1) = {} /\ 1..0 = {}
  BY <1>3
<1> QED
  BY <1>1, <1>2, <1>3, <1>4, <1>5, <1>6, <1>7 DEF CutPast, ls, e

(* A line ends.                                                            *)
LEMMA CutAtLine ==
  ASSUME NEW t, Normal(t), NEW n \in Nat, Covers(t, 0, n), NEW marks, NEW m \in Nat,
         m + 1 \in 1..Len(t), NEW ls, CutPast(ls, t, m, n, marks), t[m + 1] = Record!Line
  PROVE  CutPast(Append(ls, <<>>), t, m + 1, n, marks)
<1> DEFINE e == <<>>
           ms == Append(ls, e)
           q == Len(ls)
<1>1. t \in Record!Texts /\ Len(t) \in Nat
  BY DEF Normal, Record!Texts
<1>2. ls \in Seq(Record!Texts) /\ q \in Nat \ {0} /\ q \in 1..q
  BY DEF CutPast
<1>3. PICK h \in 0..n : Upto(t, m, h) /\ Chain(ls, 0, h, marks)
  BY DEF CutPast
<1>4. e \in Record!Texts /\ Normal(e) /\ Segment(e, h, h, marks) /\ OneLine(e) /\ SetApart(e, marks)
      /\ e = <<>>
  BY EmptyCovers DEF SetApart
<1> HIDE DEF e
<1>5. /\ ms \in Seq(Record!Texts) \ {<<>>} /\ Len(ms) = q + 1 /\ (\A k \in 1..q : ms[k] = ls[k])
      /\ ms[q + 1] = e
  BY <1>2, <1>4, AppendProperties
<1>6. Chain(ms, 0, h, marks)
  BY <1>2, <1>3, <1>4, ChainAppend
<1> HIDE DEF ms, q
<1>7. Record!IsBlank(t[m + 1])
  BY DEF Record!IsBlank
<1>8. Upto(t, m + 1, h)
  BY <1>1, <1>3, <1>7, NextLetter
<1>9. \A k \in 1..(q + 1) : Normal(ms[k]) /\ OneLine(ms[k])
  <2>1. \A k \in 1..q : Normal(ls[k]) /\ OneLine(ls[k])
    BY DEF CutPast, q
  <2>2. \A k \in 1..(q + 1) : k \in 1..q \/ k = q + 1
    BY <1>2
  <2> QED
    BY <1>4, <1>5, <2>1, <2>2
<1>10. \A k \in 2..(q + 1) : SetApart(ms[k], marks)
  <2>1. \A k \in 2..q : SetApart(ls[k], marks)
    BY DEF CutPast, q
  <2>2. \A k \in 2..(q + 1) : (k \in 2..q /\ k \in 1..q) \/ k = q + 1
    BY <1>2
  <2> QED
    BY <1>4, <1>5, <2>1, <2>2
<1>11. m >= 1 /\ ~Record!IsBlank(t[m])
  <2>1. m # 0
    <3> SUFFICES ASSUME m = 0 PROVE FALSE
      OBVIOUS
    <3>1. t # <<>> /\ m + 1 = 1
      BY <1>1
    <3> QED
      BY <1>7, <3>1 DEF Normal
  <2>2. m + 1 \in 2..Len(t) /\ m + 1 - 1 = m
    BY <1>1, <2>1
  <2> QED
    BY <1>7, <2>1, <2>2 DEF Normal
<1>12. EndsInLetter(ls[q])
  <2>1. ls[q] # <<>> /\ ls[q][Len(ls[q])] = t[m]
    <3>1. t[m] # Record!Line
      BY <1>11 DEF Record!IsBlank
    <3> QED
      BY <1>11, <3>1 DEF CutPast, q
  <2> QED
    BY <1>11, <2>1 DEF EndsInLetter
<1>13. \A k \in 1..q : EndsInLetter(ms[k])
  <2>1. \A k \in 1..(q - 1) : EndsInLetter(ls[k])
    BY DEF CutPast, q
  <2>2. \A k \in 1..q : k \in 1..(q - 1) \/ k = q
    BY <1>2
  <2> QED
    BY <1>5, <1>12, <2>1, <2>2
<1>14. Len(ms) # 1 /\ m + 1 > 0 /\ q + 1 - 1 = q
  BY <1>2, <1>5
<1>15. \E g \in 0..n : Upto(t, m + 1, g) /\ Chain(ms, 0, g, marks)
  BY <1>6, <1>8
<1>16. ms[Len(ms)] = <<>> /\ m + 1 > 0 /\ Len(ms) # 1 /\ Len(ms) - 1 = q /\ Len(ms) = q + 1
  BY <1>2, <1>4, <1>5, <1>14
<1>17. CutPast(ms, t, m + 1, n, marks)
  BY ONLY t[m + 1] = Record!Line, <1>5, <1>9, <1>10, <1>13, <1>15, <1>16 DEF CutPast
<1> QED
  BY <1>17 DEF ms, e

(* A character is added to a segment.                                      *)
LEMMA SegmentGrows ==
  ASSUME NEW marks, NEW x, Normal(x), NEW lo \in Nat, NEW h \in Nat, Segment(x, lo, h, marks),
         NEW c \in Int, OneLine(x), c # Record!Line,
         c = Record!Space => EndsInLetter(x), c # Record!Space => c = h + 1,
         x # <<>> /\ c # Record!Space => (Record!IsBlank(x[Len(x)]) <=> marks[c].apart)
  PROVE  LET u == Append(x, c)
         IN  /\ Normal(u) /\ OneLine(u) /\ u # <<>> /\ u[Len(u)] = c
             /\ Segment(u, lo, IF c = Record!Space THEN h ELSE h + 1, marks)
             /\ u[1] = IF x = <<>> THEN c ELSE x[1]
<1> DEFINE u == Append(x, c)
<1>1. x \in Record!Texts /\ Len(x) \in Nat
      /\ (x = <<>> <=> Len(x) = 0) /\ Covers(x, lo, h) /\ Spaced(x, marks)
  BY DEF Segment, Record!Texts
<1>2. /\ u \in Record!Texts /\ Len(u) = Len(x) + 1 /\ \A i \in 1..Len(x) : u[i] = x[i]
      /\ u[Len(x) + 1] = c /\ u # <<>>
  BY <1>1, Appending
<1>3. c = Record!Space => Covers(u, lo, h)
  BY <1>1, CoversBlank DEF Record!IsBlank
<1>4. c # Record!Space => Covers(u, lo, h + 1)
  BY <1>1, CoversLetter
<1> HIDE DEF u
<1>5. c # Record!Space => ~Record!IsBlank(c)
  BY DEF Record!IsBlank
<1>6. c = Record!Space => Record!IsBlank(c)
  BY DEF Record!IsBlank
<1>7. \A i \in 2..Len(u) : (i \in 2..Len(x) /\ i \in 1..Len(x) /\ i - 1 \in 1..Len(x))
                           \/ (i = Len(x) + 1 /\ i - 1 = Len(x) /\ i - 1 \in 1..Len(x) /\ x # <<>>)
  BY <1>1, <1>2
<1>8. Normal(u)
  <2>1. ~Record!IsBlank(u[1])
    <3>1. CASE x = <<>>
      BY <1>1, <1>2, <1>5, <3>1 DEF EndsInLetter
    <3>2. CASE x # <<>>
      <4>1. 1 \in 1..Len(x)
        BY <1>1, <3>2
      <4> QED
        BY <1>2, <3>2, <4>1 DEF Normal
    <3> QED
      BY <3>1, <3>2
  <2>2. ASSUME NEW i \in 2..Len(u), Record!IsBlank(u[i - 1]) PROVE ~Record!IsBlank(u[i])
    <3>1. CASE i \in 2..Len(x) /\ i \in 1..Len(x) /\ i - 1 \in 1..Len(x)
      BY <1>2, <2>2, <3>1 DEF Normal
    <3>2. CASE i = Len(x) + 1 /\ i - 1 = Len(x) /\ i - 1 \in 1..Len(x)
      <4>1. ~EndsInLetter(x)
        BY <1>2, <2>2, <3>2 DEF EndsInLetter
      <4> QED
        BY <1>2, <1>5, <3>2, <4>1
    <3> QED
      BY <1>7, <3>1, <3>2
  <2> QED
    BY <1>2, <2>1, <2>2 DEF Normal
<1>9. OneLine(u)
  <2>1. \A i \in 1..Len(u) : i \in 1..Len(x) \/ i = Len(x) + 1
    BY <1>1, <1>2
  <2> QED
    BY <1>2, <2>1 DEF OneLine
<1>10. Spaced(u, marks)
  <2> SUFFICES ASSUME NEW i \in 2..Len(u), ~Record!IsBlank(u[i])
               PROVE  Record!IsBlank(u[i - 1]) <=> marks[u[i]].apart
    BY DEF Spaced
  <2>1. CASE i \in 2..Len(x) /\ i \in 1..Len(x) /\ i - 1 \in 1..Len(x)
    BY <1>1, <1>2, <2>1 DEF Spaced
  <2>2. CASE i = Len(x) + 1 /\ i - 1 = Len(x) /\ i - 1 \in 1..Len(x) /\ x # <<>>
    BY <1>2, <1>6, <2>2
  <2> QED
    BY <1>7, <2>1, <2>2
<1>11. u[1] = IF x = <<>> THEN c ELSE x[1]
  <2>1. CASE x = <<>>
    BY <1>1, <1>2, <2>1
  <2>2. CASE x # <<>>
    <3>1. 1 \in 1..Len(x)
      BY <1>1, <2>2
    <3> QED
      BY <1>2, <2>2, <3>1
  <2> QED
    BY <2>1, <2>2
<1>12. Segment(u, lo, IF c = Record!Space THEN h ELSE h + 1, marks)
  BY <1>2, <1>3, <1>4, <1>10 DEF Segment
<1> QED
  BY <1>2, <1>8, <1>9, <1>11, <1>12 DEF u

LEMMA FrontIs ==
  ASSUME NEW T, NEW s \in Seq(T), s # <<>>
  PROVE  /\ Record!Front(s) \in Seq(T) /\ Len(Record!Front(s)) = Len(s) - 1
         /\ \A k \in 1..(Len(s) - 1) : Record!Front(s)[k] = s[k]
<1>1. Len(s) \in Nat \ {0}
  OBVIOUS
<1>2. Record!Front(s) = [i \in 1..(Len(s) - 1) |-> s[i]]
  BY <1>1 DEF Record!Front
<1>3. \A i \in 1..(Len(s) - 1) : s[i] \in T
  BY <1>1
<1> QED
  BY <1>1, <1>2, <1>3

(* A line goes on.                                                         *)
LEMMA CutInLine ==
  ASSUME NEW t, Normal(t), NEW n \in Nat, Covers(t, 0, n), NEW marks, Spaced(t, marks), NEW m \in Nat,
         m + 1 \in 1..Len(t), NEW ls, CutPast(ls, t, m, n, marks), t[m + 1] # Record!Line
  PROVE  CutPast(Append(Record!Front(ls), Append(Record!Last(ls), t[m + 1])), t, m + 1, n, marks)
<1> DEFINE c == t[m + 1]
           q == Len(ls)
           x == Record!Last(ls)
           u == Append(x, c)
           ms == Append(Record!Front(ls), u)
<1>1. t \in Record!Texts /\ Len(t) \in Nat /\ c \in Int
  BY DEF Normal, Record!Texts
<1>2. ls \in Seq(Record!Texts) /\ ls # <<>> /\ q \in Nat \ {0} /\ q \in 1..q /\ x = ls[q]
  BY DEF CutPast, Record!Last
<1>3. PICK h \in 0..n : Upto(t, m, h) /\ Chain(ls, 0, h, marks)
  BY DEF CutPast
<1>4. PICK lo \in Nat : Chain(Record!Front(ls), 0, lo, marks) /\ Segment(x, lo, h, marks)
  BY <1>2, <1>3, ChainLast
<1>5. /\ Record!Front(ls) \in Seq(Record!Texts) /\ Len(Record!Front(ls)) = q - 1
      /\ \A k \in 1..(q - 1) : Record!Front(ls)[k] = ls[k]
  BY <1>2, FrontIs
<1>6. Normal(x) /\ OneLine(x) /\ (q >= 2 => SetApart(x, marks))
  <2>1. q >= 2 => q \in 2..q
    BY <1>2
  <2> QED
    BY <1>2, <2>1 DEF CutPast
<1>7. IF x = <<>> THEN (m = 0 /\ q = 1) \/ (m > 0 /\ t[m] = Record!Line)
      ELSE m > 0 /\ x[Len(x)] = t[m]
  BY <1>2 DEF CutPast
<1>8. m > 0 => m + 1 \in 2..Len(t) /\ m + 1 - 1 = m
  BY <1>1
<1>9. c = Record!Space => Record!IsBlank(c)
  BY DEF Record!IsBlank
<1>10. c # Record!Space => ~Record!IsBlank(c)
  BY DEF Record!IsBlank
<1>11. c = Record!Space => EndsInLetter(x)
  <2> SUFFICES ASSUME c = Record!Space PROVE EndsInLetter(x)
    OBVIOUS
  <2>1. m > 0 /\ ~Record!IsBlank(t[m])
    <3>1. m # 0
      <4> SUFFICES ASSUME m = 0 PROVE FALSE
        OBVIOUS
      <4>1. t # <<>> /\ m + 1 = 1
        BY <1>1
      <4> QED
        BY <1>9, <4>1 DEF Normal
    <3> QED
      BY <1>8, <1>9, <3>1 DEF Normal
  <2>2. x # <<>>
    BY <1>7, <2>1 DEF Record!IsBlank
  <2> QED
    BY <1>7, <2>1, <2>2 DEF EndsInLetter
<1>12. c # Record!Space => c = h + 1 /\ h + 1 \in 0..n /\ Upto(t, m + 1, h + 1)
  BY <1>1, <1>3, <1>10, NextLetter
<1>13. c = Record!Space => Upto(t, m + 1, h)
  BY <1>1, <1>3, <1>9, NextLetter
<1>14. m > 0 /\ c # Record!Space => (Record!IsBlank(t[m]) <=> marks[c].apart)
  BY <1>8, <1>10 DEF Spaced
<1>15. x # <<>> /\ c # Record!Space => (Record!IsBlank(x[Len(x)]) <=> marks[c].apart)
  BY <1>7, <1>14
<1> DEFINE g == IF c = Record!Space THEN h ELSE h + 1
<1>16. /\ Normal(u) /\ OneLine(u) /\ u # <<>> /\ u[Len(u)] = c
       /\ Segment(u, lo, g, marks) /\ u[1] = IF x = <<>> THEN c ELSE x[1]
  <2> HIDE DEF c, x
  <2>1. h \in Nat
    OBVIOUS
  <2>2. c # Record!Line
    BY DEF c
  <2> QED
    BY <1>1, <1>4, <1>6, <1>11, <1>12, <1>15, <2>1, <2>2, SegmentGrows
<1>17. g \in 0..n /\ Upto(t, m + 1, g) /\ g \in Nat
  BY <1>12, <1>13
<1> HIDE DEF g, u
<1>18. u \in Record!Texts
  BY <1>16 DEF Segment
<1>19. /\ ms \in Seq(Record!Texts) \ {<<>>} /\ Len(ms) = q
       /\ (\A k \in 1..(q - 1) : ms[k] = ls[k]) /\ ms[q] = u
  <2> DEFINE f == Record!Front(ls)
  <2>1. f \in Seq(Record!Texts) /\ Len(f) = q - 1 /\ q - 1 + 1 = q /\ \A k \in 1..(q - 1) : f[k] = ls[k]
    BY <1>2, <1>5
  <2> HIDE DEF f
  <2>2. Append(f, u) \in Seq(Record!Texts) \ {<<>>} /\ Len(Append(f, u)) = q
        /\ (\A k \in 1..(q - 1) : Append(f, u)[k] = f[k]) /\ Append(f, u)[q] = u
    BY <1>18, <2>1, AppendProperties
  <2> QED
    BY <2>1, <2>2 DEF f
<1>20. Chain(ms, 0, g, marks)
  BY <1>4, <1>5, <1>16, <1>17, ChainAppend
<1> HIDE DEF ms, x, q, c
<1>21. \A k \in 1..q : Normal(ms[k]) /\ OneLine(ms[k])
  <2>1. \A k \in 1..q : Normal(ls[k]) /\ OneLine(ls[k])
    BY DEF CutPast, q
  <2>2. \A k \in 1..q : k \in 1..(q - 1) \/ k = q
    BY <1>2
  <2> QED
    BY <1>16, <1>19, <2>1, <2>2
<1>22. q >= 2 => SetApart(u, marks)
  <2> SUFFICES ASSUME q >= 2 PROVE marks[u[1]].apart
    BY DEF SetApart
  <2>1. CASE x # <<>>
    BY <1>6, <1>16, <2>1 DEF SetApart
  <2>2. CASE x = <<>>
    <3>1. m > 0 /\ t[m] = Record!Line
      BY <1>7, <2>2
    <3>2. c # Record!Space
      BY <1>11, <2>2 DEF EndsInLetter
    <3>3. Record!IsBlank(t[m])
      BY <3>1 DEF Record!IsBlank
    <3> QED
      BY <1>14, <1>16, <2>2, <3>1, <3>2, <3>3
  <2> QED
    BY <2>1, <2>2
<1>23. \A k \in 2..q : SetApart(ms[k], marks)
  <2>1. \A k \in 2..q : SetApart(ls[k], marks)
    BY DEF CutPast, q
  <2>2. \A k \in 2..q : (k \in 1..(q - 1)) \/ (k = q /\ q >= 2)
    BY <1>2
  <2> QED
    BY <1>19, <1>22, <2>1, <2>2
<1>24. \A k \in 1..(q - 1) : EndsInLetter(ms[k])
  BY <1>19 DEF CutPast, q
<1>25. q = 1 => \A i \in 1..(m + 1) : t[i] # Record!Line
  <2>1. q = 1 => \A i \in 1..m : t[i] # Record!Line
    BY DEF CutPast, q
  <2>2. \A i \in 1..(m + 1) : i \in 1..m \/ i = m + 1
    OBVIOUS
  <2> QED
    BY <2>1, <2>2
<1>26. ms[Len(ms)] # <<>> /\ ms[Len(ms)][Len(ms[Len(ms)])] = t[m + 1] /\ m + 1 > 0
  BY <1>16, <1>19 DEF c
<1>27. \E f \in 0..n : Upto(t, m + 1, f) /\ Chain(ms, 0, f, marks)
  BY <1>17, <1>20
<1>28. CutPast(ms, t, m + 1, n, marks)
  BY ONLY <1>19, <1>21, <1>23, <1>24, <1>25, <1>26, <1>27 DEF CutPast
<1> QED
  BY <1>28 DEF ms, u, x, c

(* The lines of a text that was read.                                      *)
LEMMA LinesAre ==
  ASSUME NEW t, Normal(t), NEW n \in Nat, Covers(t, 0, n), NEW marks, Spaced(t, marks)
  PROVE  CutPast(Record!Lines(t), t, Len(t), n, marks)
<1> DEFINE D == Seq(Record!Texts) \ {<<>>}
           E == <<>>
           base == <<E>>
           Next1(d, c) == IF c = Record!Line THEN Append(d, E) ELSE Append(Record!Front(d), Append(Record!Last(d), c))
           step == [p \in D \X Int |-> Next1(p[1], p[2])]
           RecordInv == {p \in Nat \X D : CutPast(p[2], t, p[1], n, marks)}
<1>1. t \in Seq(Int) /\ t \in Record!Texts /\ Len(t) \in Nat
  BY DEF Normal, Record!Texts
<1>2. Record!Lines(t) = Record!Folded(step, base, t)
  BY DEF Record!Lines
<1>3. CutPast(base, t, 0, n, marks) /\ base \in D
  <2>1. CutPast(base, t, 0, n, marks)
    BY <1>1, CutAtFirst
  <2> QED
    BY <2>1 DEF CutPast
<1>4. \A d \in D : \A c \in Int : Next1(d, c) \in D
  <2> SUFFICES ASSUME NEW d \in D, NEW c \in Int PROVE Next1(d, c) \in D
    OBVIOUS
  <2>1. E \in Record!Texts
    BY DEF Record!Texts
  <2> HIDE DEF E
  <2>2. Append(d, E) \in D
    BY <2>1, AppendIsSeq
  <2>3. Record!Last(d) \in Record!Texts
    BY DEF Record!Last
  <2>4. Append(Record!Last(d), c) \in Record!Texts
    BY <2>3, Appending
  <2>5. Record!Front(d) \in Seq(Record!Texts)
    BY DEF Record!Front
  <2>6. Append(Record!Front(d), Append(Record!Last(d), c)) \in D
    BY <2>4, <2>5, AppendIsSeq
  <2> QED
    BY <2>2, <2>6
<1>5. ASSUME NEW i \in 1..Len(t), NEW d \in D, CutPast(d, t, i - 1, n, marks)
      PROVE  CutPast(Next1(d, t[i]), t, i, n, marks)
  <2> DEFINE m == i - 1
  <2>1. m \in Nat /\ m + 1 = i /\ m + 1 \in 1..Len(t) /\ CutPast(d, t, m, n, marks)
    BY <1>1, <1>5
  <2> HIDE DEF m
  <2>2. CASE t[i] = Record!Line
    BY <2>1, <2>2, CutAtLine
  <2>3. CASE t[i] # Record!Line
    <3>1. CutPast(Append(Record!Front(d), Append(Record!Last(d), t[m + 1])), t, m + 1, n, marks)
      BY <2>1, <2>3, CutInLine
    <3> QED
      BY <2>1, <2>3, <3>1
  <2> QED
    BY <2>2, <2>3
<1>6. \A d \in D : \A c \in Int : step[<<d, c>>] = Next1(d, c)
  OBVIOUS
<1> HIDE DEF Next1
<1>7. step \in [D \X Int -> D]
  BY <1>4
<1> HIDE DEF step, base, D
<1>8. <<0, base>> \in RecordInv
  BY <1>3
<1>9. ASSUME NEW i \in 1..Len(t), NEW d \in D, <<i - 1, d>> \in RecordInv
      PROVE  <<i, step[<<d, t[i]>>]>> \in RecordInv
  <2>1. t[i] \in Int /\ i \in Nat /\ CutPast(d, t, i - 1, n, marks)
    BY <1>1, <1>9
  <2> QED
    BY <1>4, <1>5, <1>6, <2>1
<1> HIDE DEF RecordInv
<1>10. <<Len(t), Record!Folded(step, base, t)>> \in RecordInv
  BY <1>1, <1>3, <1>7, <1>8, <1>9, FoldHolds
<1> QED
  BY <1>2, <1>10 DEF RecordInv

-----------------------------------------------------------------------------
(* Paragraphs.                                                             *)
LEMMA SameTexts ==
  ASSUME NEW x \in Record!Texts, NEW y \in Record!Texts, Len(x) = Len(y),
         \A i \in 1..Len(x) : x[i] = y[i]
  PROVE  x = y
<1>1. x \in Seq(Int) /\ y \in Seq(Int)
  BY DEF Record!Texts
<1> QED
  BY <1>1, SeqEqual

LEMMA AppendedType ==
  ASSUME NEW t \in Record!Texts
  PROVE  Record!Appended(<<>>, t) \in Record!Texts
<1> DEFINE step == [p \in Record!Texts \X Int |-> Record!Kept(p[1], p[2])]
           e == <<>>
<1>1. t \in Seq(Int) /\ e \in Record!Texts
  BY DEF Record!Texts
<1>2. step \in [Record!Texts \X Int -> Record!Texts]
  BY KeptType
<1>3. Record!Appended(e, t) = Record!Folded(step, e, t)
  BY DEF Record!Appended
<1> DEFINE RecordInv == Nat \X Record!Texts
<1>4. <<0, e>> \in RecordInv
  BY <1>1
<1> HIDE DEF step, e
<1>5. ASSUME NEW i \in 1..Len(t), NEW d \in Record!Texts, <<i - 1, d>> \in RecordInv
      PROVE  <<i, step[<<d, t[i]>>]>> \in RecordInv
  <2>1. t[i] \in Int /\ i \in Nat
    BY <1>1
  <2> QED
    BY <1>2, <2>1
<1> HIDE DEF RecordInv
<1>6. Record!Folded(step, e, t) \in Record!Texts
  BY <1>1, <1>2, <1>4, <1>5, FoldHolds
<1> QED
  BY <1>3, <1>6 DEF e

(* A line is left as it is ...                                             *)
LEMMA AppendedIs ==
  ASSUME NEW t, Normal(t), OneLine(t)
  PROVE  Record!Appended(<<>>, t) = t
<1> DEFINE step == [p \in Record!Texts \X Int |-> Record!Kept(p[1], p[2])]
           e == <<>>
           Same(i, d) == d \in Record!Texts /\ Len(d) = i /\ \A j \in 1..i : d[j] = t[j]
           RecordInv == {p \in Nat \X Record!Texts : Same(p[1], p[2])}
<1>1. t \in Record!Texts /\ t \in Seq(Int) /\ Len(t) \in Nat /\ e \in Record!Texts
  BY DEF Normal, Record!Texts
<1>2. step \in [Record!Texts \X Int -> Record!Texts]
  BY KeptType
<1>3. Record!Appended(e, t) = Record!Folded(step, e, t)
  BY DEF Record!Appended
<1>4. Same(0, e)
  BY <1>1
<1>5. \A d \in Record!Texts : \A c \in Int : step[<<d, c>>] = Record!Kept(d, c)
  OBVIOUS
<1>6. ASSUME NEW i \in 1..Len(t), NEW d \in Record!Texts, Same(i - 1, d)
      PROVE  Same(i, Record!Kept(d, t[i]))
  <2>1. t[i] \in Int /\ Len(d) = i - 1 /\ i \in Nat
    BY <1>1, <1>6
  <2>2. ~(t[i] = Record!Space /\ (d = <<>> \/ Record!IsBlank(d[Len(d)])))
    <3> SUFFICES ASSUME t[i] = Record!Space PROVE d # <<>> /\ ~Record!IsBlank(d[Len(d)])
      OBVIOUS
    <3>1. Record!IsBlank(t[i])
      BY DEF Record!IsBlank
    <3>2. i # 1
      <4> SUFFICES ASSUME i = 1 PROVE FALSE
        OBVIOUS
      <4>1. t # <<>>
        BY <1>1
      <4> QED
        BY <3>1, <4>1 DEF Normal
    <3>3. i \in 2..Len(t) /\ i - 1 \in 1..(i - 1)
      BY <1>1, <3>2
    <3>4. ~Record!IsBlank(t[i - 1])
      BY <3>1, <3>3 DEF Normal
    <3>5. d[i - 1] = t[i - 1]
      BY <1>6, <3>3
    <3>6. d # <<>>
      BY <2>1, <3>3
    <3> QED
      BY <2>1, <3>4, <3>5, <3>6
  <2>3. Record!Kept(d, t[i]) = Append(d, t[i])
    BY <2>1, <2>2, KeptIs
  <2> DEFINE u == Append(d, t[i])
  <2>4. u \in Record!Texts /\ Len(u) = Len(d) + 1
        /\ (\A j \in 1..Len(d) : u[j] = d[j]) /\ u[Len(d) + 1] = t[i]
    BY <2>1, Appending
  <2> HIDE DEF u
  <2>5. \A j \in 1..i : u[j] = t[j]
    <3>1. \A j \in 1..i : j \in 1..(i - 1) \/ j = i
      BY <2>1
    <3>2. i - 1 + 1 = i
      BY <2>1
    <3> QED
      BY <1>6, <2>1, <2>4, <3>1, <3>2
  <2> QED
    BY <2>1, <2>3, <2>4, <2>5 DEF u
<1> HIDE DEF step, e
<1>7. <<0, e>> \in RecordInv
  BY <1>1, <1>4
<1>8. ASSUME NEW i \in 1..Len(t), NEW d \in Record!Texts, <<i - 1, d>> \in RecordInv
      PROVE  <<i, step[<<d, t[i]>>]>> \in RecordInv
  <2>1. t[i] \in Int /\ i \in Nat /\ Same(i - 1, d)
    BY <1>1, <1>8
  <2>2. Same(i, Record!Kept(d, t[i]))
    BY <1>6, <2>1
  <2> HIDE DEF Same
  <2>3. Record!Kept(d, t[i]) \in Record!Texts
    BY <2>1, KeptType
  <2> QED
    BY <1>5, <2>1, <2>2, <2>3
<1> HIDE DEF RecordInv
<1>9. <<Len(t), Record!Folded(step, e, t)>> \in RecordInv
  BY <1>1, <1>2, <1>7, <1>8, FoldHolds
<1>10. Same(Len(t), Record!Folded(step, e, t))
  BY <1>9 DEF RecordInv
<1>11. Record!Folded(step, e, t) = t
  BY <1>1, <1>10, SameTexts
<1> QED
  BY <1>3, <1>11 DEF e

(* ... but for the blank at its end.                                       *)
LEMMA TrimmedIs ==
  ASSUME NEW marks, NEW x, Normal(x), NEW lo \in Nat, NEW hi \in Nat, Segment(x, lo, hi, marks)
  PROVE  LET y == Record!TrimEnd(x)
         IN  /\ Normal(y) /\ Segment(y, lo, hi, marks) /\ (y = <<>> <=> x = <<>>)
             /\ (y # <<>> => EndsInLetter(y) /\ y[1] = x[1])
             /\ Len(y) <= Len(x) /\ \A i \in 1..Len(y) : y[i] = x[i]
             /\ (EndsInLetter(x) => y = x)
<1> DEFINE y == Record!TrimEnd(x)
<1>1. x \in Record!Texts /\ Len(x) \in Nat /\ (x = <<>> <=> Len(x) = 0) /\ Covers(x, lo, hi)
  BY DEF Segment, Record!Texts
<1>2. PICK m \in 0..Len(x) :
        /\ y = SubSeq(x, 1, m) /\ (m = 0 \/ ~Record!IsBlank(x[m]))
        /\ \A i \in (m + 1)..Len(x) : Record!IsBlank(x[i])
  BY <1>1, TrimEndIs
<1>3. /\ y \in Record!Texts /\ Len(y) = m /\ \A i \in 1..m : y[i] = x[i]
  <2>1. 1 \in 1..(Len(x) + 1) /\ 1 <= m + 1
    BY <1>1
  <2>2. SubSeq(x, 1, m) \in Record!Texts /\ Len(SubSeq(x, 1, m)) = m - 1 + 1
        /\ \A i \in 1..(m - 1 + 1) : SubSeq(x, 1, m)[i] = x[1 + i - 1]
    BY <1>1, <2>1, Cutting
  <2> HIDE DEF y
  <2> QED
    BY <1>1, <1>2, <2>2
<1>4. Normal(y)
  BY <1>2, BeginningIsNormal
<1>5. Segment(y, lo, hi, marks)
  <2>1. lo \in lo..hi /\ hi \in lo..hi
    BY <1>1 DEF Covers
  <2>2. \A i \in 1..Len(x) : Record!IsBlank(x[i]) \/ (x[i] > lo /\ x[i] <= hi)
    BY <1>1 DEF Covers
  <2>3. Upto(x, 0, lo)
    BY <2>2 DEF Upto
  <2>4. Upto(x, m, hi)
    <3>1. \A i \in 1..m : i \in 1..Len(x)
      BY <1>1
    <3> QED
      BY <1>2, <2>2, <3>1 DEF Upto
  <2>5. 0 \in 0..Len(x) /\ 0 <= m /\ 0 + 1 = 1
    BY <1>1
  <2>6. Segment(SubSeq(x, 0 + 1, m), lo, hi, marks)
    BY <1>1, <2>1, <2>3, <2>4, <2>5, SegmentOf
  <2> QED
    BY <1>2, <2>5, <2>6
<1> HIDE DEF y
<1>6. x # <<>> => m # 0
  <2> SUFFICES ASSUME x # <<>>, m = 0 PROVE FALSE
    OBVIOUS
  <2>1. 1 \in (m + 1)..Len(x)
    BY <1>1
  <2> QED
    BY <1>2, <2>1 DEF Normal
<1>7. y = <<>> <=> m = 0
  BY <1>1, <1>3 DEF Record!Texts
<1>8. m # 0 => x # <<>> /\ m \in 1..m /\ 1 \in 1..m
  BY <1>1
<1>9. y # <<>> => EndsInLetter(y) /\ y[1] = x[1]
  BY <1>2, <1>3, <1>7, <1>8 DEF EndsInLetter
<1>10. EndsInLetter(x) => y = x
  <2> SUFFICES ASSUME EndsInLetter(x) PROVE y = x
    OBVIOUS
  <2>1. m = Len(x)
    <3> SUFFICES ASSUME m # Len(x) PROVE FALSE
      OBVIOUS
    <3>1. Len(x) \in (m + 1)..Len(x)
      BY <1>1
    <3> QED
      BY <1>2, <3>1 DEF EndsInLetter
  <2> QED
    BY <1>1, <1>3, <2>1, SameTexts
<1>11. Len(y) <= Len(x) /\ \A i \in 1..Len(y) : y[i] = x[i]
  BY <1>1, <1>3
<1>12. y = <<>> <=> x = <<>>
  BY <1>6, <1>7, <1>8
<1> QED
  BY <1>4, <1>5, <1>9, <1>10, <1>11, <1>12 DEF y

LEMMA CollapsedIs ==
  ASSUME NEW marks, NEW x, Normal(x), OneLine(x), NEW lo \in Nat, NEW hi \in Nat,
         Segment(x, lo, hi, marks)
  PROVE  LET y == Record!Collapsed(x)
         IN  /\ Normal(y) /\ OneLine(y) /\ Segment(y, lo, hi, marks) /\ (y = <<>> <=> x = <<>>)
             /\ (y # <<>> => EndsInLetter(y) /\ y[1] = x[1])
<1> DEFINE y == Record!TrimEnd(x)
<1>1. Record!Collapsed(x) = y
  BY AppendedIs DEF Record!Collapsed
<1>2. /\ Normal(y) /\ Segment(y, lo, hi, marks) /\ (y = <<>> <=> x = <<>>)
      /\ (y # <<>> => EndsInLetter(y) /\ y[1] = x[1])
      /\ Len(y) <= Len(x) /\ \A i \in 1..Len(y) : y[i] = x[i]
  BY TrimmedIs
<1> HIDE DEF y
<1>3. OneLine(y)
  <2>1. Len(x) \in Nat /\ Len(y) \in Nat
    BY <1>2 DEF Normal, Record!Texts
  <2>2. \A i \in 1..Len(y) : i \in 1..Len(x)
    BY <1>2, <2>1
  <2> QED
    BY <1>2, <2>2 DEF OneLine
<1> QED
  BY <1>1, <1>2, <1>3

LEMMA TrimEndType ==
  ASSUME NEW t \in Record!Texts
  PROVE  Record!TrimEnd(t) \in Record!Texts
         /\ (Record!TrimEnd(t) # <<>> => \E i \in 1..Len(t) : ~Record!IsBlank(t[i]))
         /\ (Record!TrimEnd(t) # <<>> => EndsInLetter(Record!TrimEnd(t)))
<1>1. Len(t) \in Nat
  BY DEF Record!Texts
<1>2. PICK m \in 0..Len(t) :
        /\ Record!TrimEnd(t) = SubSeq(t, 1, m) /\ (m = 0 \/ ~Record!IsBlank(t[m]))
        /\ \A i \in (m + 1)..Len(t) : Record!IsBlank(t[i])
  BY TrimEndIs
<1>3. 1 \in 1..(Len(t) + 1) /\ 1 <= m + 1
  BY <1>1
<1> DEFINE u == SubSeq(t, 1, m)
<1>4. u \in Record!Texts /\ Len(u) = m - 1 + 1 /\ \A i \in 1..(m - 1 + 1) : u[i] = t[1 + i - 1]
  BY <1>3, Cutting
<1> HIDE DEF u
<1>5. Len(u) = m
  BY <1>1, <1>4
<1>6. u # <<>> => m # 0
  BY <1>4, <1>5 DEF Record!Texts
<1>7. m # 0 => m \in 1..Len(t) /\ ~Record!IsBlank(t[m]) /\ u[m] = t[m]
  <2> SUFFICES ASSUME m # 0 PROVE m \in 1..Len(t) /\ u[m] = t[m]
    BY <1>2
  <2>1. m \in 1..(m - 1 + 1) /\ 1 + m - 1 = m
    BY <1>1
  <2> QED
    BY <1>1, <1>4, <2>1
<1> QED
  BY <1>2, <1>4, <1>5, <1>6, <1>7 DEF EndsInLetter, u

LEMMA CollapsedType ==
  ASSUME NEW t \in Record!Texts
  PROVE  Record!Collapsed(t) \in Record!Texts
         /\ (Record!Collapsed(t) # <<>> => EndsInLetter(Record!Collapsed(t)))
  BY AppendedType, TrimEndType DEF Record!Collapsed

Alineas(ps, marks) ==
  /\ ps \in Seq(Record!Texts)
  /\ \A k \in 1..Len(ps) : Normal(ps[k]) /\ OneLine(ps[k]) /\ EndsInLetter(ps[k])
  /\ \A k \in 2..Len(ps) : SetApart(ps[k], marks)

LEMMA EmptySegment ==
  ASSUME NEW marks, NEW lo \in Nat, NEW hi \in Nat, Segment(<<>>, lo, hi, marks)
  PROVE  lo = hi
<1> DEFINE e == <<>>
<1>1. Len(e) = 0 /\ Segment(e, lo, hi, marks) /\ 1..0 = {}
  OBVIOUS
<1> HIDE DEF e
<1>2. lo <= hi /\ \A k \in (lo + 1)..hi : FALSE
  BY <1>1 DEF Segment, Covers
<1> QED
  BY <1>2

LEMMA AlineasAppend ==
  ASSUME NEW marks, NEW ps, Alineas(ps, marks), NEW x \in Record!Texts, Normal(x), OneLine(x),
         EndsInLetter(x), ps # <<>> => SetApart(x, marks)
  PROVE  Alineas(Append(ps, x), marks) /\ Len(Append(ps, x)) = Len(ps) + 1
<1> DEFINE q == Len(ps)
           ms == Append(ps, x)
<1>1. ps \in Seq(Record!Texts) /\ q \in Nat /\ (ps = <<>> <=> q = 0)
  BY DEF Alineas
<1>2. ms \in Seq(Record!Texts) /\ Len(ms) = q + 1 /\ (\A k \in 1..q : ms[k] = ps[k]) /\ ms[q + 1] = x
  BY <1>1, AppendProperties
<1> HIDE DEF ms, q
<1>3. \A k \in 1..q : Normal(ps[k]) /\ OneLine(ps[k]) /\ EndsInLetter(ps[k])
  BY DEF Alineas, q
<1>4. \A k \in 2..q : SetApart(ps[k], marks)
  BY DEF Alineas, q
<1>5. \A k \in 1..(q + 1) : k \in 1..q \/ k = q + 1
  BY <1>1
<1>6. \A k \in 2..(q + 1) : (k \in 2..q /\ k \in 1..q) \/ (k = q + 1 /\ ps # <<>>)
  BY <1>1
<1>7. \A k \in 1..(q + 1) : Normal(ms[k]) /\ OneLine(ms[k]) /\ EndsInLetter(ms[k])
  BY <1>2, <1>3, <1>5
<1>8. \A k \in 2..(q + 1) : SetApart(ms[k], marks)
  BY <1>2, <1>4, <1>6
<1>9. Alineas(ms, marks)
  BY ONLY <1>2, <1>7, <1>8 DEF Alineas
<1> QED
  BY <1>2, <1>9 DEF ms, q

(* The paragraphs of a text that was read.                                 *)
LEMMA ParagraphsAre ==
  ASSUME NEW t, Normal(t), NEW n \in Nat, Covers(t, 0, n), NEW marks, Spaced(t, marks)
  PROVE  /\ Alineas(Record!Paragraphs(t), marks) /\ Chain(Record!Paragraphs(t), 0, n, marks)
         /\ (EndsInLetter(t) /\ Len(Record!Paragraphs(t)) <= 1 => OneLine(t))
<1> DEFINE ls == Record!Lines(t)
           q == Len(ls)
           D == Seq(Record!Texts)
           Next1(d, x) == IF Record!Collapsed(x) = <<>> THEN d ELSE Append(d, Record!Collapsed(x))
           step == [p \in D \X Record!Texts |-> Next1(p[1], p[2])]
           base == <<>>
<1>1. t \in Record!Texts /\ Len(t) \in Nat
  BY DEF Normal, Record!Texts
<1>2. CutPast(ls, t, Len(t), n, marks)
  BY LinesAre
<1>3. Record!Paragraphs(t) = Record!Folded(step, base, ls)
  BY DEF Record!Paragraphs
<1> HIDE DEF ls
<1>4. ls \in D /\ q \in Nat \ {0}
  BY <1>2 DEF CutPast
<1>5. PICK h \in 0..n : Upto(t, Len(t), h) /\ Chain(ls, 0, h, marks)
  BY <1>2 DEF CutPast
<1>6. h = n
  BY <1>1, <1>5, AllRead
<1>7. PICK cut \in [0..q -> Nat] :
        cut[0] = 0 /\ cut[q] = n /\ \A k \in 1..q : Segment(ls[k], cut[k - 1], cut[k], marks)
  BY <1>5, <1>6 DEF Chain
<1>8. /\ \A k \in 1..q : Normal(ls[k]) /\ OneLine(ls[k]) /\ ls[k] \in Record!Texts
      /\ \A k \in 2..q : SetApart(ls[k], marks)
  BY <1>2, <1>4 DEF CutPast
<1> DEFINE Good(k, ps) ==
             /\ Alineas(ps, marks) /\ Chain(ps, 0, cut[k], marks) /\ Len(ps) <= k
             /\ (\A j \in 1..k : ls[j] # <<>>) => Len(ps) = k
           RecordInv == {p \in (0..q) \X D : Good(p[1], p[2])}
<1> HIDE DEF q
<1>9. Good(0, base) /\ base \in D
  <2>1. base \in D /\ Len(base) = 0
    OBVIOUS
  <2>2. Chain(base, 0, cut[0], marks)
    BY <1>7, ChainNone
  <2>3. Alineas(base, marks)
    <3> HIDE DEF base
    <3>1. 1..0 = {} /\ 2..0 = {}
      OBVIOUS
    <3> QED
      BY <2>1, <3>1 DEF Alineas
  <2> QED
    BY <2>1, <2>2, <2>3
<1>10. \A d \in D : \A x \in Record!Texts : Next1(d, x) \in D
  <2> SUFFICES ASSUME NEW d \in D, NEW x \in Record!Texts PROVE Next1(d, x) \in D
    OBVIOUS
  <2>1. Append(d, Record!Collapsed(x)) \in D
    BY CollapsedType, AppendIsSeq
  <2> QED
    BY <2>1
<1>11. ASSUME NEW k \in 1..q, NEW d \in D, Good(k - 1, d)
       PROVE  Good(k, Next1(d, ls[k]))
  <2> DEFINE x == ls[k]
             y == Record!Collapsed(x)
  <2>1. cut[k - 1] \in Nat /\ cut[k] \in Nat /\ k \in Nat /\ k - 1 \in Nat
    BY <1>4, <1>7
  <2>2. x \in Record!Texts /\ Normal(x) /\ OneLine(x) /\ Segment(x, cut[k - 1], cut[k], marks)
    BY <1>7, <1>8
  <2> HIDE DEF x
  <2>3. /\ Normal(y) /\ OneLine(y) /\ Segment(y, cut[k - 1], cut[k], marks) /\ (y = <<>> <=> x = <<>>)
        /\ (y # <<>> => EndsInLetter(y) /\ y[1] = x[1])
    BY <2>1, <2>2, CollapsedIs
  <2> HIDE DEF y
  <2>4. CASE y = <<>>
    <3>1. cut[k - 1] = cut[k]
      BY <2>1, <2>3, <2>4, EmptySegment
    <3>2. Next1(d, x) = d
      BY <2>4 DEF y
    <3>3. ~(\A j \in 1..k : ls[j] # <<>>)
      BY <2>1, <2>3, <2>4 DEF x
    <3>4. Len(d) <= k
      BY <1>11, <2>1
    <3> QED
      BY <1>11, <3>1, <3>2, <3>3, <3>4 DEF x
  <2>5. CASE y # <<>>
    <3>1. Next1(d, x) = Append(d, y)
      BY <2>5 DEF y
    <3>2. Len(d) <= k - 1 /\ Len(d) \in Nat /\ Alineas(d, marks) /\ Chain(d, 0, cut[k - 1], marks)
      BY <1>11
    <3>3. d # <<>> => SetApart(y, marks)
      <4> SUFFICES ASSUME d # <<>> PROVE SetApart(y, marks)
        OBVIOUS
      <4>1. k \in 2..q
        <5>1. Len(d) # 0
          OBVIOUS
        <5> QED
          BY <1>4, <3>2, <5>1
      <4>2. SetApart(x, marks)
        BY <1>8, <4>1 DEF x
      <4> QED
        BY <2>3, <2>5, <4>2 DEF SetApart
    <3>4. y \in Record!Texts
      BY <2>3 DEF Segment
    <3>5. Alineas(Append(d, y), marks) /\ Len(Append(d, y)) = Len(d) + 1
      BY <2>3, <2>5, <3>2, <3>3, <3>4, AlineasAppend
    <3>6. Chain(Append(d, y), 0, cut[k], marks)
      BY <2>1, <2>3, <3>2, ChainAppend
    <3>7. Len(d) + 1 <= k
      BY <2>1, <3>2
    <3>8. (\A j \in 1..k : ls[j] # <<>>) => Len(d) + 1 = k
      <4> SUFFICES ASSUME \A j \in 1..k : ls[j] # <<>> PROVE Len(d) = k - 1
        BY <2>1
      <4>1. \A j \in 1..(k - 1) : j \in 1..k
        BY <2>1
      <4> QED
        BY <1>11, <4>1
    <3> QED
      BY <3>1, <3>5, <3>6, <3>7, <3>8 DEF x
  <2> QED
    BY <2>4, <2>5
<1>12. \A d \in D : \A x \in Record!Texts : step[<<d, x>>] = Next1(d, x)
  OBVIOUS
<1>13. step \in [D \X Record!Texts -> D]
  BY <1>10
<1> HIDE DEF step, base, Next1, Good
<1>14. <<0, base>> \in RecordInv
  BY <1>4, <1>9
<1>15. ASSUME NEW k \in 1..q, NEW d \in D, <<k - 1, d>> \in RecordInv
       PROVE  <<k, step[<<d, ls[k]>>]>> \in RecordInv
  <2>1. ls[k] \in Record!Texts /\ k \in 0..q /\ Good(k - 1, d)
    BY <1>4, <1>8, <1>15
  <2> QED
    BY <1>10, <1>11, <1>12, <2>1
<1> HIDE DEF RecordInv
<1>16. <<q, Record!Folded(step, base, ls)>> \in RecordInv
  <2> HIDE DEF D
  <2>1. ls \in Seq(Record!Texts) /\ base \in D
    BY <1>4, <1>9 DEF D
  <2> QED
    BY <1>13, <1>14, <1>15, <2>1, FoldHolds DEF q
<1> DEFINE P == Record!Paragraphs(t)
<1>17. Good(q, P)
  BY <1>3, <1>16 DEF RecordInv
<1>18. Alineas(P, marks) /\ Chain(P, 0, n, marks) /\ ((\A j \in 1..q : ls[j] # <<>>) => Len(P) = q)
  BY <1>7, <1>17 DEF Good
<1> HIDE DEF P
<1>19. ASSUME EndsInLetter(t), Len(P) <= 1 PROVE OneLine(t)
  <2>1. t # <<>> /\ ~Record!IsBlank(t[Len(t)]) /\ Len(t) # 0
    BY <1>1, <1>19 DEF EndsInLetter, Record!Texts
  <2>2. ls[q] # <<>>
    <3>1. t[Len(t)] # Record!Line
      BY <2>1 DEF Record!IsBlank
    <3> QED
      BY <1>2, <2>1, <3>1 DEF CutPast, q
  <2>3. \A j \in 1..(q - 1) : ls[j] # <<>>
    BY <1>2 DEF CutPast, EndsInLetter, q
  <2>4. \A j \in 1..q : j \in 1..(q - 1) \/ j = q
    BY <1>4
  <2>5. Len(P) = q
    BY <1>18, <2>2, <2>3, <2>4
  <2>6. q = 1
    BY <1>4, <1>19, <2>5
  <2> QED
    BY <1>2, <2>6 DEF CutPast, OneLine, q
<1> QED
  BY <1>18, <1>19 DEF P

-----------------------------------------------------------------------------
(* Paragraphs put together.                                                *)
Glued(u, x) == IF u = <<>> THEN x ELSE u \o <<Record!Line>> \o x

LEMMA GluedType ==
  ASSUME NEW u \in Record!Texts, NEW x \in Record!Texts
  PROVE  Glued(u, x) \in Record!Texts
<1>1. Record!Line \in Int
  BY DEF Record!Line
<1> QED
  BY <1>1 DEF Glued, Record!Texts

LEMMA JoinedTwo ==
  ASSUME NEW u \in Record!Texts, NEW x \in Record!Texts
  PROVE  Record!Joined(<<u, x>>) = Glued(u, x)
<1> DEFINE G(a, b) == IF a = <<>> THEN b ELSE a \o <<Record!Line>> \o b
           step == [p \in Record!Texts \X Record!Texts |-> G(p[1], p[2])]
           s == <<u, x>>
           e == <<>>
<1>1. Record!Joined(s) = Record!Folded(step, e, s)
  BY DEF Record!Joined, Record!JoinedBy
<1>2. s \in Seq(Record!Texts) /\ Len(s) = 2 /\ s[1] = u /\ s[2] = x /\ e \in Record!Texts
  BY DEF Record!Texts
<1>3. \A a \in Record!Texts : \A b \in Record!Texts : step[<<a, b>>] = G(a, b) /\ G(a, b) \in Record!Texts
  BY GluedType DEF Glued
<1>4. step \in [Record!Texts \X Record!Texts -> Record!Texts]
  BY <1>3
<1>5. G(e, u) = u
  OBVIOUS
<1> HIDE DEF step, s, e, G
<1>6. PICK f \in [0..2 -> Record!Texts] : Goes(f, step, e, s)
  BY <1>2, <1>4, FoldedIs
<1>7. f[0] = e /\ f[1] = step[<<f[1 - 1], s[1]>>] /\ f[2] = step[<<f[2 - 1], s[2]>>]
      /\ Record!Folded(step, e, s) = f[2]
  BY <1>2, <1>6 DEF Goes
<1>8. f[1] = u
  BY <1>2, <1>3, <1>5, <1>7
<1>9. f[2] = G(u, x)
  BY <1>2, <1>3, <1>7, <1>8
<1> QED
  BY <1>1, <1>7, <1>9 DEF Glued, G, s

LEMMA GluedIs ==
  ASSUME NEW marks, NEW u, NEW x, NEW lo \in Nat, NEW mid \in Nat, NEW hi \in Nat,
         Normal(u), Segment(u, lo, mid, marks), EndsInLetter(u),
         Normal(x), Segment(x, mid, hi, marks), EndsInLetter(x), SetApart(x, marks)
  PROVE  /\ Normal(Glued(u, x)) /\ Segment(Glued(u, x), lo, hi, marks) /\ EndsInLetter(Glued(u, x))
         /\ ~OneLine(Glued(u, x))
<1> DEFINE v == Append(u, Record!Line)
           w == v \o x
<1>0. u \in Record!Texts /\ x \in Record!Texts /\ Len(u) \in Nat \ {0} /\ Len(x) \in Nat \ {0}
      /\ Record!Line \in Int
      /\ u # <<>> /\ x # <<>> /\ Covers(u, lo, mid) /\ Covers(x, mid, hi)
      /\ Spaced(u, marks) /\ Spaced(x, marks)
  BY DEF Segment, EndsInLetter, Record!Texts, Record!Line
<1>1. Glued(u, x) = w
  BY <1>0 DEF Glued
<1>2. /\ v \in Record!Texts /\ Len(v) = Len(u) + 1 /\ \A i \in 1..Len(u) : v[i] = u[i]
      /\ v[Len(u) + 1] = Record!Line
  BY <1>0, Appending
<1>3. Covers(v, lo, mid)
  BY <1>0, CoversBlank DEF Record!IsBlank
<1> HIDE DEF v
<1>4. Covers(w, lo, hi)
  BY <1>0, <1>2, <1>3, CoversConcat
<1> DEFINE n == Len(v)
<1>5. /\ w \in Record!Texts /\ Len(w) = n + Len(x) /\ n = Len(u) + 1
      /\ \A i \in 1..n : w[i] = v[i]
      /\ \A i \in 1..Len(x) : w[n + i] = x[i]
  BY <1>0, <1>2, Concatenated
<1> HIDE DEF w, n
<1>6. /\ \A i \in 1..Len(u) : w[i] = u[i]
      /\ w[n] = Record!Line
  <2>1. \A i \in 1..Len(u) : i \in 1..n
    BY <1>0, <1>5
  <2>2. n \in 1..n
    BY <1>0, <1>5
  <2> QED
    BY <1>2, <1>5, <2>1, <2>2
<1>7. ~Record!IsBlank(u[Len(u)]) /\ ~Record!IsBlank(x[Len(x)]) /\ ~Record!IsBlank(u[1])
      /\ ~Record!IsBlank(x[1]) /\ Record!IsBlank(Record!Line)
  BY <1>0 DEF EndsInLetter, Normal, Record!IsBlank
<1>8. ASSUME NEW i \in 2..Len(w)
      PROVE  /\ Record!IsBlank(w[i - 1]) => ~Record!IsBlank(w[i])
             /\ ~Record!IsBlank(w[i]) => (Record!IsBlank(w[i - 1]) <=> marks[w[i]].apart)
  <2>1. CASE i <= Len(u)
    <3>1. i \in 2..Len(u) /\ i \in 1..Len(u) /\ i - 1 \in 1..Len(u)
      BY <1>0, <2>1
    <3>2. w[i] = u[i] /\ w[i - 1] = u[i - 1]
      BY <1>6, <3>1
    <3> QED
      BY <1>0, <3>1, <3>2 DEF Normal, Spaced
  <2>2. CASE i = n
    <3>1. i - 1 = Len(u) /\ Len(u) \in 1..Len(u)
      BY <1>0, <1>5, <2>2
    <3>2. w[i - 1] = u[Len(u)]
      BY <1>6, <3>1
    <3> QED
      BY <1>6, <1>7, <2>2, <3>2
  <2>3. CASE i = n + 1
    <3>1. i - 1 = n /\ 1 \in 1..Len(x)
      BY <1>0, <1>5, <2>3
    <3>2. w[i] = x[1]
      BY <1>5, <2>3, <3>1
    <3> QED
      BY <1>0, <1>6, <1>7, <3>1, <3>2 DEF SetApart
  <2>4. CASE i > n + 1
    <3> DEFINE j == i - n
    <3>1. j \in 2..Len(x) /\ j \in 1..Len(x) /\ j - 1 \in 1..Len(x) /\ n + j = i /\ n + (j - 1) = i - 1
      BY <1>0, <1>5, <2>4
    <3> HIDE DEF j
    <3>2. w[i] = x[j] /\ w[i - 1] = x[j - 1]
      BY <1>5, <3>1
    <3> QED
      BY <1>0, <3>1, <3>2 DEF Normal, Spaced
  <2> QED
    BY <1>0, <1>5, <2>1, <2>2, <2>3, <2>4
<1>9. Len(w) \in 1..Len(w) /\ w # <<>> /\ w[Len(w)] = x[Len(x)] /\ w[1] = u[1] /\ n \in 1..Len(w)
  <2>1. Len(x) \in 1..Len(x) /\ 1 \in 1..Len(u)
    BY <1>0
  <2>2. w[n + Len(x)] = x[Len(x)] /\ w[1] = u[1]
    BY <1>5, <1>6, <2>1
  <2> QED
    BY <1>0, <1>5, <2>2 DEF Record!Texts
<1>10. Normal(w)
  BY <1>5, <1>7, <1>8, <1>9 DEF Normal
<1>11. Spaced(w, marks)
  BY <1>8 DEF Spaced
<1>12. EndsInLetter(w) /\ ~OneLine(w)
  BY <1>6, <1>7, <1>9 DEF EndsInLetter, OneLine
<1> QED
  BY <1>1, <1>4, <1>5, <1>10, <1>11, <1>12 DEF Segment

(* A text as finish_body leaves it.                                        *)
Written(t, n, marks) ==
  Normal(t) /\ Segment(t, 0, n, marks) /\ (t # <<>> => EndsInLetter(t))

LEMMA JoinedByType ==
  ASSUME NEW ps \in Seq(Record!Texts), NEW separator \in Record!Texts
  PROVE  Record!JoinedBy(ps, separator) \in Record!Texts
<1> DEFINE G(a, b) == IF a = <<>> THEN b ELSE a \o separator \o b
           step == [p \in Record!Texts \X Record!Texts |-> G(p[1], p[2])]
           e == <<>>
           RecordInv == Nat \X Record!Texts
<1>1. Record!JoinedBy(ps, separator) = Record!Folded(step, e, ps)
  BY DEF Record!JoinedBy
<1>2. \A a \in Record!Texts : \A b \in Record!Texts : step[<<a, b>>] = G(a, b) /\ G(a, b) \in Record!Texts
  BY DEF Record!Texts
<1>3. step \in [Record!Texts \X Record!Texts -> Record!Texts] /\ e \in Record!Texts
  BY <1>2 DEF Record!Texts
<1> HIDE DEF step, G
<1>4. <<0, e>> \in RecordInv
  BY <1>3
<1> HIDE DEF e
<1>5. ASSUME NEW k \in 1..Len(ps), NEW d \in Record!Texts, <<k - 1, d>> \in RecordInv
      PROVE  <<k, step[<<d, ps[k]>>]>> \in RecordInv
  <2>1. ps[k] \in Record!Texts /\ k \in Nat
    OBVIOUS
  <2> QED
    BY <1>2, <2>1
<1> HIDE DEF RecordInv
<1>6. Record!Folded(step, e, ps) \in Record!Texts
  BY <1>3, <1>4, <1>5, FoldHolds
<1> QED
  BY <1>1, <1>6

LEMMA JoinedAre ==
  ASSUME NEW marks, NEW ps, Alineas(ps, marks), NEW n \in Nat, Chain(ps, 0, n, marks)
  PROVE  Written(Record!Joined(ps), n, marks)
<1> DEFINE G(a, b) == IF a = <<>> THEN b ELSE a \o <<Record!Line>> \o b
           step == [p \in Record!Texts \X Record!Texts |-> G(p[1], p[2])]
           e == <<>>
           q == Len(ps)
<1>1. Record!Joined(ps) = Record!Folded(step, e, ps)
  BY DEF Record!Joined, Record!JoinedBy
<1>2. ps \in Seq(Record!Texts) /\ q \in Nat
  BY DEF Alineas
<1>3. PICK cut \in [0..q -> Nat] :
        cut[0] = 0 /\ cut[q] = n /\ \A k \in 1..q : Segment(ps[k], cut[k - 1], cut[k], marks)
  BY DEF Chain
<1>4. \A a \in Record!Texts : \A b \in Record!Texts : step[<<a, b>>] = Glued(a, b) /\ Glued(a, b) \in Record!Texts
  BY GluedType DEF Glued
<1>5. step \in [Record!Texts \X Record!Texts -> Record!Texts]
  BY <1>4
<1> DEFINE Good(k, u) ==
             /\ Normal(u) /\ Segment(u, 0, cut[k], marks)
             /\ IF k = 0 THEN u = <<>> ELSE EndsInLetter(u)
           RecordInv == {p \in (0..q) \X Record!Texts : Good(p[1], p[2])}
<1>6. Good(0, e) /\ e \in Record!Texts
  BY <1>3, EmptyCovers
<1>7. e = <<>>
  OBVIOUS
<1> HIDE DEF step, G, e, q
<1>8. ASSUME NEW k \in 1..q, NEW u \in Record!Texts, Good(k - 1, u)
      PROVE  Good(k, Glued(u, ps[k]))
  <2> DEFINE x == ps[k]
  <2>1. /\ cut[k - 1] \in Nat /\ cut[k] \in Nat /\ k # 0
        /\ Segment(x, cut[k - 1], cut[k], marks)
        /\ Normal(x) /\ EndsInLetter(x)
    BY <1>2, <1>3 DEF Alineas, q
  <2>2. CASE k = 1
    <3>1. u = <<>> /\ cut[k - 1] = 0 /\ Glued(u, x) = x
      BY <1>3, <1>8, <2>2 DEF Glued
    <3> QED
      BY <2>1, <3>1
  <2>3. CASE k # 1
    <3>1. k \in 2..q /\ k - 1 # 0
      BY <1>2, <2>3
    <3>2. SetApart(x, marks)
      BY <3>1 DEF Alineas, q
    <3>3. Normal(u) /\ Segment(u, 0, cut[k - 1], marks) /\ EndsInLetter(u)
      BY <1>8, <3>1
    <3> HIDE DEF x
    <3>4. /\ Normal(Glued(u, x)) /\ Segment(Glued(u, x), 0, cut[k], marks)
          /\ EndsInLetter(Glued(u, x))
      BY <2>1, <3>2, <3>3, GluedIs
    <3> QED
      BY <2>1, <3>4 DEF x
  <2> QED
    BY <2>2, <2>3
<1>9. <<0, e>> \in RecordInv
  BY <1>2, <1>6
<1> HIDE DEF Good
<1>10. ASSUME NEW k \in 1..q, NEW u \in Record!Texts, <<k - 1, u>> \in RecordInv
       PROVE  <<k, step[<<u, ps[k]>>]>> \in RecordInv
  <2>1. ps[k] \in Record!Texts /\ k \in 0..q /\ Good(k - 1, u)
    BY <1>2, <1>10 DEF q
  <2> QED
    BY <1>4, <1>8, <2>1
<1> HIDE DEF RecordInv
<1>11. <<q, Record!Folded(step, e, ps)>> \in RecordInv
  BY <1>2, <1>5, <1>6, <1>9, <1>10, FoldHolds DEF q
<1>12. Good(q, Record!Joined(ps))
  BY <1>1, <1>11 DEF RecordInv
<1> QED
  BY <1>3, <1>12 DEF Good, Written

LEMMA CanonicalIs ==
  ASSUME NEW t, Normal(t), NEW n \in Nat, Ranked(t, n), NEW marks, Spaced(t, marks)
  PROVE  Written(Record!Canonical(t), n, marks)
<1>1. t \in Record!Texts /\ Covers(t, 0, n) /\ Segment(t, 0, n, marks)
  BY RankedCovers DEF Normal, Segment
<1>2. CASE member.family = "decision"
  <2>1. Alineas(Record!Paragraphs(t), marks) /\ Chain(Record!Paragraphs(t), 0, n, marks)
    BY <1>1, ParagraphsAre
  <2>2. Record!Canonical(t) = Record!Joined(Record!Paragraphs(t))
    BY <1>2 DEF Record!Canonical
  <2> QED
    BY <2>1, <2>2, JoinedAre
<1>3. CASE member.family # "decision"
  <2>1. Record!Canonical(t) = Record!TrimEnd(t)
    BY <1>3 DEF Record!Canonical
  <2> DEFINE y == Record!TrimEnd(t)
  <2>2. Normal(y) /\ Segment(y, 0, n, marks) /\ (y # <<>> => EndsInLetter(y))
    BY <1>1, TrimmedIs
  <2> QED
    BY <2>1, <2>2 DEF Written
<1> QED
  BY <1>2, <1>3

-----------------------------------------------------------------------------
(* Pieces.                                                                 *)
PieceSet == [text : Record!Texts, boundary : Record!Boundaries]
Held(cuts) == [k \in DOMAIN cuts |-> cuts[k].text]

LEMMA HeldIs ==
  ASSUME NEW s \in Seq(PieceSet)
  PROVE  /\ Held(s) \in Seq(Record!Texts) /\ Len(Held(s)) = Len(s) /\ Len(s) \in Nat
         /\ \A k \in 1..Len(s) : Held(s)[k] = s[k].text /\ s[k] \in PieceSet
<1>1. DOMAIN s = 1..Len(s) /\ Len(s) \in Nat /\ \A k \in 1..Len(s) : s[k] \in PieceSet
  OBVIOUS
<1>2. \A k \in 1..Len(s) : s[k].text \in Record!Texts
  BY <1>1 DEF PieceSet
<1>3. Held(s) = [k \in 1..Len(s) |-> s[k].text]
  BY <1>1 DEF Held
<1>4. Held(s) \in Seq(Record!Texts)
  BY <1>1, <1>2, <1>3, IsASeq
<1> QED
  BY <1>1, <1>3, <1>4

LEMMA HeldConcat ==
  ASSUME NEW a \in Seq(PieceSet), NEW b \in Seq(PieceSet)
  PROVE  a \o b \in Seq(PieceSet) /\ Held(a \o b) = Held(a) \o Held(b)
<1> DEFINE c == a \o b
           n == Len(a)
           m == Len(b)
           x == Held(a)
           y == Held(b)
           z == Held(c)
<1>1. c \in Seq(PieceSet) /\ Len(c) = n + m /\ n \in Nat /\ m \in Nat
      /\ \A k \in 1..(n + m) : c[k] = IF k <= n THEN a[k] ELSE b[k - n]
  BY ConcatProperties
<1> HIDE DEF c
<1>2. /\ x \in Seq(Record!Texts) /\ Len(x) = n /\ \A k \in 1..n : x[k] = a[k].text
      /\ y \in Seq(Record!Texts) /\ Len(y) = m /\ \A k \in 1..m : y[k] = b[k].text
      /\ z \in Seq(Record!Texts) /\ Len(z) = Len(c) /\ \A k \in 1..Len(c) : z[k] = c[k].text
  BY <1>1, HeldIs
<1> HIDE DEF x, y, z, n, m
<1> DEFINE w == x \o y
<1>3. w \in Seq(Record!Texts) /\ Len(w) = n + m
      /\ \A k \in 1..(n + m) : w[k] = IF k <= n THEN x[k] ELSE y[k - n]
  BY <1>1, <1>2, ConcatProperties
<1> HIDE DEF w
<1>4. ASSUME NEW k \in 1..(n + m) PROVE w[k] = z[k]
  <2>1. CASE k <= n
    <3>1. k \in 1..n
      BY <1>1, <2>1
    <3> QED
      BY <1>1, <1>2, <1>3, <2>1, <3>1
  <2>2. CASE ~(k <= n)
    <3>1. k - n \in 1..m
      BY <1>1, <2>2
    <3> QED
      BY <1>1, <1>2, <1>3, <2>2, <3>1
  <2> QED
    BY <2>1, <2>2
<1>5. w = z
  BY <1>1, <1>2, <1>3, <1>4, SeqEqual
<1> QED
  BY <1>1, <1>5 DEF w, z, x, y, c

(* Pieces whose texts are a chain, each of which Fits.                     *)
Pieced(s, lo, hi, marks) == s \in Seq(PieceSet) /\ Chain(Held(s), lo, hi, marks)

LEMMA PiecedConcat ==
  ASSUME NEW marks, NEW a, NEW b, NEW lo, NEW mid, NEW hi,
         Pieced(a, lo, mid, marks), Pieced(b, mid, hi, marks)
  PROVE  Pieced(a \o b, lo, hi, marks)
<1>1. a \in Seq(PieceSet) /\ b \in Seq(PieceSet)
  BY DEF Pieced
<1>2. Held(a) \in Seq(Record!Texts) /\ Held(b) \in Seq(Record!Texts)
  BY <1>1, HeldIs
<1>3. Chain(Held(a) \o Held(b), lo, hi, marks)
  BY <1>2, ChainConcat DEF Pieced
<1> QED
  BY <1>1, <1>3, HeldConcat DEF Pieced

LEMMA PiecedOne ==
  ASSUME NEW marks, NEW x, NEW boundary \in Record!Boundaries, NEW lo \in Nat, NEW hi \in Nat,
         Segment(x, lo, hi, marks)
  PROVE  Pieced(<<Record!Piece(x, boundary)>>, lo, hi, marks)
<1> DEFINE p == Record!Piece(x, boundary)
           s == <<p>>
<1>1. p \in PieceSet /\ p.text = x
  BY DEF PieceSet, Record!Piece, Segment
<1> HIDE DEF p
<1>2. s \in Seq(PieceSet) /\ Len(s) = 1 /\ s[1] = p
  BY <1>1
<1> HIDE DEF s
<1> DEFINE y == <<x>>
<1>3. Held(s) \in Seq(Record!Texts) /\ Len(Held(s)) = 1 /\ Held(s)[1] = x
  BY <1>1, <1>2, HeldIs
<1>4. y \in Seq(Record!Texts) /\ Len(y) = 1 /\ y[1] = x
  BY DEF Segment
<1>5. Held(s) = y
  <2>1. \A k \in 1..1 : Held(s)[k] = y[k]
    BY <1>3, <1>4
  <2> HIDE DEF y
  <2> QED
    BY <1>3, <1>4, <2>1, SeqEqual
<1>6. Chain(y, lo, hi, marks)
  BY ChainOne
<1> QED
  BY <1>2, <1>5, <1>6 DEF Pieced, s, p

LEMMA PiecedNone ==
  ASSUME NEW marks, NEW lo \in Nat
  PROVE  Pieced(<<>>, lo, lo, marks)
<1>1. Held(<<>>) = <<>>
  BY DEF Held
<1> QED
  BY <1>1, ChainNone DEF Pieced

LEMMA PiecedAppend ==
  ASSUME NEW marks, NEW a, NEW x, NEW boundary \in Record!Boundaries,
         NEW lo \in Nat, NEW mid \in Nat, NEW hi \in Nat,
         Pieced(a, lo, mid, marks), Segment(x, mid, hi, marks)
  PROVE  Pieced(Append(a, Record!Piece(x, boundary)), lo, hi, marks)
<1> DEFINE p == Record!Piece(x, boundary)
<1>1. Pieced(<<p>>, mid, hi, marks)
  BY PiecedOne
<1>2. p \in PieceSet
  BY DEF PieceSet, Record!Piece, Segment
<1>3. Append(a, p) = a \o <<p>>
  BY <1>2 DEF Pieced
<1> QED
  BY <1>1, <1>3, PiecedConcat

LEMMA MinOfTwo ==
  ASSUME NEW a \in Int, NEW b \in Int
  PROVE  Record!Min({a, b}) = IF a <= b THEN a ELSE b
<1> DEFINE S == {a, b}
           m == IF a <= b THEN a ELSE b
<1>1. m \in S /\ \A x \in S : m <= x
  OBVIOUS
<1>2. \A y \in S : (\A x \in S : y <= x) => y = m
  OBVIOUS
<1>3. Record!Min(S) = CHOOSE x \in S : \A y \in S : x <= y
  BY DEF Record!Min
<1> HIDE DEF S, m
<1> QED
  BY <1>1, <1>2, <1>3 DEF S, m

(* How many pieces a text is cut into, by the budget.                      *)
LEMMA HowMany ==
  ASSUME NEW len \in Nat \ {0}, NEW max \in Nat \ {0}
  PROVE  LET q == (len + max - 1) \div max
         IN  q \in Nat \ {0} /\ (q - 1) * max < len /\ len <= q * max
  BY Z3

LEMMA Multiples ==
  ASSUME NEW i \in Nat, NEW j \in Nat, i <= j, NEW max \in Nat
  PROVE  i * max <= j * max /\ i * max \in Nat /\ (i - 1) * max = i * max - max
<1>1. i * max \in Nat /\ (j - i) * max \in Nat
  BY Z3
<1>2. (j - i) * max = j * max - i * max /\ (i - 1) * max = i * max - max
  BY Z3
<1>3. j * max \in Int
  BY Z3
<1> QED
  BY <1>1, <1>2, <1>3

(* The bounds of the pieces HardSplit cuts.                                *)
LEMMA HardSplitIs ==
  ASSUME Record!BoundsAssumption, NEW t \in Record!Texts, t # <<>>
  PROVE  \E q \in Nat \ {0} : \E at \in [0..q -> 0..Len(t)] :
           /\ at[0] = 0 /\ at[q] = Len(t)
           /\ \A i \in 1..q : /\ at[i - 1] < at[i] /\ at[i] - at[i - 1] <= MaxChars
                              /\ i < q => at[i] - at[i - 1] = MaxChars
           /\ Len(Record!HardSplit(t)) = q /\ Record!HardSplit(t) \in Seq(PieceSet)
           /\ \A i \in 1..q :
                Record!HardSplit(t)[i] = Record!Piece(SubSeq(t, at[i - 1] + 1, at[i]), "hard_split")
<1> DEFINE len == Len(t)
           max == MaxChars
           q == (len + max - 1) \div max
           H == Record!HardSplit(t)
<1>1. len \in Nat \ {0} /\ max \in Nat /\ max >= 2 /\ t \in Seq(Int)
  BY DEF Record!Texts, Record!BoundsAssumption
<1>2. H = [i \in 1..q |-> Record!Piece(SubSeq(t, (i - 1) * max + 1, Record!Min({i * max, len})), "hard_split")]
  BY DEF Record!HardSplit
<1> HIDE DEF len, max, H
<1>3. q \in Nat \ {0} /\ (q - 1) * max < len /\ len <= q * max
  BY <1>1, HowMany
<1> HIDE DEF q
<1> DEFINE at == [i \in 0..q |-> IF i = q THEN len ELSE i * max]
<1>4. ASSUME NEW i \in 0..(q - 1) PROVE i * max \in Nat /\ i * max < len
  <2>1. i \in Nat /\ q - 1 \in Nat /\ i <= q - 1
    BY <1>3
  <2>2. i * max <= (q - 1) * max /\ i * max \in Nat /\ (q - 1) * max \in Nat
    <3> DEFINE r == q - 1
    <3>1. r \in Nat /\ i \in Nat /\ i <= r /\ r <= r /\ max \in Nat
      BY <1>1, <2>1
    <3> HIDE DEF r
    <3>2. i * max <= r * max /\ i * max \in Nat
      BY <3>1, Multiples
    <3>3. r * max \in Nat
      BY <3>1, Multiples
    <3> QED
      BY <3>2, <3>3 DEF r
  <2> QED
    BY <1>1, <1>3, <2>2
<1>5. at \in [0..q -> 0..len] /\ at[0] = 0 /\ at[q] = len /\ \A i \in 0..(q - 1) : at[i] = i * max
  <2>1. \A i \in 0..q : (IF i = q THEN len ELSE i * max) \in 0..len
    <3> SUFFICES ASSUME NEW i \in 0..q PROVE (IF i = q THEN len ELSE i * max) \in 0..len
      OBVIOUS
    <3>1. CASE i = q
      BY <1>1, <3>1
    <3>2. CASE i # q
      <4>1. i \in 0..(q - 1)
        BY <1>3, <3>2
      <4>2. i * max \in Nat /\ i * max < len
        BY <1>4, <4>1
      <4> QED
        BY <1>1, <3>2, <4>2
    <3> QED
      BY <3>1, <3>2
  <2>2. \A i \in 0..(q - 1) : i \in 0..q /\ i # q
    BY <1>3
  <2>3. 0 \in 0..(q - 1) /\ 0 * max = 0 /\ q \in 0..q
    BY <1>1, <1>3
  <2> QED
    BY <2>1, <2>2, <2>3
<1> HIDE DEF at
<1>6. ASSUME NEW i \in 1..q
      PROVE  /\ at[i - 1] < at[i] /\ at[i] - at[i - 1] <= max
             /\ i < q => at[i] - at[i - 1] = max
             /\ at[i - 1] = (i - 1) * max /\ at[i] = Record!Min({i * max, len})
             /\ at[i - 1] \in Nat /\ at[i] \in 1..len
  <2>1. i \in Nat /\ i - 1 \in 0..(q - 1) /\ i <= q /\ q \in Nat
    BY <1>3
  <2>2. i * max \in Nat /\ (i - 1) * max = i * max - max
    BY <1>1, <2>1, Multiples
  <2>3. at[i - 1] = (i - 1) * max /\ (i - 1) * max < len /\ (i - 1) * max \in Nat
    BY <1>4, <1>5, <2>1
  <2>4. Record!Min({i * max, len}) = IF i * max <= len THEN i * max ELSE len
    BY <1>1, <2>2, MinOfTwo
  <2>5. CASE i = q
    <3>1. at[i] = len /\ len <= i * max
      BY <1>3, <1>5, <2>5
    <3> QED
      BY <1>1, <2>2, <2>3, <2>4, <2>5, <3>1
  <2>6. CASE i # q
    <3>1. i \in 0..(q - 1)
      BY <1>3, <2>6
    <3>2. at[i] = i * max /\ i * max < len
      BY <1>4, <1>5, <3>1
    <3> QED
      BY <1>1, <2>2, <2>3, <2>4, <3>2
  <2> QED
    BY <2>5, <2>6
<1>7. \A i \in 1..q : H[i] = Record!Piece(SubSeq(t, at[i - 1] + 1, at[i]), "hard_split")
  BY <1>2, <1>6
<1>8. ASSUME NEW i \in 1..q PROVE H[i] \in PieceSet
  <2>1. at[i - 1] < at[i] /\ at[i - 1] \in Nat /\ at[i] \in 1..len
    BY <1>6
  <2>2. at[i - 1] + 1 \in 1..(len + 1) /\ at[i] \in 0..len /\ at[i - 1] + 1 <= at[i] + 1
    BY <1>1, <2>1
  <2> DEFINE x == SubSeq(t, at[i - 1] + 1, at[i])
  <2>3. x \in Record!Texts
    BY <2>2, Cutting DEF len
  <2>4. H[i] = Record!Piece(x, "hard_split")
    BY <1>7
  <2> HIDE DEF x
  <2> QED
    BY <2>3, <2>4 DEF PieceSet, Record!Piece, Record!Boundaries
<1>9. H \in Seq(PieceSet) /\ Len(H) = q
  <2>1. \A i \in 1..q : Record!Piece(SubSeq(t, (i - 1) * max + 1, Record!Min({i * max, len})), "hard_split") \in PieceSet
    BY <1>2, <1>8
  <2>2. H \in [1..q -> PieceSet]
    BY <1>2, <2>1
  <2> QED
    BY <1>2, <1>3, <2>2, IsASeq
<1> QED
  BY <1>3, <1>5, <1>6, <1>7, <1>9 DEF len, max, H

HasLetter(t) == \E i \in 1..Len(t) : ~Record!IsBlank(t[i])

FitPiece(p) ==
  p.boundary \in {"paragraph", "hard_split"} /\ Len(p.text) <= MaxChars /\ HasLetter(p.text)

LEMMA HardSplitHolds ==
  ASSUME Record!BoundsAssumption, NEW marks, NEW t, Normal(t), EndsInLetter(t), NEW lo \in Nat,
         NEW hi \in Nat,
         Segment(t, lo, hi, marks)
  PROVE  /\ Pieced(Record!HardSplit(t), lo, hi, marks)
         /\ \A i \in 1..Len(Record!HardSplit(t)) : FitPiece(Record!HardSplit(t)[i])
<1> DEFINE H == Record!HardSplit(t)
<1>1. t \in Record!Texts /\ t # <<>> /\ Len(t) \in Nat \ {0} /\ Covers(t, lo, hi)
      /\ MaxChars \in Nat /\ MaxChars >= 2
  BY DEF Segment, EndsInLetter, Record!Texts, Record!BoundsAssumption
<1>0. PICK q \in Nat \ {0} : \E at \in [0..q -> 0..Len(t)] :
           /\ at[0] = 0 /\ at[q] = Len(t)
           /\ \A i \in 1..q : /\ at[i - 1] < at[i] /\ at[i] - at[i - 1] <= MaxChars
                              /\ i < q => at[i] - at[i - 1] = MaxChars
           /\ Len(H) = q /\ H \in Seq(PieceSet)
           /\ \A i \in 1..q : H[i] = Record!Piece(SubSeq(t, at[i - 1] + 1, at[i]), "hard_split")
  BY <1>1, HardSplitIs
<1>2. PICK at \in [0..q -> 0..Len(t)] :
           /\ at[0] = 0 /\ at[q] = Len(t)
           /\ \A i \in 1..q : /\ at[i - 1] < at[i] /\ at[i] - at[i - 1] <= MaxChars
                              /\ i < q => at[i] - at[i - 1] = MaxChars
           /\ Len(H) = q /\ H \in Seq(PieceSet)
           /\ \A i \in 1..q : H[i] = Record!Piece(SubSeq(t, at[i - 1] + 1, at[i]), "hard_split")
  BY <1>0
<1> HIDE DEF H
<1> DEFINE Read(i, h) == h \in lo..hi /\ Upto(t, at[i], h)
           cut == [i \in 0..q |-> IF i = 0 THEN lo ELSE IF i = q THEN hi ELSE CHOOSE h \in lo..hi : Read(i, h)]
<1>3. \A i \in 1..Len(t) : Record!IsBlank(t[i]) \/ (t[i] > lo /\ t[i] <= hi)
  BY <1>1 DEF Covers
<1>4. lo \in lo..hi /\ hi \in lo..hi
  BY <1>1 DEF Covers
<1>5. Read(0, lo) /\ Read(q, hi)
  <2>1. at[0] = 0 /\ at[q] = Len(t)
    BY <1>2
  <2>2. \A i \in (0 + 1)..Len(t) : i \in 1..Len(t)
    OBVIOUS
  <2>3. Upto(t, 0, lo)
    BY <1>3, <2>2 DEF Upto
  <2>4. Upto(t, Len(t), hi)
    <3>1. (Len(t) + 1)..Len(t) = {}
      BY <1>1
    <3> QED
      BY <1>3, <3>1 DEF Upto
  <2> QED
    BY <1>4, <2>1, <2>3, <2>4
<1>6. ASSUME NEW i \in 0..q PROVE Read(i, cut[i])
  <2>1. CASE i = 0
    BY <1>5, <2>1
  <2>2. CASE i # 0 /\ i = q
    BY <1>5, <2>2
  <2>3. CASE i # 0 /\ i # q
    <3>1. at[i] \in 0..Len(t)
      BY <1>2
    <3>2. \E h \in lo..hi : Upto(t, at[i], h)
      BY <1>1, <3>1, UptoExists
    <3>3. \E h \in lo..hi : Read(i, h)
      BY <3>2
    <3>4. cut[i] = CHOOSE h \in lo..hi : Read(i, h)
      BY <2>3
    <3> HIDE DEF Read, cut
    <3> QED
      BY <3>3, <3>4
  <2> QED
    BY <2>1, <2>2, <2>3
<1>7. cut[0] = lo /\ cut[q] = hi
  BY <1>2
<1> HIDE DEF cut
<1>8. DOMAIN cut = 0..q /\ cut = [i \in 0..q |-> cut[i]]
  BY DEF cut
<1>9. cut \in [0..q -> Nat]
  <2>1. \A i \in 0..q : cut[i] \in Nat
    BY <1>6
  <2> QED
    BY <1>8, <2>1
<1>10. ASSUME NEW a \in 0..Len(t), NEW b \in 0..Len(t), a <= b,
              NEW g \in lo..hi, NEW h \in lo..hi, Upto(t, a, g), Upto(t, b, h)
       PROVE  LET x == SubSeq(t, a + 1, b)
              IN  Segment(x, g, h, marks) /\ Len(x) = b - a /\ \A j \in 1..(b - a) : x[j] = t[a + j]
  <2> DEFINE x == SubSeq(t, a + 1, b)
  <2>1. Segment(x, g, h, marks)
    BY <1>10, SegmentOf
  <2>2. Len(x) = b - a
    BY <1>10, SegmentOf
  <2>3. \A j \in 1..(b - a) : x[j] = t[a + j]
    BY <1>10, SegmentOf
  <2> QED
    BY <2>1, <2>2, <2>3
<1>11. ASSUME NEW i \in 1..q
       PROVE  /\ H[i].text = SubSeq(t, at[i - 1] + 1, at[i]) /\ H[i].boundary = "hard_split"
              /\ Segment(H[i].text, cut[i - 1], cut[i], marks)
              /\ Len(H[i].text) = at[i] - at[i - 1]
              /\ \A j \in 1..(at[i] - at[i - 1]) : H[i].text[j] = t[at[i - 1] + j]
  <2> DEFINE a == at[i - 1]
             b == at[i]
             g == cut[i - 1]
             h == cut[i]
  <2>1. i \in 0..q /\ i - 1 \in 0..q
    BY <1>2
  <2>2. g \in lo..hi /\ Upto(t, a, g) /\ h \in lo..hi /\ Upto(t, b, h)
    BY <1>6, <2>1
  <2>3. a \in 0..Len(t) /\ b \in 0..Len(t) /\ a <= b
    <3>1. a \in 0..Len(t) /\ b \in 0..Len(t) /\ a < b
      BY <1>2, <2>1
    <3> HIDE DEF a, b
    <3> QED
      BY <1>1, <3>1
  <2> DEFINE x == SubSeq(t, a + 1, b)
  <2>4. H[i] = Record!Piece(x, "hard_split")
    BY <1>2
  <2> HIDE DEF a, b, g, h
  <2>5. Segment(x, g, h, marks) /\ Len(x) = b - a /\ \A j \in 1..(b - a) : x[j] = t[a + j]
    BY <1>10, <2>2, <2>3
  <2> HIDE DEF x
  <2>6. H[i].text = x /\ H[i].boundary = "hard_split"
    BY <2>4 DEF Record!Piece
  <2>7. x = SubSeq(t, a + 1, b)
    BY DEF x
  <2> QED
    BY <2>5, <2>6, <2>7 DEF a, b, g, h
<1>12. Pieced(H, lo, hi, marks)
  <2> DEFINE s == Held(H)
  <2>1. Len(s) = q /\ \A k \in 1..q : s[k] = H[k].text
    BY <1>2, HeldIs
  <2> HIDE DEF s
  <2>2. \A k \in 1..q : Segment(s[k], cut[k - 1], cut[k], marks)
    BY <1>11, <2>1
  <2>3. Chain(s, lo, hi, marks)
    BY <1>7, <1>9, <2>1, <2>2 DEF Chain
  <2> QED
    BY <1>2, <2>3 DEF Pieced, s
<1>13. ASSUME NEW i \in 1..q PROVE FitPiece(H[i])
  <2> DEFINE a == at[i - 1]
             b == at[i]
             x == H[i].text
  <2>1. i \in 0..q /\ i - 1 \in 0..q /\ i <= q
    BY <1>2
  <2>2. a \in 0..Len(t) /\ b \in 0..Len(t) /\ a < b /\ b - a <= MaxChars /\ (i < q => b - a = MaxChars)
        /\ (i = q => b = Len(t))
    BY <1>2, <2>1
  <2>3. Len(x) = b - a /\ (\A j \in 1..(b - a) : x[j] = t[a + j]) /\ H[i].boundary = "hard_split"
    BY <1>11
  <2> HIDE DEF a, b, x
  <2>4. a \in Nat /\ b \in Nat /\ b <= Len(t)
    BY <1>1, <2>2
  <2>5. HasLetter(x)
    <3>1. CASE i = q
      <4>1. b - a \in 1..(b - a) /\ a + (b - a) = Len(t)
        BY <2>2, <2>4, <3>1
      <4>2. x[b - a] = t[Len(t)]
        BY <2>3, <4>1
      <4> QED
        BY <2>3, <4>1, <4>2 DEF HasLetter, EndsInLetter
    <3>2. CASE i < q
      <4>1. b - a >= 2
        BY <1>1, <2>2, <3>2
      <4>2. 1 \in 1..(b - a) /\ 2 \in 1..(b - a) /\ a + 2 \in 2..Len(t) /\ a + 2 - 1 = a + 1
        BY <2>2, <2>4, <4>1
      <4>3. x[1] = t[a + 1] /\ x[2] = t[a + 2]
        BY <2>3, <4>2
      <4>4. Record!IsBlank(t[a + 1]) => ~Record!IsBlank(t[a + 2])
        BY <1>1, <2>4, <4>2 DEF Normal
      <4> QED
        BY <2>3, <4>2, <4>3, <4>4 DEF HasLetter
    <3> QED
      BY <2>1, <3>1, <3>2
  <2>6. Len(x) <= MaxChars
    BY <2>2, <2>3
  <2> QED
    BY <2>3, <2>5, <2>6 DEF FitPiece, x
<1> QED
  BY <1>2, <1>12, <1>13 DEF H

(* Packed, step by step.                                                   *)
Packs(s, hi, marks) ==
  /\ s \in Record!Packing
  /\ \E lo \in Nat : Pieced(s.pieces, 0, lo, marks) /\ Segment(s.current, lo, hi, marks)
  /\ \A i \in 1..Len(s.pieces) : FitPiece(s.pieces[i])
  /\ Normal(s.current) /\ Len(s.current) <= MaxChars
  /\ s.current # <<>> => EndsInLetter(s.current)

LEMMA PackingIs ==
  Record!Packing = [pieces : Seq(PieceSet), current : Record!Texts]
  BY DEF Record!Packing, PieceSet

LEMMA FitAll ==
  ASSUME NEW a \in Seq(PieceSet), NEW b \in Seq(PieceSet),
         \A i \in 1..Len(a) : FitPiece(a[i]), \A i \in 1..Len(b) : FitPiece(b[i])
  PROVE  \A i \in 1..Len(a \o b) : FitPiece((a \o b)[i])
<1> DEFINE c == a \o b
           n == Len(a)
           m == Len(b)
<1>1. Len(c) = n + m /\ n \in Nat /\ m \in Nat
      /\ \A k \in 1..(n + m) : c[k] = IF k <= n THEN a[k] ELSE b[k - n]
  BY ConcatProperties
<1>2. (\A i \in 1..n : FitPiece(a[i])) /\ \A i \in 1..m : FitPiece(b[i])
  OBVIOUS
<1> HIDE DEF c, n, m
<1>3. ASSUME NEW k \in 1..(n + m) PROVE FitPiece(c[k])
  <2>1. CASE k <= n
    BY <1>1, <1>2, <2>1
  <2>2. CASE ~(k <= n)
    <3>1. k - n \in 1..m
      BY <1>1, <2>2
    <3> QED
      BY <1>1, <1>2, <2>2, <3>1
  <2> QED
    BY <2>1, <2>2
<1> QED
  BY <1>1, <1>3 DEF c

LEMMA FlushedPacks ==
  ASSUME Record!BoundsAssumption, NEW marks, NEW s, NEW hi \in Nat, Packs(s, hi, marks)
  PROVE  Packs(Record!Flushed(s), hi, marks) /\ Record!Flushed(s).current = <<>>
         /\ Pieced(Record!Flushed(s).pieces, 0, hi, marks)
<1> DEFINE p == Record!Piece(s.current, "paragraph")
           r == Record!Flushed(s)
<1>1. s.pieces \in Seq(PieceSet) /\ s.current \in Record!Texts /\ Normal(s.current)
  BY PackingIs DEF Packs
<1>2. PICK lo \in Nat : Pieced(s.pieces, 0, lo, marks) /\ Segment(s.current, lo, hi, marks)
  BY DEF Packs
<1>3. <<>> \in Record!Texts /\ Normal(<<>>) /\ Segment(<<>>, hi, hi, marks) /\ Len(<<>>) = 0
      /\ MaxChars \in Nat
  BY EmptyCovers DEF Record!BoundsAssumption
<1>4. CASE s.current = <<>>
  <2>1. r = s
    BY <1>4 DEF Record!Flushed
  <2>2. lo = hi
    BY <1>2, <1>4, EmptySegment
  <2> QED
    BY <1>2, <1>4, <2>1, <2>2
<1>5. CASE s.current # <<>>
  <2>1. r = [pieces |-> Append(s.pieces, p), current |-> <<>>]
    BY <1>5 DEF Record!Flushed
  <2>2. p \in PieceSet
    BY <1>1 DEF p, Record!Piece, PieceSet, Record!Boundaries
  <2>3. FitPiece(p)
    <3>1. EndsInLetter(s.current) /\ Len(s.current) \in 1..Len(s.current) /\ Len(s.current) <= MaxChars
      BY <1>1, <1>5 DEF Packs, Record!Texts
    <3> QED
      BY <3>1 DEF FitPiece, Record!Piece, HasLetter, EndsInLetter
  <2>4. Pieced(Append(s.pieces, p), 0, hi, marks)
    BY <1>2, PiecedAppend DEF Record!Boundaries
  <2> DEFINE o == <<p>>
  <2>5. o \in Seq(PieceSet) /\ Append(s.pieces, p) = s.pieces \o o
        /\ \A i \in 1..Len(o) : FitPiece(o[i])
    BY <1>1, <2>2, <2>3
  <2> HIDE DEF o, p
  <2>6. Append(s.pieces, p) \in Seq(PieceSet)
    BY <1>1, <2>2
  <2>7. \A i \in 1..Len(Append(s.pieces, p)) : FitPiece(Append(s.pieces, p)[i])
    <3>1. \A i \in 1..Len(s.pieces) : FitPiece(s.pieces[i])
      BY DEF Packs
    <3>2. \A i \in 1..Len(s.pieces \o o) : FitPiece((s.pieces \o o)[i])
      BY <1>1, <2>5, <3>1, FitAll
    <3> QED
      BY <2>5, <3>2
  <2>8. r.pieces = Append(s.pieces, p) /\ r.current = <<>> /\ r \in Record!Packing
    BY <1>3, <2>1, <2>6, PackingIs
  <2> HIDE DEF r
  <2> QED
    BY <1>3, <2>4, <2>7, <2>8 DEF Packs, r
<1> QED
  BY <1>4, <1>5

LEMMA FlushedType ==
  ASSUME NEW s \in Record!Packing
  PROVE  Record!Flushed(s) \in Record!Packing
<1> DEFINE p == Record!Piece(s.current, "paragraph")
<1>1. s.pieces \in Seq(PieceSet) /\ s.current \in Record!Texts
  BY PackingIs
<1>2. p \in PieceSet /\ <<>> \in Record!Texts
  BY <1>1 DEF Record!Piece, PieceSet, Record!Boundaries, Record!Texts
<1> HIDE DEF p
<1>3. Append(s.pieces, p) \in Seq(PieceSet)
  BY <1>1, <1>2
<1>4. [pieces |-> Append(s.pieces, p), current |-> <<>>] \in Record!Packing
  BY <1>2, <1>3, PackingIs
<1> QED
  BY <1>4 DEF Record!Flushed, p

LEMMA PackedType ==
  ASSUME Record!BoundsAssumption, NEW s \in Record!Packing, NEW x \in Record!Texts
  PROVE  Record!Packed(s, x) \in Record!Packing
<1> DEFINE room == IF Len(Record!Joined(<<s.current, x>>)) > MaxChars THEN Record!Flushed(s) ELSE s
           f == Record!Flushed(s)
           H == Record!HardSplit(x)
<1>1. f \in Record!Packing /\ room \in Record!Packing
  BY FlushedType
<1>2. Record!Packed(s, x) = IF Len(x) > MaxChars THEN [f EXCEPT !.pieces = @ \o H]
                     ELSE [room EXCEPT !.current = Record!Joined(<<@, x>>)]
  BY DEF Record!Packed
<1> HIDE DEF room, f, H
<1>3. f.pieces \in Seq(PieceSet) /\ f.current \in Record!Texts /\ room.pieces \in Seq(PieceSet)
      /\ room.current \in Record!Texts
      /\ f = [pieces |-> f.pieces, current |-> f.current]
      /\ room = [pieces |-> room.pieces, current |-> room.current]
  BY <1>1, PackingIs
<1>4. Record!Joined(<<room.current, x>>) \in Record!Texts
  BY <1>3, JoinedTwo, GluedType
<1>5. CASE Len(x) > MaxChars
  <2>1. x # <<>>
    <3>1. MaxChars \in Nat /\ Len(<<>>) = 0
      BY DEF Record!BoundsAssumption
    <3> QED
      BY <1>5, <3>1
  <2>2. H \in Seq(PieceSet)
    BY <2>1, HardSplitIs DEF H
  <2>3. f.pieces \o H \in Seq(PieceSet)
    BY <1>3, <2>2, ConcatProperties
  <2>4. Record!Packed(s, x) = [pieces |-> f.pieces \o H, current |-> f.current]
    BY <1>2, <1>3, <1>5
  <2> QED
    BY <1>3, <2>3, <2>4, PackingIs
<1>6. CASE ~(Len(x) > MaxChars)
  <2>1. Record!Packed(s, x) = [pieces |-> room.pieces, current |-> Record!Joined(<<room.current, x>>)]
    BY <1>2, <1>3, <1>6
  <2> QED
    BY <1>3, <1>4, <2>1, PackingIs
<1> QED
  BY <1>5, <1>6

LEMMA PackedPacks ==
  ASSUME Record!BoundsAssumption, NEW marks, NEW s, NEW mid \in Nat, Packs(s, mid, marks),
         NEW x, NEW hi \in Nat, Normal(x), Segment(x, mid, hi, marks), EndsInLetter(x),
         s.current # <<>> => SetApart(x, marks)
  PROVE  Packs(Record!Packed(s, x), hi, marks)
<1> DEFINE joined == Record!Joined(<<s.current, x>>)
           f == Record!Flushed(s)
           H == Record!HardSplit(x)
           r == Record!Packed(s, x)
<1>1. s \in Record!Packing /\ s.pieces \in Seq(PieceSet) /\ s.current \in Record!Texts
      /\ Normal(s.current) /\ x \in Record!Texts
  BY PackingIs DEF Packs, Segment
<1>2. MaxChars \in Nat /\ Len(x) \in Nat /\ Len(joined) \in Nat
  <2>1. joined \in Record!Texts
    BY <1>1, JoinedTwo, GluedType
  <2> QED
    BY <1>1, <2>1 DEF Record!BoundsAssumption, Record!Texts
<1>3. Packs(f, mid, marks) /\ f.current = <<>> /\ Pieced(f.pieces, 0, mid, marks)
  BY FlushedPacks
<1>4. f \in Record!Packing /\ f.pieces \in Seq(PieceSet)
      /\ f = [pieces |-> f.pieces, current |-> f.current]
      /\ \A i \in 1..Len(f.pieces) : FitPiece(f.pieces[i])
  BY <1>3, PackingIs DEF Packs
<1>5. r \in Record!Packing
  BY <1>1, PackedType
<1>6. <<>> \in Record!Texts /\ Normal(<<>>) /\ Segment(<<>>, hi, hi, marks) /\ Len(<<>>) = 0
  BY EmptyCovers
<1>7. CASE Len(x) > MaxChars
  <2>1. r = [f EXCEPT !.pieces = @ \o H]
    BY <1>7 DEF Record!Packed
  <2>2. Pieced(H, mid, hi, marks) /\ \A i \in 1..Len(H) : FitPiece(H[i])
    BY HardSplitHolds
  <2> HIDE DEF H, f, r
  <2>3. r.pieces = f.pieces \o H /\ r.current = <<>>
    BY <1>3, <1>4, <2>1
  <2>4. Pieced(f.pieces \o H, 0, hi, marks)
    BY <1>3, <2>2, PiecedConcat
  <2>5. H \in Seq(PieceSet)
    BY <2>2 DEF Pieced
  <2>6. \A i \in 1..Len(f.pieces \o H) : FitPiece((f.pieces \o H)[i])
    BY <1>4, <2>2, <2>5, FitAll
  <2>7. \E lo \in Nat : Pieced(r.pieces, 0, lo, marks) /\ Segment(r.current, lo, hi, marks)
    BY <1>6, <2>3, <2>4
  <2>8. Packs(r, hi, marks)
    BY <1>2, <1>5, <1>6, <2>3, <2>6, <2>7 DEF Packs
  <2> QED
    BY <2>8 DEF r
<1>8. CASE ~(Len(x) > MaxChars) /\ (Len(joined) > MaxChars \/ s.current = <<>>)
  <2> DEFINE base == IF Len(joined) > MaxChars THEN f ELSE s
  <2>1. r = [base EXCEPT !.current = Record!Joined(<<@, x>>)]
    BY <1>8 DEF Record!Packed
  <2>2. base.current = <<>> /\ Pieced(base.pieces, 0, mid, marks) /\ base \in Record!Packing
        /\ \A i \in 1..Len(base.pieces) : FitPiece(base.pieces[i])
    <3>1. CASE Len(joined) > MaxChars
      BY <1>3, <1>4, <3>1
    <3>2. CASE ~(Len(joined) > MaxChars)
      <4>1. s.current = <<>> /\ base = s
        BY <1>8, <3>2
      <4>2. PICK lo \in Nat : Pieced(s.pieces, 0, lo, marks) /\ Segment(s.current, lo, mid, marks)
        BY DEF Packs
      <4>3. lo = mid
        BY <4>1, <4>2, EmptySegment
      <4> QED
        BY <1>1, <4>1, <4>2, <4>3 DEF Packs
    <3> QED
      BY <3>1, <3>2
  <2> HIDE DEF base, r, joined, f, H
  <2>3. Record!Joined(<<base.current, x>>) = x
    BY <1>1, <1>6, <2>2, JoinedTwo DEF Glued
  <2>4. r.pieces = base.pieces /\ r.current = x
    <3>1. base = [pieces |-> base.pieces, current |-> base.current]
      BY <2>2, PackingIs
    <3> QED
      BY <2>1, <2>3, <3>1
  <2>5. \E lo \in Nat : Pieced(r.pieces, 0, lo, marks) /\ Segment(r.current, lo, hi, marks)
    BY <2>2, <2>4
  <2>6. Len(x) <= MaxChars
    BY <1>2, <1>8
  <2>7. Packs(r, hi, marks)
    BY <1>5, <2>2, <2>4, <2>5, <2>6 DEF Packs
  <2> QED
    BY <2>7 DEF r
<1>9. CASE ~(Len(x) > MaxChars) /\ ~(Len(joined) > MaxChars) /\ s.current # <<>>
  <2>1. r = [s EXCEPT !.current = joined]
    BY <1>9 DEF Record!Packed
  <2>2. joined = Glued(s.current, x)
    BY <1>1, JoinedTwo
  <2>3. PICK lo \in Nat : Pieced(s.pieces, 0, lo, marks) /\ Segment(s.current, lo, mid, marks)
    BY DEF Packs
  <2>4. EndsInLetter(s.current) /\ SetApart(x, marks)
    BY <1>9 DEF Packs
  <2> HIDE DEF joined, r, f, H
  <2>5. Normal(joined) /\ Segment(joined, lo, hi, marks) /\ EndsInLetter(joined)
    <3> DEFINE c == s.current
    <3>1. Normal(c) /\ Segment(c, lo, mid, marks) /\ EndsInLetter(c)
      BY <1>1, <2>3, <2>4
    <3> HIDE DEF c
    <3>2. /\ Normal(Glued(c, x)) /\ Segment(Glued(c, x), lo, hi, marks) /\ EndsInLetter(Glued(c, x))
      BY <2>4, <3>1, GluedIs
    <3> QED
      BY <2>2, <3>2 DEF c
  <2>6. r.pieces = s.pieces /\ r.current = joined
    <3>1. s = [pieces |-> s.pieces, current |-> s.current]
      BY <1>1, PackingIs
    <3> QED
      BY <2>1, <3>1
  <2>7. \E l \in Nat : Pieced(r.pieces, 0, l, marks) /\ Segment(r.current, l, hi, marks)
    BY <2>3, <2>5, <2>6
  <2>8. Len(joined) <= MaxChars /\ \A i \in 1..Len(s.pieces) : FitPiece(s.pieces[i])
    BY <1>2, <1>9 DEF Packs
  <2>9. Packs(r, hi, marks)
    BY <1>5, <2>5, <2>6, <2>7, <2>8 DEF Packs
  <2> QED
    BY <2>9 DEF r
<1> QED
  BY <1>7, <1>8, <1>9

(* The pieces of a decision's body.                                        *)
LEMMA SplitBodyIs ==
  ASSUME Record!BoundsAssumption, NEW marks, NEW n \in Nat, NEW t, Written(t, n, marks)
  PROVE  Pieced(Record!SplitBody(t), 0, n, marks)
         /\ \A i \in 1..Len(Record!SplitBody(t)) : FitPiece(Record!SplitBody(t)[i])
<1> DEFINE ps == Record!Paragraphs(t)
           q == Len(ps)
           step == [p \in Record!Packing \X Record!Texts |-> Record!Packed(p[1], p[2])]
           packed == Record!Folded(step, Record!Unpacked, ps)
<1>1. Record!SplitBody(t) = Record!Flushed(packed).pieces
  BY DEF Record!SplitBody
<1>2. Normal(t) /\ Covers(t, 0, n) /\ Spaced(t, marks)
  BY DEF Written, Segment
<1>3. Alineas(ps, marks) /\ Chain(ps, 0, n, marks)
  BY <1>2, ParagraphsAre
<1> HIDE DEF ps
<1>4. ps \in Seq(Record!Texts) /\ q \in Nat
  BY <1>3 DEF Alineas
<1>5. PICK cut \in [0..q -> Nat] :
        cut[0] = 0 /\ cut[q] = n /\ \A k \in 1..q : Segment(ps[k], cut[k - 1], cut[k], marks)
  BY <1>3 DEF Chain
<1> DEFINE Good(k, s) == Packs(s, cut[k], marks) /\ (k = 0 => s.current = <<>>)
           RecordInv == {p \in (0..q) \X Record!Packing : Good(p[1], p[2])}
<1>6. Record!Unpacked \in Record!Packing /\ Good(0, Record!Unpacked)
  <2>1. <<>> \in Record!Texts /\ Normal(<<>>) /\ Segment(<<>>, 0, 0, marks) /\ Len(<<>>) = 0
        /\ MaxChars \in Nat
        /\ 1..0 = {} /\ <<>> \in Seq(PieceSet)
    BY EmptyCovers DEF Record!BoundsAssumption
  <2>2. Pieced(<<>>, 0, 0, marks)
    BY PiecedNone
  <2>3. Record!Unpacked \in Record!Packing /\ Record!Unpacked.current = <<>>
        /\ Record!Unpacked.pieces = <<>>
    BY <2>1, PackingIs DEF Record!Unpacked
  <2>4. Packs(Record!Unpacked, 0, marks)
    <3>1. \E lo \in Nat : Pieced(Record!Unpacked.pieces, 0, lo, marks) /\ Segment(Record!Unpacked.current, lo, 0, marks)
      BY <2>1, <2>2, <2>3
    <3>2. \A i \in 1..Len(Record!Unpacked.pieces) : FitPiece(Record!Unpacked.pieces[i])
      BY <2>1, <2>3
    <3> QED
      BY <2>1, <2>3, <3>1, <3>2 DEF Packs
  <2> QED
    BY <1>5, <2>3, <2>4
<1>7. ASSUME NEW k \in 1..q, NEW s \in Record!Packing, Good(k - 1, s)
      PROVE  Good(k, Record!Packed(s, ps[k]))
  <2> DEFINE x == ps[k]
             a == cut[k - 1]
             b == cut[k]
  <2>1. a \in Nat /\ b \in Nat /\ k # 0
    BY <1>4, <1>5
  <2>2. Segment(x, a, b, marks) /\ Normal(x) /\ EndsInLetter(x)
    BY <1>3, <1>5 DEF Alineas
  <2>3. s.current # <<>> => SetApart(x, marks)
    <3> SUFFICES ASSUME s.current # <<>> PROVE SetApart(x, marks)
      OBVIOUS
    <3>1. k \in 2..q
      BY <1>4, <1>7
    <3> QED
      BY <1>3, <3>1 DEF Alineas
  <2>4. Packs(s, a, marks)
    BY <1>7
  <2> HIDE DEF x, a, b
  <2>5. Packs(Record!Packed(s, x), b, marks)
    BY <2>1, <2>2, <2>3, <2>4, PackedPacks
  <2> QED
    BY <2>1, <2>5 DEF x, b
<1>8. \A s \in Record!Packing : \A x \in Record!Texts : step[<<s, x>>] = Record!Packed(s, x) /\ Record!Packed(s, x) \in Record!Packing
  BY PackedType
<1>9. step \in [Record!Packing \X Record!Texts -> Record!Packing]
  BY <1>8
<1> HIDE DEF step, Good
<1>10. <<0, Record!Unpacked>> \in RecordInv
  BY <1>4, <1>6
<1>11. ASSUME NEW k \in 1..q, NEW s \in Record!Packing, <<k - 1, s>> \in RecordInv
       PROVE  <<k, step[<<s, ps[k]>>]>> \in RecordInv
  <2>1. ps[k] \in Record!Texts /\ k \in 0..q /\ Good(k - 1, s)
    BY <1>4, <1>11
  <2> QED
    BY <1>7, <1>8, <2>1
<1> HIDE DEF RecordInv
<1>12. <<q, packed>> \in RecordInv
  BY <1>4, <1>6, <1>9, <1>10, <1>11, FoldHolds
<1>13. Packs(packed, n, marks)
  BY <1>5, <1>12 DEF RecordInv, Good
<1> HIDE DEF packed
<1>14. Packs(Record!Flushed(packed), n, marks) /\ Pieced(Record!Flushed(packed).pieces, 0, n, marks)
  BY <1>13, FlushedPacks
<1>15. \A i \in 1..Len(Record!Flushed(packed).pieces) : FitPiece(Record!Flushed(packed).pieces[i])
  BY <1>14 DEF Packs
<1> QED
  BY <1>1, <1>14, <1>15

-----------------------------------------------------------------------------
(* Two texts with the same letters, spaced alike, are as long as each      *)
(* other.                                                                  *)
LEMMA ShapeClash ==
  ASSUME NEW marks, NEW n \in Nat, NEW t, Written(t, n, marks), NEW u, Written(u, n, marks),
         NEW h \in 0..n, NEW i \in Nat, i \in 1..Len(t), i \in 1..Len(u),
         Upto(t, i - 1, h), Upto(u, i - 1, h), Record!IsBlank(t[i]), ~Record!IsBlank(u[i]),
         i > 1 => (Record!IsBlank(t[i - 1]) <=> Record!IsBlank(u[i - 1]))
  PROVE  FALSE
<1>1. /\ t \in Record!Texts /\ Len(t) \in Nat /\ Normal(t) /\ Covers(t, 0, n) /\ Spaced(t, marks)
      /\ u \in Record!Texts /\ Len(u) \in Nat /\ Covers(u, 0, n) /\ Spaced(u, marks)
  BY DEF Written, Segment, Record!Texts
<1>2. t # <<>> /\ ~Record!IsBlank(t[1]) /\ ~Record!IsBlank(t[Len(t)])
  <2>1. t # <<>>
    BY <1>1
  <2> QED
    BY <1>1, <2>1 DEF Written, EndsInLetter, Normal
<1>3. i \in 2..Len(t) /\ i \in 2..Len(u) /\ i + 1 \in 2..Len(t) /\ i + 1 \in 1..Len(t) /\ i > 1
  <2>1. i # 1 /\ i # Len(t)
    BY <1>2
  <2> QED
    BY <1>1, <2>1
<1> DEFINE m == i - 1
<1>4. m \in Nat /\ m + 1 = i /\ i + 1 - 1 = i
  BY <1>3
<1> HIDE DEF m
<1>5. Upto(t, m, h) /\ Upto(u, m, h)
  BY DEF m
<1>6. u[i] = h + 1
  BY <1>1, <1>4, <1>5, NextLetter
<1>7. Upto(t, i, h)
  BY <1>1, <1>4, <1>5, NextLetter
<1>8. ~Record!IsBlank(t[i - 1]) /\ ~Record!IsBlank(t[i + 1])
  <2>1. ~Record!IsBlank(t[i - 1])
    BY <1>1, <1>3 DEF Normal
  <2>2. ~Record!IsBlank(t[i + 1])
    BY <1>1, <1>3, <1>4 DEF Normal
  <2> QED
    BY <2>1, <2>2
<1>9. t[i + 1] = h + 1
  BY <1>1, <1>3, <1>7, <1>8, NextLetter
<1>10. marks[t[i + 1]].apart
  BY <1>1, <1>3, <1>4, <1>8 DEF Spaced
<1>11. ~marks[u[i]].apart
  BY <1>1, <1>3, <1>8 DEF Spaced
<1> QED
  BY <1>6, <1>9, <1>10, <1>11

LEMMA ShapeWithin ==
  ASSUME NEW marks, NEW n \in Nat, NEW t, Written(t, n, marks), NEW u, Written(u, n, marks)
  PROVE  Len(t) <= Len(u)
<1> DEFINE Match(i) == i <= Len(u)
    /\ (IF Record!IsBlank(t[i]) THEN Record!IsBlank(u[i]) ELSE t[i] = u[i])
           S == {i \in 1..Len(t) : ~Match(i)}
<1>1. /\ t \in Record!Texts /\ Len(t) \in Nat /\ Normal(t) /\ Covers(t, 0, n) /\ Spaced(t, marks)
      /\ u \in Record!Texts /\ Len(u) \in Nat /\ Covers(u, 0, n) /\ Spaced(u, marks)
  BY DEF Written, Segment, Record!Texts
<1>2. CASE S = {}
  <2>1. CASE t = <<>>
    BY <1>1, <2>1
  <2>2. CASE t # <<>>
    <3>1. Len(t) \in 1..Len(t)
      BY <1>1, <2>2
    <3>2. Match(Len(t))
      BY <1>2, <3>1
    <3> QED
      BY <3>2
  <2> QED
    BY <2>1, <2>2
<1>3. CASE S # {}
  <2>1. S \in SUBSET Nat
    OBVIOUS
  <2>2. PICK i \in S : \A j \in S : i <= j
    <3> HIDE DEF S
    <3> QED
      BY <1>3, <2>1, LeastExists
  <2>3. i \in 1..Len(t) /\ ~Match(i) /\ i \in Nat
    OBVIOUS
  <2>4. \A j \in 1..(i - 1) : Match(j) /\ j \in 1..Len(t)
    <3> SUFFICES ASSUME NEW j \in 1..(i - 1) PROVE Match(j) /\ j \in 1..Len(t)
      OBVIOUS
    <3>1. j \in 1..Len(t) /\ ~(i <= j)
      BY <1>1, <2>3
    <3>2. j \notin S
      BY <2>2, <3>1
    <3> QED
      BY <3>1, <3>2
  <2> HIDE DEF S
  <2>5. i - 1 \in 0..Len(t) /\ i - 1 \in Nat
    BY <1>1, <2>3
  <2>6. PICK h \in 0..n : Upto(t, i - 1, h)
    BY <1>1, <2>5, UptoExists
  <2>7. i - 1 <= Len(u)
    <3>1. CASE i = 1
      BY <1>1, <3>1
    <3>2. CASE i # 1
      <4>1. i - 1 \in 1..(i - 1)
        BY <2>3, <3>2
      <4> QED
        BY <2>4, <4>1
    <3> QED
      BY <3>1, <3>2
  <2>8. /\ \A j \in 1..Len(t) : Record!IsBlank(t[j]) \/ t[j] \in 1..n
        /\ \A j \in 1..Len(u) : Record!IsBlank(u[j]) \/ u[j] \in 1..n
        /\ \A k \in 1..n : \E j \in 1..Len(t) : t[j] = k
        /\ \A j, k \in 1..Len(u) : j < k /\ ~Record!IsBlank(u[j]) /\ ~Record!IsBlank(u[k]) => u[j] < u[k]
    BY <1>1 DEF Covers
  <2>9. /\ \A j \in 1..(i - 1) : Record!IsBlank(t[j]) \/ t[j] <= h
        /\ \A j \in ((i - 1) + 1)..Len(t) : Record!IsBlank(t[j]) \/ t[j] > h
    BY <2>6 DEF Upto
  <2>10. (i - 1) + 1 = i
    BY <2>3
  <2>11. Upto(u, i - 1, h)
    <3>1. \A j \in 1..(i - 1) : Record!IsBlank(u[j]) \/ u[j] <= h
      BY <2>4, <2>9
    <3>2. ASSUME NEW j \in i..Len(u), ~Record!IsBlank(u[j]) PROVE u[j] > h
      <4> SUFFICES ASSUME ~(u[j] > h) PROVE FALSE
        OBVIOUS
      <4>1. j \in 1..Len(u)
        BY <1>1, <2>3
      <4>2. u[j] \in 1..n /\ u[j] <= h
        BY <2>8, <3>2, <4>1
      <4>3. PICK p \in 1..Len(t) : t[p] = u[j]
        BY <2>8, <4>2
      <4>4. p \in 1..(i - 1)
        <5> SUFFICES ASSUME p \notin 1..(i - 1) PROVE FALSE
          OBVIOUS
        <5>1. p \in ((i - 1) + 1)..Len(t)
          BY <1>1, <2>3
        <5> QED
          BY <2>9, <3>2, <4>2, <4>3, <5>1
      <4>5. u[p] = t[p] /\ p \in 1..Len(u) /\ p < j
        <5>1. Match(p) /\ ~Record!IsBlank(t[p])
          BY <2>4, <3>2, <4>3, <4>4
        <5>2. p < j
          BY <2>3, <4>4
        <5> QED
          BY <1>1, <5>1, <5>2
      <4>6. u[p] < u[j]
        BY <2>8, <3>2, <4>1, <4>3, <4>5
      <4> QED
        BY <4>2, <4>3, <4>5, <4>6
    <3> QED
      BY <2>10, <3>1, <3>2 DEF Upto
  <2>12. CASE i > Len(u)
    <3>1. i - 1 = Len(u)
      BY <1>1, <2>3, <2>7, <2>12
    <3>2. h = n
      BY <1>1, <2>11, <3>1, AllRead
    <3>3. Len(t) \in ((i - 1) + 1)..Len(t) /\ Len(t) \in 1..Len(t) /\ t # <<>>
      BY <1>1, <2>3
    <3>4. ~Record!IsBlank(t[Len(t)])
      BY <3>3 DEF Written, EndsInLetter
    <3>5. t[Len(t)] > h /\ t[Len(t)] \in 1..n
      BY <2>8, <2>9, <3>3, <3>4
    <3> QED
      BY <3>2, <3>5
  <2>13. CASE ~(i > Len(u))
    <3>1. i \in 1..Len(u)
      BY <1>1, <2>3, <2>13
    <3>2. i > 1 => (Record!IsBlank(t[i - 1]) <=> Record!IsBlank(u[i - 1]))
      <4> SUFFICES ASSUME i > 1 PROVE Record!IsBlank(t[i - 1]) <=> Record!IsBlank(u[i - 1])
        OBVIOUS
      <4>1. i - 1 \in 1..(i - 1)
        BY <2>3
      <4> QED
        BY <2>4, <4>1
    <3>3. CASE Record!IsBlank(t[i]) /\ ~Record!IsBlank(u[i])
      BY <2>3, <2>6, <2>11, <3>1, <3>2, <3>3, ShapeClash
    <3>4. CASE ~Record!IsBlank(t[i]) /\ Record!IsBlank(u[i])
      BY <2>3, <2>6, <2>11, <3>1, <3>2, <3>4, ShapeClash
    <3>5. CASE ~Record!IsBlank(t[i]) /\ ~Record!IsBlank(u[i])
      <4> DEFINE m == i - 1
      <4>1. m \in Nat /\ m + 1 = i /\ Upto(t, m, h) /\ Upto(u, m, h)
        BY <2>3, <2>6, <2>11
      <4> HIDE DEF m
      <4>2. t[i] = h + 1
        BY <1>1, <2>3, <3>5, <4>1, NextLetter
      <4>3. u[i] = h + 1
        BY <1>1, <3>1, <3>5, <4>1, NextLetter
      <4> QED
        BY <2>3, <3>1, <3>5, <4>2, <4>3
    <3>6. CASE Record!IsBlank(t[i]) /\ Record!IsBlank(u[i])
      BY <2>3, <3>1, <3>6
    <3> QED
      BY <3>3, <3>4, <3>5, <3>6
  <2> QED
    BY <2>12, <2>13
<1> QED
  BY <1>2, <1>3

LEMMA SameShape ==
  ASSUME NEW marks, NEW n \in Nat, NEW t, Written(t, n, marks), NEW u, Written(u, n, marks)
  PROVE  Len(t) = Len(u)
<1>1. Len(t) <= Len(u) /\ Len(u) <= Len(t)
  BY ShapeWithin
<1>2. Len(t) \in Nat /\ Len(u) \in Nat
  BY DEF Written, Segment, Record!Texts
<1> QED
  BY <1>1, <1>2

-----------------------------------------------------------------------------
(* The chunks of an article.                                               *)
FitGroup(p) ==
  p.boundary \in {"alinea", "article"} /\ (Record!Contextualized(p.text) <= MaxChars \/ OneLine(p.text))

AlineaGroups(s, k, hi, marks) ==
  /\ s \in Record!Packing
  /\ \E lo \in Nat : Pieced(s.pieces, 0, lo, marks) /\ Segment(s.current, lo, hi, marks)
  /\ \A i \in 1..Len(s.pieces) : FitGroup(s.pieces[i])
  /\ Normal(s.current)
  /\ IF k = 0 THEN s.current = <<>> /\ s.pieces = <<>>
     ELSE EndsInLetter(s.current)
     /\ (Record!Contextualized(s.current) <= MaxChars \/ OneLine(s.current))
  /\ s.pieces = <<>> /\ OneLine(s.current) => k <= 1

LEMMA GroupAppend ==
  ASSUME NEW a \in Seq(PieceSet), \A i \in 1..Len(a) : FitGroup(a[i]), NEW p \in PieceSet, FitGroup(p)
  PROVE  Append(a, p) \in Seq(PieceSet) /\ Append(a, p) # <<>>
         /\ \A i \in 1..Len(Append(a, p)) : FitGroup(Append(a, p)[i])
<1> DEFINE b == Append(a, p)
           n == Len(a)
<1>1. n \in Nat /\ b \in Seq(PieceSet) /\ b # <<>> /\ Len(b) = n + 1
      /\ (\A i \in 1..n : b[i] = a[i]) /\ b[n + 1] = p
  BY AppendProperties
<1>2. \A i \in 1..n : FitGroup(a[i])
  OBVIOUS
<1> HIDE DEF b, n
<1>3. \A i \in 1..(n + 1) : i \in 1..n \/ i = n + 1
  BY <1>1
<1> QED
  BY <1>1, <1>2, <1>3 DEF b

LEMMA GroupedType ==
  ASSUME NEW s \in Record!Packing, NEW x \in Record!Texts
  PROVE  Record!Grouped(s, x) \in Record!Packing
<1> DEFINE p == Record!Piece(s.current, "alinea")
           joined == Record!Joined(<<s.current, x>>)
<1>1. s.pieces \in Seq(PieceSet) /\ s.current \in Record!Texts
      /\ s = [pieces |-> s.pieces, current |-> s.current]
  BY PackingIs
<1>2. p \in PieceSet /\ joined \in Record!Texts
  BY <1>1, JoinedTwo, GluedType DEF Record!Piece, PieceSet, Record!Boundaries
<1>3. Record!Grouped(s, x) = [pieces |-> Append(s.pieces, p), current |-> x] \/ Record!Grouped(s, x) = [s EXCEPT !.current = joined]
  BY DEF Record!Grouped
<1> HIDE DEF p, joined
<1>4. Append(s.pieces, p) \in Seq(PieceSet)
  BY <1>1, <1>2
<1>5. [s EXCEPT !.current = joined] = [pieces |-> s.pieces, current |-> joined]
  BY <1>1
<1> QED
  BY <1>1, <1>2, <1>3, <1>4, <1>5, PackingIs

LEMMA GroupedGroups ==
  ASSUME Record!BoundsAssumption, member.context \in Nat, NEW marks, NEW s, NEW k \in Nat,
         NEW mid \in Nat,
         AlineaGroups(s, k, mid, marks), k = 0 => mid = 0,
         NEW x, NEW hi \in Nat, Normal(x), OneLine(x), Segment(x, mid, hi, marks), EndsInLetter(x),
         k > 0 => SetApart(x, marks)
  PROVE  AlineaGroups(Record!Grouped(s, x), k + 1, hi, marks)
<1> DEFINE joined == Record!Joined(<<s.current, x>>)
           p == Record!Piece(s.current, "alinea")
           r == Record!Grouped(s, x)
<1>1. s \in Record!Packing /\ s.pieces \in Seq(PieceSet) /\ s.current \in Record!Texts
      /\ Normal(s.current) /\ x \in Record!Texts
      /\ s = [pieces |-> s.pieces, current |-> s.current]
      /\ \A i \in 1..Len(s.pieces) : FitGroup(s.pieces[i])
  BY PackingIs DEF AlineaGroups, Segment
<1>2. r \in Record!Packing /\ joined = Glued(s.current, x) /\ joined \in Record!Texts
  BY <1>1, GroupedType, JoinedTwo, GluedType
<1>3. PICK lo \in Nat : Pieced(s.pieces, 0, lo, marks) /\ Segment(s.current, lo, mid, marks)
  BY DEF AlineaGroups
<1>4. Record!Contextualized(joined) \in Nat /\ MaxChars \in Nat
  BY <1>2 DEF Record!Contextualized, Record!BoundsAssumption, Record!Texts
<1>5. CASE k = 0
  <2>1. s.current = <<>> /\ s.pieces = <<>>
    BY <1>5 DEF AlineaGroups
  <2>2. r = [s EXCEPT !.current = joined]
    BY <2>1 DEF Record!Grouped
  <2>3. joined = x
    BY <1>2, <2>1 DEF Glued
  <2> HIDE DEF r, joined, p
  <2>4. r.pieces = s.pieces /\ r.current = x
    BY <1>1, <2>2, <2>3
  <2>5. Pieced(s.pieces, 0, mid, marks)
    BY <1>3, <2>1, EmptySegment
  <2>6. \E l \in Nat : Pieced(r.pieces, 0, l, marks) /\ Segment(r.current, l, hi, marks)
    BY <2>4, <2>5
  <2>7. k + 1 # 0 /\ k + 1 <= 1
    BY <1>5
  <2>8. AlineaGroups(r, k + 1, hi, marks)
    BY <1>1, <1>2, <2>4, <2>6, <2>7 DEF AlineaGroups
  <2> QED
    BY <2>8 DEF r
<1>6. CASE k # 0
  <2>1. /\ EndsInLetter(s.current) /\ s.current # <<>>
        /\ (Record!Contextualized(s.current) <= MaxChars \/ OneLine(s.current))
        /\ SetApart(x, marks) /\ k + 1 # 0
    BY <1>6 DEF AlineaGroups, EndsInLetter
  <2>2. CASE Record!Contextualized(joined) > MaxChars
    <3>1. r = [pieces |-> Append(s.pieces, p), current |-> x]
      BY <2>1, <2>2 DEF Record!Grouped
    <3>2. p \in PieceSet /\ FitGroup(p)
      BY <1>1, <2>1 DEF Record!Piece, PieceSet, Record!Boundaries, FitGroup
    <3>3. Pieced(Append(s.pieces, p), 0, mid, marks)
      BY <1>3, PiecedAppend DEF Record!Boundaries
    <3> HIDE DEF r, joined, p
    <3>4. Append(s.pieces, p) # <<>>
          /\ \A i \in 1..Len(Append(s.pieces, p)) : FitGroup(Append(s.pieces, p)[i])
      BY <1>1, <3>2, GroupAppend
    <3>5. r.pieces = Append(s.pieces, p) /\ r.current = x
      BY <3>1
    <3>6. \E l \in Nat : Pieced(r.pieces, 0, l, marks) /\ Segment(r.current, l, hi, marks)
      BY <3>3, <3>5
    <3>7. AlineaGroups(r, k + 1, hi, marks)
      BY <1>2, <2>1, <3>4, <3>5, <3>6 DEF AlineaGroups
    <3> QED
      BY <3>7 DEF r
  <2>3. CASE ~(Record!Contextualized(joined) > MaxChars)
    <3>1. r = [s EXCEPT !.current = joined]
      BY <2>3 DEF Record!Grouped
    <3>2. /\ Normal(joined) /\ Segment(joined, lo, hi, marks) /\ EndsInLetter(joined)
          /\ ~OneLine(joined)
      <4> DEFINE c == s.current
      <4>1. Normal(c) /\ Segment(c, lo, mid, marks) /\ EndsInLetter(c)
        BY <1>1, <1>3, <2>1
      <4> HIDE DEF c
      <4>2. /\ Normal(Glued(c, x)) /\ Segment(Glued(c, x), lo, hi, marks) /\ EndsInLetter(Glued(c, x))
            /\ ~OneLine(Glued(c, x))
        BY <2>1, <4>1, GluedIs
      <4> QED
        BY <1>2, <4>2 DEF c
    <3> HIDE DEF r, joined, p
    <3>3. r.pieces = s.pieces /\ r.current = joined
      BY <1>1, <3>1
    <3>4. \E l \in Nat : Pieced(r.pieces, 0, l, marks) /\ Segment(r.current, l, hi, marks)
      BY <1>3, <3>2, <3>3
    <3>5. Record!Contextualized(joined) <= MaxChars
      BY <1>4, <2>3
    <3>6. AlineaGroups(r, k + 1, hi, marks)
      BY <1>1, <1>2, <2>1, <3>2, <3>3, <3>4, <3>5 DEF AlineaGroups
    <3> QED
      BY <3>6 DEF r
  <2> QED
    BY <2>2, <2>3
<1> QED
  BY <1>5, <1>6

LEMMA ArticleChunksAre ==
  ASSUME Record!BoundsAssumption, member.context \in Nat, NEW marks, NEW n \in Nat, NEW t,
         Written(t, n, marks)
  PROVE  /\ Pieced(Record!ArticleChunks(t), 0, n, marks)
         /\ \A i \in 1..Len(Record!ArticleChunks(t)) : FitGroup(Record!ArticleChunks(t)[i])
<1> DEFINE ps == Record!Paragraphs(t)
           q == Len(ps)
           step == [p \in Record!Packing \X Record!Texts |-> Record!Grouped(p[1], p[2])]
           groups == Record!Folded(step, Record!Unpacked, ps)
           whole == <<Record!Piece(t, "article")>>
           last == Record!Piece(groups.current, "alinea")
           R == Record!ArticleChunks(t)
<1>1. R = IF Record!Contextualized(t) <= MaxChars \/ q <= 1 \/ groups.pieces = <<>> THEN whole
          ELSE Append(groups.pieces, last)
  BY DEF Record!ArticleChunks
<1>2. Normal(t) /\ Covers(t, 0, n) /\ Spaced(t, marks) /\ Segment(t, 0, n, marks) /\ t \in Record!Texts
  BY DEF Written, Segment
<1>3. /\ Alineas(ps, marks) /\ Chain(ps, 0, n, marks)
      /\ EndsInLetter(t) /\ q <= 1 => OneLine(t)
  BY <1>2, ParagraphsAre
<1> HIDE DEF ps, R
<1>4. ps \in Seq(Record!Texts) /\ q \in Nat
  BY <1>3 DEF Alineas
<1>5. PICK cut \in [0..q -> Nat] :
        cut[0] = 0 /\ cut[q] = n /\ \A k \in 1..q : Segment(ps[k], cut[k - 1], cut[k], marks)
  BY <1>3 DEF Chain
<1> DEFINE Good(k, s) == AlineaGroups(s, k, cut[k], marks)
           RecordInv == {p \in (0..q) \X Record!Packing : Good(p[1], p[2])}
<1>6. Record!Unpacked \in Record!Packing /\ Good(0, Record!Unpacked)
  <2>1. <<>> \in Record!Texts /\ Normal(<<>>) /\ Segment(<<>>, 0, 0, marks) /\ Len(<<>>) = 0
        /\ 1..0 = {}
        /\ <<>> \in Seq(PieceSet)
    BY EmptyCovers
  <2>2. Pieced(<<>>, 0, 0, marks)
    BY PiecedNone
  <2>3. Record!Unpacked \in Record!Packing /\ Record!Unpacked.current = <<>>
        /\ Record!Unpacked.pieces = <<>>
    BY <2>1, PackingIs DEF Record!Unpacked
  <2>4. \E lo \in Nat : Pieced(Record!Unpacked.pieces, 0, lo, marks) /\ Segment(Record!Unpacked.current, lo, 0, marks)
    BY <2>1, <2>2, <2>3
  <2>5. \A i \in 1..Len(Record!Unpacked.pieces) : FitGroup(Record!Unpacked.pieces[i])
    BY <2>1, <2>3
  <2>6. AlineaGroups(Record!Unpacked, 0, 0, marks)
    BY <2>1, <2>3, <2>4, <2>5 DEF AlineaGroups
  <2> QED
    BY <1>5, <2>3, <2>6
<1>7. ASSUME NEW k \in 1..q, NEW s \in Record!Packing, Good(k - 1, s)
      PROVE  Good(k, Record!Grouped(s, ps[k]))
  <2> DEFINE x == ps[k]
             j == k - 1
             a == cut[j]
             b == cut[k]
  <2>1. a \in Nat /\ b \in Nat /\ j \in Nat /\ j + 1 = k /\ (j = 0 => a = 0)
    BY <1>4, <1>5
  <2>2. Segment(x, a, b, marks) /\ Normal(x) /\ OneLine(x) /\ EndsInLetter(x)
    BY <1>3, <1>5 DEF Alineas
  <2>3. j > 0 => SetApart(x, marks)
    <3> SUFFICES ASSUME j > 0 PROVE SetApart(x, marks)
      OBVIOUS
    <3>1. k \in 2..q
      BY <1>4
    <3> QED
      BY <1>3, <3>1 DEF Alineas
  <2>4. AlineaGroups(s, j, a, marks)
    BY <1>7
  <2> HIDE DEF x, a, b, j
  <2>5. AlineaGroups(Record!Grouped(s, x), j + 1, b, marks)
    BY <2>1, <2>2, <2>3, <2>4, GroupedGroups
  <2> QED
    BY <2>1, <2>5 DEF x, b
<1>8. \A s \in Record!Packing : \A x \in Record!Texts : step[<<s, x>>] = Record!Grouped(s, x) /\ Record!Grouped(s, x) \in Record!Packing
  BY GroupedType
<1>9. step \in [Record!Packing \X Record!Texts -> Record!Packing]
  BY <1>8
<1> HIDE DEF step, Good
<1>10. <<0, Record!Unpacked>> \in RecordInv
  BY <1>4, <1>6
<1>11. ASSUME NEW k \in 1..q, NEW s \in Record!Packing, <<k - 1, s>> \in RecordInv
       PROVE  <<k, step[<<s, ps[k]>>]>> \in RecordInv
  <2>1. ps[k] \in Record!Texts /\ k \in 0..q /\ Good(k - 1, s)
    BY <1>4, <1>11
  <2> QED
    BY <1>7, <1>8, <2>1
<1> HIDE DEF RecordInv
<1>12. <<q, groups>> \in RecordInv
  BY <1>4, <1>6, <1>9, <1>10, <1>11, FoldHolds
<1>13. AlineaGroups(groups, q, n, marks)
  BY <1>5, <1>12 DEF RecordInv, Good
<1> HIDE DEF groups
<1>14. groups \in Record!Packing /\ groups.pieces \in Seq(PieceSet) /\ groups.current \in Record!Texts
       /\ \A i \in 1..Len(groups.pieces) : FitGroup(groups.pieces[i])
  BY <1>13, PackingIs DEF AlineaGroups
<1>15. PICK lo \in Nat : Pieced(groups.pieces, 0, lo, marks) /\ Segment(groups.current, lo, n, marks)
  BY <1>13 DEF AlineaGroups
<1>16. CASE Record!Contextualized(t) <= MaxChars \/ q <= 1 \/ groups.pieces = <<>>
  <2>1. R = whole
    BY <1>1, <1>16
  <2>2. Pieced(whole, 0, n, marks)
    BY <1>2, PiecedOne DEF Record!Boundaries
  <2>3. Record!Contextualized(t) <= MaxChars \/ OneLine(t)
    <3>1. CASE Record!Contextualized(t) <= MaxChars
      BY <3>1
    <3>2. CASE q <= 1
      <4>1. t = <<>> => OneLine(t)
        BY EmptyCovers
      <4> QED
        BY <1>3, <3>2, <4>1 DEF Written
    <3>3. CASE q > 1 /\ groups.pieces = <<>>
      <4>1. ~OneLine(groups.current) /\ Record!Contextualized(groups.current) <= MaxChars
        BY <1>4, <1>13, <3>3 DEF AlineaGroups
      <4>2. lo = 0
        <5>1. Held(<<>>) = <<>> /\ Len(<<>>) = 0
          BY DEF Held
        <5>2. Chain(<<>>, 0, lo, marks)
          BY <1>15, <3>3, <5>1 DEF Pieced
        <5> QED
          BY <5>1, <5>2 DEF Chain
      <4>3. Written(groups.current, n, marks)
        BY <1>4, <1>13, <1>15, <3>3, <4>2 DEF AlineaGroups, Written
      <4>4. Len(groups.current) = Len(t)
        BY <4>3, SameShape
      <4> QED
        BY <4>1, <4>4 DEF Record!Contextualized
    <3> QED
      BY <1>4, <1>16, <3>1, <3>2, <3>3
  <2>4. Len(whole) = 1 /\ whole[1].text = t /\ whole[1].boundary = "article"
    BY DEF Record!Piece
  <2> HIDE DEF whole
  <2>5. \A i \in 1..Len(whole) : i = 1
    BY <2>4
  <2> QED
    BY <2>1, <2>2, <2>3, <2>4, <2>5 DEF FitGroup, R
<1>17. CASE ~(Record!Contextualized(t) <= MaxChars \/ q <= 1 \/ groups.pieces = <<>>)
  <2>1. R = Append(groups.pieces, last)
    BY <1>1, <1>17
  <2>2. Pieced(R, 0, n, marks)
    BY <1>15, <2>1, PiecedAppend DEF Record!Boundaries
  <2>3. last \in PieceSet /\ FitGroup(last)
    <3>1. q # 0
      BY <1>4, <1>17
    <3> QED
      BY <1>13, <1>14, <3>1 DEF Record!Piece, PieceSet, Record!Boundaries, FitGroup, AlineaGroups
  <2> HIDE DEF last
  <2>4. \A i \in 1..Len(R) : FitGroup(R[i])
    BY <1>14, <2>1, <2>3, GroupAppend
  <2> QED
    BY <2>2, <2>4 DEF R
<1> QED
  BY <1>16, <1>17

-----------------------------------------------------------------------------
(* What the chunks hold, one after the other.                              *)
LEMMA ChainFlattens ==
  ASSUME NEW marks, NEW ps \in Seq(Record!Texts), ps # <<>>, NEW n \in Nat, Chain(ps, 0, n, marks)
  PROVE  Record!FlattenSeq(ps) \in Record!Texts /\ Covers(Record!FlattenSeq(ps), 0, n)
<1> DEFINE q == Len(ps)
           G(a, b) == a \o b
           step == [p \in Record!Texts \X Record!Texts |-> G(p[1], p[2])]
           e == <<>>
<1>1. q \in Nat /\ \A k \in 1..q : ps[k] \in Record!Texts
  OBVIOUS
<1>2. PICK cut \in [0..q -> Nat] :
        cut[0] = 0 /\ cut[q] = n /\ \A k \in 1..q : Segment(ps[k], cut[k - 1], cut[k], marks)
  BY DEF Chain
<1>3. \A a \in Record!Texts : \A b \in Record!Texts : step[<<a, b>>] = G(a, b) /\ G(a, b) \in Record!Texts
  BY DEF Record!Texts
<1>4. step \in [Record!Texts \X Record!Texts -> Record!Texts]
  BY <1>3
<1>5. e \in Record!Texts /\ Covers(e, 0, 0)
  BY EmptyCovers DEF Segment
<1>6. e = <<>>
  OBVIOUS
<1> HIDE DEF step, e
<1>7. PICK f \in [0..Len(ps) -> Record!Texts] : Goes(f, step, e, ps)
  BY <1>4, <1>5, FoldedIs
<1>8. f[0] = <<>> /\ \A i \in 1..q : f[i] = f[i - 1] \o ps[i]
  <2>1. f[0] = e /\ \A i \in 1..q : f[i] = step[<<f[i - 1], ps[i]>>]
    BY <1>7 DEF Goes
  <2>2. \A i \in 1..q : i - 1 \in 0..q
    BY <1>1
  <2>3. \A i \in 1..q : f[i - 1] \in Record!Texts
    BY <1>7, <2>2
  <2> QED
    BY <1>1, <1>3, <1>6, <2>1, <2>3
<1>9. Record!FlattenSeq(ps) = f[q]
  <2>1. ps \in Seq(Seq(Int)) /\ f \in [0..Len(ps) -> Seq(Int)]
    BY <1>7 DEF Record!Texts
  <2>2. Flattens(Int, ps, f[q])
    BY <1>8, <2>1 DEF Flattens
  <2> QED
    BY <2>1, <2>2, FlattenSeqIs
<1> HIDE DEF q
<1> DEFINE S == {i \in 0..q : Covers(f[i], 0, cut[i])}
<1>10. 0 \in S
  BY <1>1, <1>2, <1>5, <1>6, <1>8
<1>11. ASSUME NEW i \in 1..q, i - 1 \in S PROVE i \in S
  <2> DEFINE a == cut[i - 1]
             b == cut[i]
             x == ps[i]
             y == f[i - 1]
  <2>0. i \in 0..q /\ i - 1 \in 0..q
    BY <1>1
  <2>1. a \in Nat /\ b \in Nat /\ i \in 0..q /\ i - 1 \in 0..Len(ps)
    BY <1>2, <2>0 DEF q
  <2>2. x \in Record!Texts /\ y \in Record!Texts /\ Covers(y, 0, a) /\ f[i] = y \o x
    BY <1>1, <1>7, <1>8, <1>11, <2>1
  <2>3. Covers(x, a, b)
    BY <1>2 DEF Segment
  <2> HIDE DEF a, b, x, y
  <2>4. Covers(y \o x, 0, b)
    BY <2>1, <2>2, <2>3, CoversConcat
  <2> QED
    BY <2>1, <2>2, <2>4 DEF b
<1> HIDE DEF S
<1>12. q \in S
  <2>1. \A i \in 0..q : i \in S
    BY <1>1, <1>10, <1>11, UpTo
  <2> QED
    BY <1>1, <2>1
<1>13. Covers(f[q], 0, n) /\ f[q] \in Record!Texts
  BY <1>1, <1>2, <1>7, <1>12 DEF S, q
<1> QED
  BY <1>9, <1>13

BodyOf(c) == IF c # <<>> /\ Head(c).boundary = "sommaire" THEN Tail(c) ELSE c

LEMMA HeadAndTail ==
  ASSUME NEW p \in PieceSet, NEW c \in Seq(PieceSet), p.boundary = "sommaire"
  PROVE  BodyOf(<<p>> \o c) = c
<1> DEFINE d == <<p>> \o c
<1>1. d # <<>> /\ Head(d) = p /\ Tail(d) = c
  OBVIOUS
<1> HIDE DEF d
<1> QED
  BY <1>1 DEF BodyOf, d

LEMMA NoHead ==
  ASSUME NEW c \in Seq(PieceSet), \A i \in 1..Len(c) : c[i].boundary # "sommaire"
  PROVE  BodyOf(c) = c
<1>1. c # <<>> => Head(c) = c[1] /\ 1 \in 1..Len(c)
  OBVIOUS
<1> QED
  BY <1>1 DEF BodyOf

(* The summaries together have a letter when each of them has one.         *)
LEMMA SommaireHasLetter ==
  ASSUME NEW ps \in Seq(Record!Texts), \A k \in 1..Len(ps) : HasLetter(ps[k])
  PROVE  LET s == Record!JoinedBy(ps, <<Record!Line, Record!Line>>)
         IN  s \in Record!Texts /\ (s # <<>> => HasLetter(s))
<1> DEFINE sep == <<Record!Line, Record!Line>>
<1>0. sep \in Record!Texts
  BY DEF Record!Texts, Record!Line
<1> HIDE DEF sep
<1> DEFINE G(a, b) == IF a = <<>> THEN b ELSE a \o sep \o b
           step == [p \in Record!Texts \X Record!Texts |-> G(p[1], p[2])]
           e == <<>>
           Good(u) == u # <<>> => HasLetter(u)
           RecordInv == {p \in Nat \X Record!Texts : Good(p[2])}
<1>1. Record!JoinedBy(ps, sep) = Record!Folded(step, e, ps)
  BY DEF Record!JoinedBy
<1>2. \A a \in Record!Texts : \A b \in Record!Texts : step[<<a, b>>] = G(a, b) /\ G(a, b) \in Record!Texts
  BY <1>0 DEF Record!Texts
<1>3. step \in [Record!Texts \X Record!Texts -> Record!Texts] /\ e \in Record!Texts /\ Good(e)
  <2>1. step \in [Record!Texts \X Record!Texts -> Record!Texts]
    BY <1>2
  <2>2. e \in Record!Texts /\ e = <<>>
    BY DEF Record!Texts
  <2> HIDE DEF step, e
  <2> QED
    BY <2>1, <2>2
<1>4. ASSUME NEW a \in Record!Texts, NEW b \in Record!Texts, HasLetter(b) PROVE HasLetter(G(a, b))
  <2>1. CASE a = <<>>
    BY <1>4, <2>1
  <2>2. CASE a # <<>>
    <3> DEFINE c == a \o sep
    <3>1. c \in Record!Texts
      BY <1>0 DEF Record!Texts
    <3>2. G(a, b) = c \o b
      BY <2>2
    <3> HIDE DEF c, G
    <3>3. /\ Len(c \o b) = Len(c) + Len(b) /\ Len(c) \in Nat /\ Len(b) \in Nat
          /\ \A i \in 1..Len(b) : (c \o b)[Len(c) + i] = b[i]
      BY <3>1, Concatenated
    <3>4. PICK i \in 1..Len(b) : ~Record!IsBlank(b[i])
      BY <1>4 DEF HasLetter
    <3>5. Len(c) + i \in 1..Len(c \o b)
      BY <3>3
    <3>6. ~Record!IsBlank((c \o b)[Len(c) + i])
      BY <3>3, <3>4
    <3> QED
      BY <3>2, <3>5, <3>6 DEF HasLetter
  <2> QED
    BY <2>1, <2>2
<1> HIDE DEF step, G
<1>5. <<0, e>> \in RecordInv
  BY <1>3
<1> HIDE DEF e
<1>6. ASSUME NEW k \in 1..Len(ps), NEW d \in Record!Texts, <<k - 1, d>> \in RecordInv
      PROVE  <<k, step[<<d, ps[k]>>]>> \in RecordInv
  <2>1. ps[k] \in Record!Texts /\ k \in Nat /\ HasLetter(ps[k])
    OBVIOUS
  <2> QED
    BY <1>2, <1>4, <2>1
<1> HIDE DEF RecordInv
<1>7. Record!Folded(step, e, ps) \in Record!Texts
      /\ <<Len(ps), Record!Folded(step, e, ps)>> \in RecordInv
  BY <1>3, <1>5, <1>6, FoldHolds
<1> QED
  BY <1>1, <1>7 DEF RecordInv, sep

LEMMA TrimEndOfLetters ==
  ASSUME NEW t \in Record!Texts, HasLetter(t)
  PROVE  Record!TrimEnd(t) # <<>>
<1>1. Len(t) \in Nat
  BY DEF Record!Texts
<1>2. PICK m \in 0..Len(t) :
        /\ Record!TrimEnd(t) = SubSeq(t, 1, m) /\ (m = 0 \/ ~Record!IsBlank(t[m]))
        /\ \A i \in (m + 1)..Len(t) : Record!IsBlank(t[i])
  BY TrimEndIs
<1>3. m # 0
  BY <1>1, <1>2 DEF HasLetter
<1> DEFINE u == SubSeq(t, 1, m)
<1>4. 1 \in 1..(Len(t) + 1) /\ 1 <= m + 1
  BY <1>1
<1>5. Len(u) = m - 1 + 1
  BY <1>4, Cutting
<1> HIDE DEF u
<1>6. u # <<>>
  BY <1>1, <1>3, <1>5
<1> QED
  BY <1>2, <1>6 DEF u

(* The chunks of a text as finish_body leaves it.                          *)
Summarised == summaries \in Seq(Record!Texts) /\ \A k \in 1..Len(summaries) : HasLetter(summaries[k])

LEMMA DecisionChunksAre ==
  ASSUME Record!BoundsAssumption, Summarised, NEW marks, NEW n \in Nat, NEW t, Written(t, n, marks)
  PROVE  /\ Record!DecisionChunks(t) \in Seq(PieceSet)
         /\ Pieced(BodyOf(Record!DecisionChunks(t)), 0, n, marks)
         /\ \A i \in 1..Len(BodyOf(Record!DecisionChunks(t))) : Len(BodyOf(Record!DecisionChunks(t))[i].text) <= MaxChars
         /\ \A i \in 1..Len(Record!DecisionChunks(t)) : HasLetter(Record!DecisionChunks(t)[i].text)
<1> DEFINE s == Record!JoinedBy(summaries, <<Record!Line, Record!Line>>)
           b == Record!SplitBody(t)
           p == Record!Piece(s, "sommaire")
           d == Record!DecisionChunks(t)
<1>1. s \in Record!Texts /\ (s # <<>> => HasLetter(s))
  BY SommaireHasLetter DEF Summarised
<1>2. Pieced(b, 0, n, marks) /\ \A i \in 1..Len(b) : FitPiece(b[i])
  BY SplitBodyIs
<1>3. b \in Seq(PieceSet)
  BY <1>2 DEF Pieced
<1>4. d = (IF s = <<>> THEN <<>> ELSE <<p>>) \o b
  BY DEF Record!DecisionChunks
<1>5. p \in PieceSet /\ p.boundary = "sommaire" /\ p.text = s
  BY <1>1 DEF Record!Piece, PieceSet, Record!Boundaries
<1> HIDE DEF s, b, p, d
<1>6. \A i \in 1..Len(b) : Len(b[i].text) <= MaxChars /\ HasLetter(b[i].text) /\ b[i].boundary # "sommaire"
  BY <1>2 DEF FitPiece
<1>7. BodyOf(b) = b
  BY <1>3, <1>6, NoHead
<1>8. CASE s = <<>>
  <2>1. d = b
    BY <1>3, <1>4, <1>8
  <2> QED
    BY <1>2, <1>3, <1>6, <1>7, <2>1 DEF d
<1>9. CASE s # <<>>
  <2>1. d = <<p>> \o b
    BY <1>4, <1>9
  <2>2. BodyOf(d) = b
    BY <1>3, <1>5, <2>1, HeadAndTail
  <2>3. d \in Seq(PieceSet) /\ Len(d) = 1 + Len(b) /\ d[1] = p
        /\ \A i \in 2..(1 + Len(b)) : d[i] = b[i - 1]
    BY <1>3, <1>5, <2>1
  <2>4. \A i \in 1..Len(d) : HasLetter(d[i].text)
    <3> SUFFICES ASSUME NEW i \in 1..Len(d) PROVE HasLetter(d[i].text)
      OBVIOUS
    <3>1. CASE i = 1
      BY <1>1, <1>5, <1>9, <2>3, <3>1
    <3>2. CASE i # 1
      <4>1. i \in 2..(1 + Len(b)) /\ i - 1 \in 1..Len(b)
        BY <1>3, <2>3, <3>2
      <4> QED
        BY <1>6, <2>3, <4>1
    <3> QED
      BY <3>1, <3>2
  <2> QED
    BY <1>2, <1>6, <2>2, <2>3, <2>4 DEF d
<1> QED
  BY <1>8, <1>9

-----------------------------------------------------------------------------
(* What holds in every state.                                              *)
ElementNames == {Record!Block, Record!Inline, Record!Contenu, Record!Summary}

ReaderOK ==
  /\ member \in Record!Members /\ stack \in Seq(ElementNames)
  /\ body \in Record!Texts /\ read \in Seq(Record!Pending) /\ separation \in Record!Pending
  /\ summary \in [open : BOOLEAN, text : Record!Texts]
  /\ Summarised
  /\ status \in {"reading", "Inserted", "Skipped", "Failed", "Aborted"}
  /\ pieces \in Seq(PieceSet)
  /\ status = "reading" => pieces = <<>> /\ BodyHolds(body, read, separation)

RecordInv == ReaderOK /\ Record!TextSurvives /\ Record!NeverAborts /\ Record!WithinBudget

LEMMA StartsOK ==
  ASSUME Record!Init PROVE RecordInv
<1> DEFINE e == <<>>
<1>1. /\ e \in Record!Texts /\ Normal(e) /\ e \in Seq(Record!Pending) /\ e \in Seq(ElementNames)
      /\ e \in Seq(PieceSet)
      /\ e \in Seq(Record!Texts) /\ Len(e) = 0 /\ e = <<>> /\ 1..0 = {} /\ 2..0 = {}
  BY EmptyCovers
<1>2. e = <<>>
  OBVIOUS
<1> HIDE DEF e
<1>3. [apart |-> FALSE, block |-> FALSE] \in Record!Pending
      /\ [open |-> FALSE, text |-> e] \in [open : BOOLEAN, text : Record!Texts]
  BY <1>1 DEF Record!Pending
<1>4. BodyHolds(e, e, [apart |-> FALSE, block |-> FALSE])
  BY <1>1 DEF BodyHolds, Ranked, Spaced, Waits
<1>5. Summarised
  BY <1>1, <1>2 DEF Record!Init, Summarised
<1>6. ReaderOK
  BY <1>1, <1>2, <1>3, <1>4, <1>5 DEF Record!Init, ReaderOK
<1>7. Record!BodyChunks = <<>> /\ status = "reading"
  BY DEF Record!Init, Record!BodyChunks
<1>8. Record!TextSurvives /\ Record!NeverAborts /\ Record!WithinBudget
  <2>1. DOMAIN Record!BodyChunks = {}
    BY <1>7
  <2> QED
    BY <1>7, <2>1 DEF Record!TextSurvives, Record!NeverAborts, Record!WithinBudget
<1> QED
  BY <1>6, <1>8 DEF RecordInv

(* While a document is read, nothing is said of its chunks.                *)
LEMMA StillReading ==
  ASSUME status' = "reading", pieces' = <<>>
  PROVE  Record!TextSurvives' /\ Record!NeverAborts' /\ Record!WithinBudget'
<1>1. Record!BodyChunks' = <<>>
  BY DEF Record!BodyChunks
<1>2. DOMAIN Record!BodyChunks' = {}
  BY <1>1
<1> QED
  BY <1>2 DEF Record!TextSurvives, Record!NeverAborts, Record!WithinBudget

LEMMA EventReads ==
  ASSUME ReaderOK, Record!Event
  PROVE  status = "reading" /\ status' = "reading" /\ pieces' = <<>> /\ pieces' \in Seq(PieceSet)
         /\ member' \in Record!Members
         /\ BodyHolds(body, read, separation)
  BY DEF ReaderOK, Record!Event

LEMMA WaitsOnlyForSpace ==
  ASSUME NEW t, NEW marks, NEW p, NEW r, BodyHolds(t, marks, p), r.apart = p.apart
  PROVE  BodyHolds(t, marks, r)
  BY DEF BodyHolds, Waits

LEMMA StartOK ==
  ASSUME RecordInv, NEW name \in ElementNames, Record!Start(name)
  PROVE  RecordInv'
<1>1. ReaderOK /\ Record!Event
  BY DEF RecordInv, Record!Start
<1>2. status' = "reading" /\ pieces' = <<>> /\ pieces' \in Seq(PieceSet) /\ member' \in Record!Members
      /\ BodyHolds(body, read, separation)
  BY <1>1, EventReads
<1>3. /\ separation' = [separation EXCEPT !.block = @ \/ (name = Record!Block /\ Record!InBody(stack))]
      /\ stack' = Append(stack, name) /\ body' = body /\ read' = read /\ summaries' = summaries
      /\ summary' = IF name = Record!Summary THEN [open |-> TRUE, text |-> <<>>] ELSE summary
  BY DEF Record!Start
<1>4. separation \in Record!Pending /\ (name = Record!Block /\ Record!InBody(stack)) \in BOOLEAN
  BY <1>1 DEF ReaderOK, Record!InBody, Record!Contains
<1>5. separation' \in Record!Pending /\ separation'.apart = separation.apart
  <2> DEFINE x == name = Record!Block /\ Record!InBody(stack)
  <2> HIDE DEF x
  <2>1. separation' = [separation EXCEPT !.block = @ \/ x]
    BY <1>3 DEF x
  <2> QED
    BY <1>4, <2>1 DEF Record!Pending
<1>6. BodyHolds(body', read', separation')
  BY <1>2, <1>3, <1>5, WaitsOnlyForSpace
<1>7. stack' \in Seq(ElementNames) /\ summary' \in [open : BOOLEAN, text : Record!Texts] /\ Summarised'
  <2>1. <<>> \in Record!Texts
    BY EmptyCovers
  <2> QED
    BY <1>1, <1>3, <2>1 DEF ReaderOK, Summarised
<1>8. ReaderOK'
  BY <1>1, <1>2, <1>3, <1>5, <1>6, <1>7 DEF ReaderOK
<1> QED
  BY <1>2, <1>8, StillReading DEF RecordInv

LEMMA EndsBlockKeeps ==
  ASSUME BodyHolds(body, read, separation), read \in Seq(Record!Pending),
         separation \in Record!Pending, body \in Record!Texts,
         NEW name, Record!EndsBlock(name, stack), read' = read
  PROVE  body' \in Record!Texts /\ separation' \in Record!Pending
         /\ BodyHolds(body', read', separation')
<1>1. CASE name = Record!Block /\ Record!InBody(stack)
  <2> DEFINE closed == [apart |-> TRUE, block |-> TRUE]
  <2>1. body' = Record!Closed(body) /\ separation' = closed
    BY <1>1 DEF Record!EndsBlock
  <2>2. closed \in Record!Pending /\ closed.apart = TRUE
    BY DEF Record!Pending
  <2> HIDE DEF closed
  <2>3. BodyHolds(Record!Closed(body), read, closed)
    <3>1. Len(read) \in Nat
      OBVIOUS
    <3> QED
      BY <2>2, <3>1, ClosedKeeps
  <2>4. Record!Closed(body) \in Record!Texts
    BY <2>3 DEF BodyHolds, Normal
  <2> QED
    BY <2>1, <2>2, <2>3, <2>4
<1>2. CASE ~(name = Record!Block /\ Record!InBody(stack))
  BY <1>2 DEF Record!EndsBlock
<1> QED
  BY <1>1, <1>2

LEMMA EmptyOK ==
  ASSUME RecordInv, NEW name, Record!Empty(name)
  PROVE  RecordInv'
<1>1. ReaderOK /\ Record!Event
  BY DEF RecordInv, Record!Empty
<1>2. status' = "reading" /\ pieces' = <<>> /\ pieces' \in Seq(PieceSet) /\ member' \in Record!Members
      /\ BodyHolds(body, read, separation)
  BY <1>1, EventReads
<1>3. Record!EndsBlock(name, stack) /\ UNCHANGED <<stack, summary, summaries, read>>
  BY DEF Record!Empty
<1>4. body' \in Record!Texts /\ separation' \in Record!Pending /\ BodyHolds(body', read', separation')
  BY <1>1, <1>2, <1>3, EndsBlockKeeps DEF ReaderOK
<1>5. Summarised'
  BY <1>1, <1>3 DEF ReaderOK, Summarised
<1>6. ReaderOK'
  BY <1>1, <1>2, <1>3, <1>4, <1>5 DEF ReaderOK
<1> QED
  BY <1>2, <1>6, StillReading DEF RecordInv

LEMMA EndOK ==
  ASSUME RecordInv, Record!End
  PROVE  RecordInv'
<1>1. ReaderOK /\ Record!Event
  BY DEF RecordInv, Record!End
<1>2. status' = "reading" /\ pieces' = <<>> /\ pieces' \in Seq(PieceSet) /\ member' \in Record!Members
      /\ BodyHolds(body, read, separation)
  BY <1>1, EventReads
<1>3. Record!EndsBlock(Record!Last(stack), stack) /\ read' = read /\ stack' = Record!Front(stack)
      /\ stack # <<>>
  BY DEF Record!End
<1>4. body' \in Record!Texts /\ separation' \in Record!Pending /\ BodyHolds(body', read', separation')
  BY <1>1, <1>2, <1>3, EndsBlockKeeps DEF ReaderOK
<1>5. stack' \in Seq(ElementNames)
  BY <1>1, <1>3, FrontIs DEF ReaderOK
<1>6. summary' \in [open : BOOLEAN, text : Record!Texts] /\ Summarised'
  <2> DEFINE x == Record!Collapsed(summary.text)
  <2>1. summary \in [open : BOOLEAN, text : Record!Texts] /\ summaries \in Seq(Record!Texts)
        /\ Summarised
    BY <1>1 DEF ReaderOK, Summarised
  <2>2. summary.text \in Record!Texts
    BY <2>1
  <2>3. x \in Record!Texts /\ (x # <<>> => EndsInLetter(x))
    BY <2>2, CollapsedType
  <2>4. x # <<>> => HasLetter(x)
    <3>1. x # <<>> => Len(x) \in 1..Len(x)
      BY <2>3 DEF Record!Texts
    <3> QED
      BY <2>3, <3>1 DEF EndsInLetter, HasLetter
  <2>5. CASE Record!Last(stack) = Record!Summary
    <3>1. summaries' = IF x = <<>> THEN summaries ELSE Append(summaries, x)
      BY <2>5 DEF Record!End
    <3>2. summary' = [open |-> FALSE, text |-> <<>>] /\ <<>> \in Record!Texts
      BY <2>5, EmptyCovers DEF Record!End
    <3> HIDE DEF x
    <3>3. Summarised'
      <4>1. CASE x = <<>>
        BY <2>1, <3>1, <4>1 DEF Summarised
      <4>2. CASE x # <<>>
        <5> DEFINE n == Len(summaries)
                   ms == Append(summaries, x)
        <5>1. /\ ms \in Seq(Record!Texts) /\ Len(ms) = n + 1 /\ (\A k \in 1..n : ms[k] = summaries[k])
              /\ ms[n + 1] = x /\ n \in Nat
          BY <2>1, <2>3, AppendProperties
        <5>2. \A k \in 1..n : HasLetter(summaries[k])
          BY <2>1 DEF Summarised
        <5>3. summaries' = ms
          BY <3>1, <4>2
        <5> HIDE DEF ms, n
        <5>4. \A k \in 1..(n + 1) : k \in 1..n \/ k = n + 1
          BY <5>1
        <5>5. \A k \in 1..Len(ms) : HasLetter(ms[k])
          BY <2>4, <4>2, <5>1, <5>2, <5>4
        <5> QED
          BY <5>1, <5>3, <5>5 DEF Summarised
      <4> QED
        BY <4>1, <4>2
    <3> QED
      BY <3>2, <3>3
  <2>6. CASE Record!Last(stack) # Record!Summary
    <3>1. summary' = summary /\ summaries' = summaries
      BY <2>6 DEF Record!End
    <3> QED
      BY <2>1, <3>1 DEF Summarised
  <2> QED
    BY <2>5, <2>6
<1>7. ReaderOK'
  BY <1>1, <1>2, <1>3, <1>4, <1>5, <1>6 DEF ReaderOK
<1> QED
  BY <1>2, <1>7, StillReading DEF RecordInv

LEMMA TextOK ==
  ASSUME Record!BoundsAssumption, RecordInv, NEW piece \in Pieces, Record!Text(piece)
  PROVE  RecordInv'
<1>1. ReaderOK /\ Record!Event /\ piece \in Seq(BOOLEAN)
  BY DEF RecordInv, Record!Text, Record!BoundsAssumption
<1>2. status' = "reading" /\ pieces' = <<>> /\ pieces' \in Seq(PieceSet) /\ member' \in Record!Members
      /\ BodyHolds(body, read, separation)
  BY <1>1, EventReads
<1>3. stack' = stack /\ summaries' = summaries
  BY DEF Record!Text
<1>4. body' \in Record!Texts /\ read' \in Seq(Record!Pending) /\ separation' \in Record!Pending
      /\ BodyHolds(body', read', separation')
      /\ summary' \in [open : BOOLEAN, text : Record!Texts]
  <2>1. body \in Record!Texts /\ read \in Seq(Record!Pending) /\ separation \in Record!Pending
        /\ summary \in [open : BOOLEAN, text : Record!Texts]
    BY <1>1 DEF ReaderOK
  <2>2. CASE Record!InBody(stack)
    <3>1. body' = Record!TakenAll(piece).body /\ read' = Record!TakenAll(piece).read
          /\ separation' = Record!TakenAll(piece).pending
          /\ summary' = summary
      BY <2>2 DEF Record!Text
    <3>2. Record!TakenAll(piece) \in Record!Readings
          /\ BodyHolds(Record!TakenAll(piece).body, Record!TakenAll(piece).read, Record!TakenAll(piece).pending)
      BY <1>1, <1>2, <2>1, TakenAllKeeps
    <3> QED
      BY <2>1, <3>1, <3>2 DEF Record!Readings
  <2>3. CASE ~Record!InBody(stack)
    <3> DEFINE x == [i \in 1..Len(piece) |-> IF piece[i] THEN 1 ELSE Record!Space]
    <3>1. body' = body /\ read' = read /\ separation' = separation
          /\ summary' = IF Record!Last(stack) = Record!Summary THEN [summary EXCEPT !.text = @ \o x] ELSE summary
      BY <2>3 DEF Record!Text
    <3>2. x \in Record!Texts
      <4>1. Len(piece) \in Nat
        BY <1>1
      <4>2. \A i \in 1..Len(piece) : (IF piece[i] THEN 1 ELSE Record!Space) \in Int
        BY DEF Record!Space
      <4> QED
        BY <4>1, <4>2, IsASeq DEF Record!Texts
    <3> HIDE DEF x
    <3>3. summary.text \o x \in Record!Texts
      BY <2>1, <3>2, Concatenated
    <3>4. [summary EXCEPT !.text = @ \o x] \in [open : BOOLEAN, text : Record!Texts]
      BY <2>1, <3>3
    <3> QED
      BY <1>2, <2>1, <3>1, <3>4
  <2> QED
    BY <2>2, <2>3
<1>5. Summarised'
  BY <1>1, <1>3 DEF ReaderOK, Summarised
<1>6. ReaderOK'
  BY <1>1, <1>2, <1>3, <1>4, <1>5 DEF ReaderOK
<1> QED
  BY <1>2, <1>6, StillReading DEF RecordInv

(* The end of the document.                                                *)
SurvivesIn(b, r) ==
  LET stored == Record!FlattenSeq([i \in DOMAIN b |-> b[i].text])
  IN  /\ {stored[i] : i \in DOMAIN stored} \ {Record!Space, Record!Line} = DOMAIN r
      /\ \A i, j \in DOMAIN stored :
           i < j /\ ~Record!IsBlank(stored[i]) /\ ~Record!IsBlank(stored[j]) => stored[i] < stored[j]
      /\ \A k \in DOMAIN b :
           \A i \in 2..Len(b[k].text) :
             /\ ~Record!IsBlank(b[k].text[i - 1]) /\ ~Record!IsBlank(b[k].text[i]) => ~r[b[k].text[i]].apart
             /\ Record!IsBlank(b[k].text[i - 1]) /\ ~Record!IsBlank(b[k].text[i]) => r[b[k].text[i]].apart

LEMMA PiecedSurvives ==
  ASSUME NEW r \in Seq(Record!Pending), Len(r) # 0, NEW b, Pieced(b, 0, Len(r), r)
  PROVE  SurvivesIn(b, r)
<1> DEFINE n == Len(r)
           ps == Held(b)
           stored == Record!FlattenSeq(ps)
<1>1. b \in Seq(PieceSet) /\ Chain(ps, 0, n, r) /\ n \in Nat /\ DOMAIN r = 1..n
  BY DEF Pieced
<1>2. ps \in Seq(Record!Texts) /\ Len(ps) = Len(b) /\ DOMAIN b = 1..Len(b)
      /\ \A k \in 1..Len(b) : ps[k] = b[k].text
  BY <1>1, HeldIs
<1>3. ps # <<>>
  <2> SUFFICES ASSUME ps = <<>> PROVE FALSE
    OBVIOUS
  <2>1. Len(ps) = 0
    BY <1>2
  <2> HIDE DEF ps
  <2> QED
    BY <1>1, <2>1 DEF Chain
<1>4. stored \in Record!Texts /\ Covers(stored, 0, n)
  <2> HIDE DEF ps, n
  <2> QED
    BY <1>1, <1>2, <1>3, ChainFlattens
<1>5. [i \in DOMAIN b |-> b[i].text] = ps
  BY DEF Held
<1> HIDE DEF stored
<1>6. DOMAIN stored = 1..Len(stored)
  BY <1>4 DEF Record!Texts
<1>7. {stored[i] : i \in DOMAIN stored} \ {Record!Space, Record!Line} = DOMAIN r
  <2>1. \A i \in 1..Len(stored) : Record!IsBlank(stored[i]) \/ stored[i] \in 1..n
    BY <1>4 DEF Covers
  <2>2. \A k \in 1..n : \E i \in 1..Len(stored) : stored[i] = k
    BY <1>4 DEF Covers
  <2>3. \A k \in 1..n : k # Record!Space /\ k # Record!Line
    BY DEF Record!Space, Record!Line
  <2>4. \A c : Record!IsBlank(c) <=> c \in {Record!Space, Record!Line}
    BY DEF Record!IsBlank
  <2> HIDE DEF n
  <2> QED
    BY <1>1, <1>6, <2>1, <2>2, <2>3, <2>4
<1>8. \A i, j \in DOMAIN stored :
        i < j /\ ~Record!IsBlank(stored[i]) /\ ~Record!IsBlank(stored[j]) => stored[i] < stored[j]
  BY <1>4, <1>6 DEF Covers
<1>9. \A k \in DOMAIN b : Spaced(b[k].text, r)
  <2>1. \A k \in 1..Len(ps) : Spaced(ps[k], r)
    BY <1>1 DEF Chain, Segment
  <2> HIDE DEF ps
  <2> QED
    BY <1>2, <2>1
<1>10. \A k \in DOMAIN b :
           \A i \in 2..Len(b[k].text) :
             /\ ~Record!IsBlank(b[k].text[i - 1]) /\ ~Record!IsBlank(b[k].text[i]) => ~r[b[k].text[i]].apart
             /\ Record!IsBlank(b[k].text[i - 1]) /\ ~Record!IsBlank(b[k].text[i]) => r[b[k].text[i]].apart
  <2> DEFINE Apart(x, i) ==
               /\ ~Record!IsBlank(x[i - 1]) /\ ~Record!IsBlank(x[i]) => ~r[x[i]].apart
               /\ Record!IsBlank(x[i - 1]) /\ ~Record!IsBlank(x[i]) => r[x[i]].apart
  <2>1. ASSUME NEW x, Spaced(x, r), NEW i \in 2..Len(x) PROVE Apart(x, i)
    <3>1. ~Record!IsBlank(x[i]) => (Record!IsBlank(x[i - 1]) <=> r[x[i]].apart)
      BY <2>1 DEF Spaced
    <3> QED
      BY <3>1
  <2> HIDE DEF Apart
  <2>2. \A k \in DOMAIN b : \A i \in 2..Len(b[k].text) : Apart(b[k].text, i)
    BY <1>9, <2>1
  <2> QED
    BY <2>2 DEF Apart
<1>11. Record!FlattenSeq([i \in DOMAIN b |-> b[i].text]) = stored
  BY <1>5 DEF stored
<1> HIDE DEF ps, n
<1> QED
  BY <1>7, <1>8, <1>10, <1>11 DEF SurvivesIn

LEMMA ChunksAre ==
  ASSUME Record!BoundsAssumption, ReaderOK, NEW marks, NEW n \in Nat, NEW t, Written(t, n, marks)
  PROVE  /\ Record!Chunks(t) \in Seq(PieceSet) /\ Pieced(BodyOf(Record!Chunks(t)), 0, n, marks)
         /\ \A i \in DOMAIN BodyOf(Record!Chunks(t)) :
              IF member.family = "decision" THEN Len(BodyOf(Record!Chunks(t))[i].text) <= MaxChars
              ELSE Record!Contextualized(BodyOf(Record!Chunks(t))[i].text) <= MaxChars
                   \/ Record!Line \notin Record!Range(BodyOf(Record!Chunks(t))[i].text)
         /\ member.family = "decision" => \A i \in 1..Len(Record!Chunks(t)) : Record!ValidChunk(Record!Chunks(t)[i])
<1> DEFINE c == Record!Chunks(t)
           b == BodyOf(c)
<1>1. CASE member.family = "decision"
  <2>1. c = Record!DecisionChunks(t)
    BY <1>1 DEF Record!Chunks
  <2>2. /\ c \in Seq(PieceSet) /\ Pieced(b, 0, n, marks)
        /\ \A i \in 1..Len(b) : Len(b[i].text) <= MaxChars
        /\ \A i \in 1..Len(c) : HasLetter(c[i].text)
    BY <2>1, DecisionChunksAre DEF ReaderOK
  <2> HIDE DEF c
  <2>3. \A i \in 1..Len(c) : Record!ValidChunk(c[i])
    <3>1. \A i \in 1..Len(c) : c[i] \in PieceSet
      BY <2>2
    <3>2. \A x \in PieceSet : x.text \in Record!Texts
      BY DEF PieceSet
    <3> QED
      BY <2>2, <3>1, <3>2, TrimEndOfLetters DEF Record!ValidChunk
  <2>4. DOMAIN b = 1..Len(b)
    BY <2>2 DEF Pieced
  <2> HIDE DEF b
  <2> QED
    BY <1>1, <2>2, <2>3, <2>4 DEF b, c
<1>2. CASE member.family # "decision"
  <2>1. c = Record!ArticleChunks(t)
    BY <1>2 DEF Record!Chunks
  <2>2. member.context \in Nat
    BY DEF ReaderOK, Record!Members, Record!BoundsAssumption
  <2>3. Pieced(c, 0, n, marks) /\ \A i \in 1..Len(c) : FitGroup(c[i])
    BY <2>1, <2>2, ArticleChunksAre
  <2> HIDE DEF c
  <2>4. c \in Seq(PieceSet) /\ DOMAIN c = 1..Len(c)
    BY <2>3 DEF Pieced
  <2>5. b = c
    BY <2>3, <2>4, NoHead DEF FitGroup
  <2>6. \A i \in 1..Len(c) : Record!Contextualized(c[i].text) <= MaxChars \/ Record!Line \notin Record!Range(c[i].text)
    <3> SUFFICES ASSUME NEW i \in 1..Len(c),
                        OneLine(c[i].text) PROVE Record!Line \notin Record!Range(c[i].text)
      BY <2>3 DEF FitGroup
    <3>1. c[i].text \in Record!Texts
      <4>1. c[i] \in PieceSet
        BY <2>4
      <4>2. \A x \in PieceSet : x.text \in Record!Texts
        BY DEF PieceSet
      <4> QED
        BY <4>1, <4>2
    <3> DEFINE x == c[i].text
    <3>2. x \in Record!Texts /\ OneLine(x)
      BY <3>1
    <3> HIDE DEF x
    <3>3. DOMAIN x = 1..Len(x)
      BY <3>2 DEF Record!Texts
    <3>4. Record!Line \notin Record!Range(x)
      BY <3>2, <3>3 DEF Record!Range, OneLine
    <3> QED
      BY <3>4 DEF x
  <2> HIDE DEF b
  <2> QED
    BY <1>2, <2>3, <2>4, <2>5, <2>6 DEF b, c
<1> QED
  BY <1>1, <1>2

LEMMA VerdictIs ==
  ASSUME NEW t,
         member.family = "decision" /\ Record!TrimEnd(t) # <<>> => Record!IsValid(t, Record!Chunks(t))
  PROVE  /\ Record!Verdict(t) \in {"Inserted", "Skipped", "Failed"}
         /\ Record!Verdict(t) = "Inserted" => Record!TrimEnd(t) # <<>>
<1> DEFINE d == Record!DecisionVerdict(t)
           a == Record!ArticleVerdict(t)
           blank == Record!TrimEnd(t) = <<>>
           valid == Record!IsValid(t, Record!Chunks(t))
<1>1. CASE member.root = "unsupported"
  <2>1. Record!Verdict(t) = "Skipped"
    BY <1>1 DEF Record!Verdict
  <2> QED
    BY <2>1
<1>2. CASE member.root # "unsupported" /\ member.family = "decision"
  <2>1. Record!Verdict(t) = d
    BY <1>2 DEF Record!Verdict
  <2>2. d \in {"Inserted", "Skipped", "Failed"} /\ (d = "Inserted" => ~blank)
    <3>1. ~blank => valid
      BY <1>2
    <3>2. d = IF member.root = "other" \/ ~member.metadata THEN "Failed"
              ELSE IF blank THEN "Skipped" ELSE IF valid THEN "Inserted" ELSE "Aborted"
      BY DEF Record!DecisionVerdict
    <3> HIDE DEF d, blank, valid
    <3> QED
      BY <3>1, <3>2
  <2> QED
    BY <2>1, <2>2
<1>3. CASE member.root # "unsupported" /\ member.family # "decision"
  <2>1. Record!Verdict(t) = a
    BY <1>3 DEF Record!Verdict
  <2>2. a \in {"Inserted", "Skipped", "Failed"} /\ (a = "Inserted" => ~blank)
    <3>1. valid => ~blank
      BY DEF Record!IsValid
    <3>2. a = IF ~member.metadata THEN "Failed"
              ELSE IF blank THEN "Skipped" ELSE IF valid THEN "Inserted" ELSE "Failed"
      BY DEF Record!ArticleVerdict
    <3> HIDE DEF a, blank, valid
    <3> QED
      BY <3>1, <3>2
  <2> QED
    BY <2>1, <2>2
<1> QED
  BY <1>1, <1>2, <1>3

LEMMA EofOK ==
  ASSUME Record!BoundsAssumption, RecordInv, Record!Eof
  PROVE  RecordInv'
<1> DEFINE t == Record!Canonical(body)
           c == Record!Chunks(t)
           n == Len(read)
<1>1. ReaderOK /\ status = "reading" /\ BodyHolds(body, read, separation)
  BY DEF RecordInv, Record!Eof, ReaderOK
<1>2. /\ status' = Record!Verdict(t) /\ pieces' = (IF status' = "Inserted" THEN c ELSE <<>>)
      /\ body' = t /\ member' = member /\ stack' = stack /\ summary' = summary
      /\ summaries' = summaries /\ read' = read /\ separation' = separation
  BY DEF Record!Eof
<1>3. n \in Nat /\ read \in Seq(Record!Pending)
  BY <1>1 DEF ReaderOK
<1>4. Written(t, n, read)
  BY <1>1, <1>3, CanonicalIs DEF BodyHolds
<1>5. t \in Record!Texts
  BY <1>4 DEF Written, Segment
<1>6. /\ c \in Seq(PieceSet) /\ Pieced(BodyOf(c), 0, n, read)
      /\ \A i \in DOMAIN BodyOf(c) :
           IF member.family = "decision" THEN Len(BodyOf(c)[i].text) <= MaxChars
           ELSE Record!Contextualized(BodyOf(c)[i].text) <= MaxChars \/ Record!Line \notin Record!Range(BodyOf(c)[i].text)
      /\ member.family = "decision" => \A i \in 1..Len(c) : Record!ValidChunk(c[i])
  BY <1>1, <1>3, <1>4, ChunksAre
<1>7. status' \in {"Inserted", "Skipped", "Failed"}
      /\ (status' = "Inserted" => Record!TrimEnd(t) # <<>>)
  <2>1. member.family = "decision" /\ Record!TrimEnd(t) # <<>> => Record!IsValid(t, c)
    <3>1. member.family = "decision" => \A i \in DOMAIN c : Record!ValidChunk(c[i])
      BY <1>6
    <3> HIDE DEF c
    <3> QED
      BY <3>1 DEF Record!IsValid
  <2>2. Record!Verdict(t) \in {"Inserted", "Skipped", "Failed"}
        /\ (Record!Verdict(t) = "Inserted" => Record!TrimEnd(t) # <<>>)
    <3> HIDE DEF t
    <3> QED
      BY <2>1, VerdictIs
  <2> QED
    BY <1>2, <2>2
<1>8. pieces' \in Seq(PieceSet)
  BY <1>2, <1>6
<1>9. Summarised'
  BY <1>1, <1>2 DEF ReaderOK, Summarised
<1>10. ReaderOK'
  BY <1>1, <1>2, <1>5, <1>7, <1>8, <1>9 DEF ReaderOK
<1>11. Record!BodyChunks' = BodyOf(pieces')
  BY DEF Record!BodyChunks, BodyOf
<1>12. status' = "Inserted" => n # 0
  <2> SUFFICES ASSUME status' = "Inserted", n = 0 PROVE FALSE
    OBVIOUS
  <2>1. t # <<>>
    <3> SUFFICES ASSUME t = <<>> PROVE FALSE
      OBVIOUS
    <3>1. Record!TrimEnd(<<>>) # <<>>
      BY <1>7
    <3>2. EndsInLetter(<<>>) => FALSE
      BY DEF EndsInLetter
    <3>3. \E i \in 1..Len(<<>>) : ~Record!IsBlank(<<>>[i])
      BY <1>5, <3>1, TrimEndType
    <3> QED
      BY <3>3
  <2>2. Len(t) \in 1..Len(t) /\ ~Record!IsBlank(t[Len(t)])
    BY <1>4, <1>5, <2>1 DEF Written, EndsInLetter, Record!Texts
  <2>3. t[Len(t)] \in (0 + 1)..n
    BY <1>4, <2>2 DEF Written, Segment, Covers
  <2> QED
    BY <2>3
<1>13. Record!TextSurvives'
  <2> SUFFICES ASSUME status' = "Inserted" PROVE Record!TextSurvives'
    BY DEF Record!TextSurvives
  <2>1. pieces' = c /\ Record!BodyChunks' = BodyOf(c)
    BY <1>2, <1>11
  <2>2. SurvivesIn(BodyOf(c), read)
    BY <1>3, <1>6, <1>12, PiecedSurvives
  <2>3. SurvivesIn(Record!BodyChunks', read')
    BY <1>2, <2>1, <2>2
  <2> QED
    BY <2>3 DEF SurvivesIn, Record!TextSurvives, Record!Stored
<1>14. Record!NeverAborts'
  BY <1>7 DEF Record!NeverAborts
<1>15. Record!WithinBudget'
  <2>1. CASE status' = "Inserted"
    <3>1. Record!BodyChunks' = BodyOf(c)
      BY <1>2, <1>11, <2>1
    <3> HIDE DEF c
    <3> QED
      BY <1>2, <1>6, <3>1 DEF Record!WithinBudget, Record!Contextualized
  <2>2. CASE status' # "Inserted"
    <3>1. Record!BodyChunks' = <<>>
      BY <1>2, <2>2 DEF Record!BodyChunks
    <3>2. DOMAIN Record!BodyChunks' = {}
      BY <3>1
    <3> QED
      BY <3>2 DEF Record!WithinBudget
  <2> QED
    BY <2>1, <2>2
<1> QED
  BY <1>10, <1>13, <1>14, <1>15 DEF RecordInv

LEMMA NextOK ==
  ASSUME Record!BoundsAssumption, RecordInv, [Record!Next]_(Record!chunkingVars)
  PROVE  RecordInv'
<1>1. CASE Record!Next
  <2>1. ASSUME NEW name \in {Record!Block, Record!Inline, Record!Contenu, Record!Summary},
               Record!Start(name) PROVE RecordInv'
    BY <2>1, StartOK DEF ElementNames
  <2>2. ASSUME NEW name \in {Record!Block, Record!Inline}, Record!Empty(name) PROVE RecordInv'
    BY <2>2, EmptyOK
  <2>3. CASE Record!End
    BY <2>3, EndOK
  <2>4. ASSUME NEW piece \in Pieces, Record!Text(piece) PROVE RecordInv'
    BY <2>4, TextOK
  <2>5. CASE Record!Eof
    BY <2>5, EofOK
  <2> QED
    BY <1>1, <2>1, <2>2, <2>3, <2>4, <2>5 DEF Record!Next
<1>2. CASE UNCHANGED Record!chunkingVars
  <2>1. Record!BodyChunks' = Record!BodyChunks
    BY <1>2 DEF Record!chunkingVars, Record!BodyChunks
  <2>2. Record!Stored' = Record!Stored
    BY <2>1 DEF Record!Stored
  <2>3. ReaderOK'
    BY <1>2 DEF RecordInv, ReaderOK, Summarised, Record!chunkingVars
  <2>4. Record!TextSurvives'
    BY <1>2, <2>1, <2>2 DEF RecordInv, Record!TextSurvives, Record!chunkingVars
  <2>5. Record!NeverAborts'
    BY <1>2 DEF RecordInv, Record!NeverAborts, Record!chunkingVars
  <2>6. Record!WithinBudget'
    BY <1>2, <2>1 DEF RecordInv, Record!WithinBudget, Record!Contextualized, Record!chunkingVars
  <2> QED
    BY <2>3, <2>4, <2>5, <2>6 DEF RecordInv
<1> QED
  BY <1>1, <1>2

(* Every reachable state of a record is well typed: its member, what the   *)
(* reader has open and has read, and the chunks built (parse_juri_xml,     *)
(* split_body, build_article_chunks).                                      *)
LEMMA ReaderIsTyped == ReaderOK => Record!TypeOK
<1> SUFFICES ASSUME ReaderOK PROVE Record!TypeOK
  OBVIOUS
<1>1. member \in Record!Members
      /\ stack \in Seq({Record!Block, Record!Inline, Record!Contenu, Record!Summary})
      /\ body \in Record!Texts
  BY DEF ReaderOK, ElementNames
<1>2. status \in {"reading", "Inserted", "Skipped", "Failed", "Aborted"}
  BY DEF ReaderOK
<1>3. \A i \in DOMAIN pieces : pieces[i].boundary \in Record!Boundaries
  <2>1. pieces \in Seq(PieceSet)
    BY DEF ReaderOK
  <2>2. \A i \in DOMAIN pieces : pieces[i] \in PieceSet
    BY <2>1
  <2>3. \A x \in PieceSet : x.boundary \in Record!Boundaries
    BY DEF PieceSet
  <2> QED
    BY <2>2, <2>3
<1> QED
  BY <1>1, <1>2, <1>3 DEF Record!TypeOK

(* A record that is stored has every letter of its body, in order and      *)
(* apart where the source sets them apart, in chunks under the budget, and *)
(* no record aborts the run of its archive: for any texts, tags, context   *)
(* and budget (append_xml_content to insert_decision_documents).           *)
THEOREM RecordSurvives ==
  ASSUME Record!BoundsAssumption
  PROVE  Record!Spec => [](Record!TypeOK /\ Record!TextSurvives /\ Record!NeverAborts /\ Record!WithinBudget)
<1>1. Record!Init => RecordInv
  BY StartsOK
<1>2. RecordInv /\ [Record!Next]_(Record!chunkingVars) => RecordInv'
  BY NextOK
<1>3. RecordInv => Record!TypeOK /\ Record!TextSurvives /\ Record!NeverAborts /\ Record!WithinBudget
  BY ReaderIsTyped DEF RecordInv
<1> QED
  BY <1>1, <1>2, <1>3, PTL DEF Record!Spec

-----------------------------------------------------------------------------
(* The publication: what holds of its parts holds of it.                   *)

LEMMA PartsMove ==
  ASSUME [SuiteNext]_suiteVars
  PROVE  /\ [Next]_vars /\ [Projection!Next]_(Projection!vars)
         /\ [Record!Next]_(Record!chunkingVars)
<1>1. /\ Next \/ UNCHANGED vars
      /\ Projection!Next \/ UNCHANGED legiVars
      /\ Record!Next \/ UNCHANGED recordVars
  <2>1. CASE UNCHANGED suiteVars
    BY <2>1 DEF suiteVars
  <2>2. CASE SuiteNext
    BY <2>2 DEF SuiteNext, InCycle, InLegi, InRecord
  <2> QED
    BY <2>1, <2>2
<1>2. UNCHANGED legiVars => UNCHANGED Projection!vars
  BY DEF legiVars, Projection!vars, Projection!storeVars
<1>3. UNCHANGED recordVars => UNCHANGED Record!chunkingVars
  BY DEF recordVars, Record!chunkingVars
<1> QED
  BY <1>1, <1>2, <1>3

LEMMA SuiteHasParts == SuiteSpec => Spec /\ Projection!Spec /\ Record!Spec
<1>1. SuiteInit => Init /\ Projection!Init /\ Record!Init
  BY DEF SuiteInit
<1>2. [SuiteNext]_suiteVars =>
        /\ [Next]_vars /\ [Projection!Next]_(Projection!vars)
        /\ [Record!Next]_(Record!chunkingVars)
  BY PartsMove
<1> QED
  BY <1>1, <1>2, PTL DEF SuiteSpec, Spec, Projection!Spec, Record!Spec

LEMMA ProjectionFacts ==
  /\ Projection!Spec => []Projection!TypeOK
  /\ Projection!Spec => []Projection!IndexCarriesTheText
  /\ Projection!Spec => []Projection!HierarchySettles
BY ProjectionAssumption, Projection!TypeCorrect, Projection!IndexCarriesTheTextAlways,
   Projection!HierarchySettlesAlways

LEMMA RecordFacts ==
  Record!Spec => [](Record!TypeOK /\ Record!TextSurvives /\ Record!NeverAborts /\ Record!WithinBudget)
BY RecordAssumption, RecordSurvives

(* What the variables of the producer may hold: cycle, projection, record. *)
THEOREM TypesOKAlways == SuiteSpec => []TypesOK
BY SuiteHasParts, TypeCorrect, ProjectionFacts, RecordFacts, PTL DEF TypesOK

(* The text of an article and its place in its code reach the index whole  *)
(* (legi.rs, hierarchy_backfill.rs, embedding.rs), and the text of a       *)
(* record its chunks, whatever it is (xml.rs, chunks.rs, decisions.rs).    *)
THEOREM ProjectionHoldsAlways == SuiteSpec => []ProjectionHolds
BY SuiteHasParts, ProjectionFacts, RecordFacts, PTL DEF ProjectionHolds
=============================================================================
