------------------------- MODULE ProducerSuite_proofs -------------------------
(***************************************************************************)
(* The producer does what it says, for any chunks, workers, endpoints,     *)
(* decisions, articles, documents, models and sizes of its pages, and any  *)
(* faults: each part by an inductive invariant of its own, and the suite   *)
(* because a part that does not run stands still.                          *)
(***************************************************************************)
EXTENDS ProducerSuite, FiniteSetTheorems, SequenceTheorems, WellFoundedInduction, TLAPS

-----------------------------------------------------------------------------
(* The mirror.  Downloads are taken oldest first, so that a delta which is *)
(* missing below a mirrored archive has left the listing for good.         *)

FetchFollowsRun ==
  /\ fetch.busy <=> run.pc = "fetch"
  /\ fetch.todo \subseteq Listing
  /\ fetch.busy => Listing \subseteq fetch.todo \cup mirror \cup rejected

NothingEarly == \A a \in mirror : a <= now

NoHole ==
  \A a \in mirror, d \in Deltas :
    d < a /\ d \notin mirror \cup rejected => d + Keep <= now

JournalIsMirrored ==
  /\ seeded <= journal /\ journal <= now
  /\ seeded < journal => journal \in mirror

MirrorIsSound == FetchFollowsRun /\ NothingEarly /\ NoHole /\ JournalIsMirrored

-----------------------------------------------------------------------------
(* What was read.  The newest baseline of the mirror is where every walk   *)
(* starts, so that nothing older ever overwrites what it wrote.            *)

OnlyMirroredRead == \A a \in Archives, d \in Docs : member[a][d] # None => a \in mirror

BaselineHeld ==
  \A b \in Baselines, d \in Docs : member[b][d] # None /\ member[b][d].ok => stored[d] >= b

-----------------------------------------------------------------------------
(* The run.                                                                *)

Read(a, d) == member[a][d] # None /\ (~run.bad => member[a][d].ok)

(* The walk follows its plan: what is not left has been read.              *)
WalkFollowsPlan ==
  run.pc = "ingest" =>
    /\ run.order # "from_db" /\ run.base = NewBaseline /\ run.full = Full
    /\ PlannedBaseline # 0 /\ run.top = Newest(Selected)
    /\ run.left \subseteq Selected
    /\ \A a \in Selected \ run.left : \A d \in Carries[a] : Read(a, d)
    /\ run.docs = {} \/ run.docs \subseteq DocsOf(run.left)
    /\ run.left # {} => \A d \in DocsOf(run.left) \ run.docs : Read(Min(run.left), d)

(* An incremental walk starts at a journal that has not aged too much.     *)
JournalIsFresh ==
  /\ run.pc = "fetch" => run.order # "accept_stale"
  /\ run.pc = "ingest" /\ ~run.full => now <= journal + MaxStale \/ run.order = "accept_stale"
  /\ run.order = "accept_stale" /\ run.pc \in {"route", "ingest"} =>
       {d \in Deltas : journal < d /\ d <= now} \subseteq mirror

(* A rebaseline run has read the newest baseline of the mirror.            *)
RebaselineHasRead ==
  run.pc \in {"publish", "adopt"} /\ run.order # "from_db" /\ run.base # 0 =>
    /\ run.base <= PlannedBaseline
    /\ \A d \in Carries[PlannedBaseline] :
         member[PlannedBaseline][d] # None /\ member[PlannedBaseline][d].ok

RecordFollowsRun ==
  /\ run.pc # "idle" => last = "running" /\ run.order \in Orders
  /\ run.pc \in {"adopt", "seed"} => served = stored
  /\ run.pc = "adopt" => run.base # 0
  /\ run.pc = "seed" => run.order = "from_db"

RunIsSound == WalkFollowsPlan /\ JournalIsFresh /\ RebaselineHasRead /\ RecordFollowsRun

IInv ==
  /\ TypeOK /\ CursorIsMirrored /\ MirrorIsSound
  /\ OnlyMirroredRead /\ BaselineHeld /\ RunIsSound
  /\ JournalCoversMirror

-----------------------------------------------------------------------------
(* Instants.                                                               *)

(* A set of numbers that is not empty has a least one ...                  *)
LEMMA LeastExists ==
  ASSUME NEW T \in SUBSET Nat, T # {}
  PROVE  \E x \in T : \A y \in T : x <= y
<1> DEFINE R == {ss \in Nat \X Nat : ss[1] < ss[2]}
<1>1. IsWellFoundedOn(R, Nat)
  BY NatLessThanWellFounded DEF OpToRel
<1>2. \A x, y \in Nat : <<y, x>> \in R <=> y < x
  OBVIOUS
<1> HIDE DEF R
<1>3. PICK x \in T : \A y \in T : ~(<<y, x>> \in R)
  BY <1>1, WFMin
<1>4. ASSUME NEW y \in T PROVE x <= y
  <2>1. x \in Nat /\ y \in Nat
    OBVIOUS
  <2>2. ~(y < x)
    BY <1>2, <1>3, <2>1, Zenon
  <2> QED BY <2>1, <2>2
<1> QED BY <1>4

(* ... and, when it is bounded, a greatest one: its least upper bound.     *)
LEMMA GreatestExists ==
  ASSUME NEW T \in SUBSET Nat, T # {}, NEW n \in Nat, \A y \in T : y <= n
  PROVE  \E x \in T : \A y \in T : y <= x
<1> DEFINE U == {u \in Nat : \A y \in T : y <= u}
<1>1. PICK m \in U : \A u \in U : m <= u
  <2>1. n \in U
    OBVIOUS
  <2> HIDE DEF U
  <2>2. U \in SUBSET Nat
    BY DEF U
  <2> QED BY <2>1, <2>2, LeastExists
<1>2. m \in Nat /\ \A y \in T : y <= m
  OBVIOUS
<1>3. m \in T
  <2> SUFFICES ASSUME m \notin T PROVE FALSE
    OBVIOUS
  <2>1. PICK t \in T : TRUE
    OBVIOUS
  <2>2. m # 0
    BY <2>1, <1>2
  <2>3. m - 1 \in U
    BY <2>2, <1>2
  <2> QED BY <2>3, <1>1, <1>2
<1> QED BY <1>2, <1>3

(* Newest and Min are the bounds of a set of archives.                     *)
LEMMA NewestFacts ==
  ASSUME NEW S \in SUBSET (0..MaxTime)
  PROVE  /\ Newest(S) \in Nat /\ Newest(S) \in 0..MaxTime
         /\ \A y \in S : y <= Newest(S)
         /\ S # {} => Newest(S) \in S
         /\ S = {} => Newest(S) = 0
<1>0. MaxTime \in Nat
  BY ArchivesAssumption
<1>1. CASE S = {}
  BY <1>0, <1>1 DEF Newest
<1>2. CASE S # {}
  <2>1. S \in SUBSET Nat /\ \A y \in S : y <= MaxTime
    BY <1>0
  <2>2. \E x \in S : \A y \in S : y <= x
    BY <1>0, <1>2, <2>1, GreatestExists
  <2>3. \E x \in S : \A y \in S : x >= y
    BY <2>1, <2>2
  <2>4. Max(S) \in S /\ \A y \in S : Max(S) >= y
    BY <2>3 DEF Max
  <2>5. Newest(S) = Max(S)
    BY <1>2 DEF Newest
  <2> QED BY <1>0, <1>2, <2>1, <2>4, <2>5
<1> QED BY <1>1, <1>2

LEMMA MinFacts ==
  ASSUME NEW S \in SUBSET Nat, S # {}
  PROVE  Min(S) \in S /\ \A y \in S : Min(S) <= y
BY LeastExists DEF Min

LEMMA ArchivesAreInstants ==
  /\ MaxTime \in Nat /\ 0 \in 0..MaxTime
  /\ Archives \subseteq 1..MaxTime /\ Archives \subseteq Nat /\ Archives \subseteq 0..MaxTime
  /\ \A a \in Archives : Carries[a] \in SUBSET Docs
  /\ Keep \in Nat /\ MaxStale \in Nat /\ MaxStale < Keep
BY ArchivesAssumption, RetentionAssumption DEF Archives

(* Every walk starts at the newest baseline of the mirror.                 *)
LEMMA PlannedFacts ==
  ASSUME TypeOK
  PROVE  /\ PlannedBaseline \in Nat /\ PlannedBaseline \in Baselines \cup {0}
         /\ PlannedBaseline # 0 => PlannedBaseline \in mirror
         /\ \A b \in mirror \cap Baselines : b <= PlannedBaseline
         /\ PlannedBaseline # 0 =>
              Selected \subseteq mirror /\ \A a \in Selected : PlannedBaseline <= a
         /\ Full => PlannedBaseline \in Selected
<1>1. mirror \cap Baselines \in SUBSET (0..MaxTime)
  BY ArchivesAreInstants DEF TypeOK, FetchTypeOK, Archives
<1>2. /\ PlannedBaseline \in Nat /\ \A b \in mirror \cap Baselines : b <= PlannedBaseline
      /\ mirror \cap Baselines # {} => PlannedBaseline \in mirror \cap Baselines
      /\ mirror \cap Baselines = {} => PlannedBaseline = 0
  BY <1>1, NewestFacts DEF PlannedBaseline
<1>3. \A a \in mirror : a \in Nat
  BY ArchivesAreInstants DEF TypeOK, FetchTypeOK
<1>4. PlannedBaseline # 0 =>
        Selected \subseteq mirror /\ \A a \in Selected : PlannedBaseline <= a
  BY <1>2, <1>3 DEF Selected
<1>5. Full => PlannedBaseline \in Selected
  BY DEF Selected
<1> QED BY <1>2, <1>4, <1>5

(* The mirror only grows, and its newest baseline with it.                 *)
LEMMA PlannedGrows ==
  ASSUME TypeOK, TypeOK', mirror \subseteq mirror'
  PROVE  PlannedBaseline <= PlannedBaseline' /\ PlannedBaseline \in Nat /\ PlannedBaseline' \in Nat
<1>1. mirror \cap Baselines \in SUBSET (0..MaxTime) /\ mirror' \cap Baselines \in SUBSET (0..MaxTime)
  BY ArchivesAreInstants DEF TypeOK, FetchTypeOK, Archives
<1>2. \A S, U \in SUBSET (0..MaxTime) :
        S \subseteq U => Newest(S) <= Newest(U) /\ Newest(S) \in Nat /\ Newest(U) \in Nat
  <2> SUFFICES ASSUME NEW S \in SUBSET (0..MaxTime), NEW U \in SUBSET (0..MaxTime), S \subseteq U
               PROVE  Newest(S) <= Newest(U) /\ Newest(S) \in Nat /\ Newest(U) \in Nat
    OBVIOUS
  <2>1. /\ Newest(S) \in Nat
        /\ S # {} => Newest(S) \in S
        /\ S = {} => Newest(S) = 0
        /\ Newest(U) \in Nat /\ \A y \in U : y <= Newest(U)
    BY NewestFacts
  <2> QED BY <2>1
<1>3. Newest(mirror \cap Baselines) <= Newest(mirror' \cap Baselines)
      /\ Newest(mirror \cap Baselines) \in Nat /\ Newest(mirror' \cap Baselines) \in Nat
  BY <1>1, <1>2
<1> QED BY <1>3 DEF PlannedBaseline

(* What is planned depends on the mirror, the cursor and the books.        *)
LEMMA PlanStays ==
  ASSUME UNCHANGED <<mirror, cursor, adopted, journal>>, run'.order = run.order
  PROVE  /\ PlannedBaseline' = PlannedBaseline /\ NewBaseline' = NewBaseline
         /\ Full' = Full /\ Selected' = Selected
<1>1. PlannedBaseline' = PlannedBaseline
  BY DEF PlannedBaseline
<1>2. FetchedBaseline' = FetchedBaseline
  BY DEF FetchedBaseline
<1>3. Pending' = Pending
  BY <1>2 DEF Pending
<1>4. NewBaseline' = NewBaseline
  BY <1>2, <1>3 DEF NewBaseline
<1>5. Full' = Full
  BY <1>4 DEF Full
<1> QED BY <1>1, <1>4, <1>5 DEF Selected

(* A step that leaves the fetch alone.                                     *)
LEMMA MirrorStays ==
  ASSUME MirrorIsSound, CursorIsMirrored, UNCHANGED <<fetchVars, journal, seeded>>,
         run.pc = "fetch" <=> run'.pc = "fetch"
  PROVE  MirrorIsSound' /\ CursorIsMirrored'
<1>1. UNCHANGED <<now, mirror, cursor, rejected, fetch>>
  BY DEF fetchVars
<1>2. Listing' = Listing
  BY <1>1 DEF Listing
<1> QED BY <1>1, <1>2 DEF MirrorIsSound, FetchFollowsRun, NothingEarly, NoHole, JournalIsMirrored,
                         CursorIsMirrored

(* The books stay as they are while nothing is read or downloaded.         *)
LEMMA BooksStay ==
  ASSUME OnlyMirroredRead, BaselineHeld, JournalCoversMirror,
         UNCHANGED <<mirror, member, stored, journal, seeded>>, rejected \subseteq rejected'
  PROVE  OnlyMirroredRead' /\ BaselineHeld' /\ JournalCoversMirror'
<1>1. PlannedBaseline' = PlannedBaseline
  BY DEF PlannedBaseline
<1> QED BY <1>1 DEF OnlyMirroredRead, BaselineHeld, JournalCoversMirror, Visited

LEMMA IdleTyped ==
  Idle \in RunType /\ Idle.pc = "idle" /\ Idle.order = None
BY ArchivesAreInstants DEF Idle, RunType

LEMMA IdleIsSound ==
  ASSUME run' = Idle
  PROVE  RunIsSound'
BY IdleTyped DEF RunIsSound, WalkFollowsPlan, JournalIsFresh, RebaselineHasRead, RecordFollowsRun

LEMMA BaselineTyped ==
  ASSUME TypeOK
  PROVE  /\ FetchedBaseline \in Baselines \cup {0}
         /\ NewBaseline \in Baselines \cup {0}
         /\ FetchedBaseline # 0 => FetchedBaseline \in cursor
<1>1. cursor \cap Baselines \in SUBSET (0..MaxTime)
  BY ArchivesAreInstants DEF TypeOK, FetchTypeOK
<1>2. /\ FetchedBaseline \in Baselines \cup {0}
      /\ FetchedBaseline # 0 => FetchedBaseline \in cursor
  BY <1>1, NewestFacts DEF FetchedBaseline
<1> QED BY <1>2 DEF NewBaseline, TypeOK

LEMMA DocsOfTyped ==
  ASSUME NEW S \in SUBSET Archives
  PROVE  DocsOf(S) \in SUBSET Docs
BY MinFacts, ArchivesAreInstants DEF DocsOf

-----------------------------------------------------------------------------
(* A run that ends, in order or not, leaves the books alone.               *)

LEMMA EndKeeps ==
  ASSUME IInv, run' = Idle, last' \in {"success", "failure"} \/ UNCHANGED last,
         UNCHANGED <<fetchVars, release, dbVars>>, run.pc # "fetch",
         adopted' \in Baselines \cup {0},
         served' \in {served, stored}, faults' \in 0..MaxFaults
  PROVE  IInv'
<1>1. UNCHANGED <<now, mirror, cursor, rejected, fetch, release, member, stored, journal, seeded>>
  BY DEF fetchVars, dbVars
<1>2. TypeOK'
  BY <1>1, IdleTyped DEF IInv, TypeOK, FetchTypeOK
<1>3. MirrorIsSound' /\ CursorIsMirrored'
  BY <1>1, MirrorStays, IdleTyped DEF IInv, fetchVars
<1>4. OnlyMirroredRead' /\ BaselineHeld' /\ JournalCoversMirror'
  BY <1>1, BooksStay DEF IInv
<1> QED BY <1>2, <1>3, <1>4, IdleIsSound DEF IInv

(* The ends of a run that leave the fetch and the database alone.          *)
LEMMA StopKeeps ==
  ASSUME IInv, RouteFails \/ IngestFails \/ PublishFails
  PROVE  IInv'
<1>1. /\ run' = Idle /\ last' = "failure" /\ run.pc # "fetch"
      /\ UNCHANGED <<fetchVars, release, dbVars, adopted, served>>
      /\ UNCHANGED faults \/ (faults < MaxFaults /\ faults' = faults + 1)
  BY DEF RouteFails, IngestFails, PublishFails, EndRun, Fault
<1>2. faults' \in 0..MaxFaults
  BY <1>1, BoundsAssumption DEF IInv, TypeOK
<1>3. adopted' \in Baselines \cup {0}
  BY <1>1 DEF IInv, TypeOK
<1> QED BY <1>1, <1>2, <1>3, EndKeeps

-----------------------------------------------------------------------------
(* The fetch.                                                              *)

LEMMA BeginKeeps ==
  ASSUME IInv, NEW o \in Orders, Begin(o)
  PROVE  IInv'
<1>1. /\ run.pc = "idle" /\ last' = "running"
      /\ UNCHANGED <<now, mirror, cursor, rejected, release, member, stored, journal, seeded, adopted,
                     served, faults>>
      /\ o = "accept_stale" => {d \in Deltas : journal < d /\ d <= now} \subseteq mirror
      /\ \/ /\ o \in {"skip_fetch", "from_db", "accept_stale"}
            /\ run' = [Idle EXCEPT !.pc = "route", !.order = o] /\ UNCHANGED fetch
         \/ /\ o \notin {"skip_fetch", "from_db", "accept_stale"}
            /\ run' = [Idle EXCEPT !.pc = "fetch", !.order = o]
            /\ fetch' = [busy |-> TRUE, todo |-> Listing \ cursor, mem |-> cursor]
  BY DEF Begin, StartFetch, fetchVars, dbVars
<1>2. run' \in RunType /\ run'.order = o /\ run'.pc \in {"route", "fetch"}
      /\ (run'.pc = "fetch" <=> o \notin {"skip_fetch", "from_db", "accept_stale"})
  BY <1>1, ArchivesAreInstants DEF Idle, RunType
<1>3. Listing \subseteq Archives
  BY DEF Listing, Archives
<1>4. TypeOK'
  <2>1. /\ now \in 0..MaxTime
        /\ mirror \subseteq Archives /\ cursor \subseteq Archives /\ rejected \subseteq Archives
        /\ fetch \in [busy : BOOLEAN, todo : SUBSET Archives, mem : SUBSET Archives]
        /\ fetch.busy \/ fetch = NotFetching
    BY DEF IInv, TypeOK, FetchTypeOK
  <2>2. ASSUME UNCHANGED fetch
        PROVE  FetchTypeOK'
    BY <1>1, <2>1, <2>2 DEF FetchTypeOK
  <2>3. ASSUME fetch' = [busy |-> TRUE, todo |-> Listing \ cursor, mem |-> cursor]
        PROVE  FetchTypeOK'
    <3>1. fetch'.busy
      BY <2>3
    <3>2. fetch' \in [busy : BOOLEAN, todo : SUBSET Archives, mem : SUBSET Archives]
      BY <1>3, <2>1, <2>3
    <3> QED BY <1>1, <2>1, <3>1, <3>2 DEF FetchTypeOK
  <2>4. FetchTypeOK'
    BY <1>1, <2>2, <2>3
  <2> QED BY <1>1, <1>2, <2>4 DEF IInv, TypeOK
<1>5. MirrorIsSound' /\ CursorIsMirrored'
  <2>1. Listing' = Listing
    BY <1>1 DEF Listing
  <2>2. cursor \subseteq mirror /\ ~fetch.busy /\ fetch.todo \subseteq Listing
    BY <1>1 DEF IInv, CursorIsMirrored, MirrorIsSound, FetchFollowsRun
  <2>3. FetchFollowsRun' /\ CursorIsMirrored'
    BY <1>1, <1>2, <2>1, <2>2 DEF FetchFollowsRun, CursorIsMirrored, IInv
  <2> QED BY <1>1, <2>3 DEF IInv, MirrorIsSound, NothingEarly, NoHole, JournalIsMirrored
<1>6. OnlyMirroredRead' /\ BaselineHeld' /\ JournalCoversMirror'
  BY <1>1, BooksStay DEF IInv
<1>7. RunIsSound'
  BY <1>1, <1>2
  DEF RunIsSound, WalkFollowsPlan, JournalIsFresh, RebaselineHasRead, RecordFollowsRun
<1> QED BY <1>4, <1>5, <1>6, <1>7 DEF IInv

LEMMA FetchingKeeps ==
  ASSUME IInv, Fetching
  PROVE  IInv'
<1> DEFINE a == Min(fetch.todo)
<1>1. /\ run.pc = "fetch" /\ fetch.todo # {} /\ mirror' = mirror \cup {a}
      /\ fetch' = [fetch EXCEPT !.todo = @ \ {a}, !.mem = @ \cup {a}]
      /\ UNCHANGED <<now, cursor, rejected, release, member, stored, journal, seeded, adopted, served,
                     run, last, faults>>
  BY DEF Fetching, Download, dbVars
<1>2. /\ fetch \in [busy : BOOLEAN, todo : SUBSET Archives, mem : SUBSET Archives]
      /\ fetch.todo \subseteq Listing /\ fetch.busy /\ Listing \subseteq fetch.todo \cup mirror \cup rejected
  BY <1>1 DEF IInv, TypeOK, FetchTypeOK, MirrorIsSound, FetchFollowsRun
<1>3. a \in fetch.todo /\ \A y \in fetch.todo : a <= y
  BY <1>1, <1>2, MinFacts, ArchivesAreInstants
<1> HIDE DEF a
<1>4. a \in Archives /\ a \in Nat /\ a \in Listing /\ a <= now /\ now \in Nat
  BY <1>2, <1>3, ArchivesAreInstants DEF Listing, IInv, TypeOK, FetchTypeOK
<1>5. Listing' = Listing
  BY <1>1 DEF Listing
<1>6. /\ fetch'.todo = fetch.todo \ {a} /\ fetch'.mem = fetch.mem \cup {a} /\ fetch'.busy
      /\ fetch' \in [busy : BOOLEAN, todo : SUBSET Archives, mem : SUBSET Archives]
  BY <1>1, <1>2, <1>4
<1>7. TypeOK'
  BY <1>1, <1>4, <1>6 DEF IInv, TypeOK, FetchTypeOK
<1>8. CursorIsMirrored'
  BY <1>1, <1>6 DEF IInv, CursorIsMirrored
(* A delta that is missing below the new archive is no longer listed.      *)
<1>9. NoHole'
  <2> SUFFICES ASSUME NEW x \in mirror', NEW d \in Deltas, d < x, d \notin mirror' \cup rejected
               PROVE  d + Keep <= now
    BY <1>1 DEF NoHole
  <2>0. d \in Nat
    BY ArchivesAreInstants DEF Archives
  <2>1. CASE x \in mirror
    BY <1>1, <2>1 DEF IInv, MirrorIsSound, NoHole
  <2>2. CASE x = a
    <3>1. d \notin fetch.todo
      BY <1>3, <1>4, <2>0, <2>2
    <3>2. d \notin Listing
      BY <1>1, <1>2, <3>1
    <3>3. d <= now
      BY <1>4, <2>0, <2>2
    <3> QED BY <1>4, <2>0, <3>2, <3>3, ArchivesAreInstants DEF Listing
  <2> QED BY <1>1, <2>1, <2>2
<1>10. MirrorIsSound'
  <2>1. FetchFollowsRun' /\ NothingEarly' /\ JournalIsMirrored'
    BY <1>1, <1>2, <1>4, <1>5, <1>6
    DEF IInv, MirrorIsSound, FetchFollowsRun, NothingEarly, JournalIsMirrored
  <2> QED BY <1>9, <2>1 DEF MirrorIsSound
<1>11. OnlyMirroredRead' /\ BaselineHeld'
  BY <1>1 DEF IInv, OnlyMirroredRead, BaselineHeld
(* And so it is not one the journal has passed.                            *)
<1>12. JournalCoversMirror'
  <2> SUFFICES ASSUME NEW d \in mirror' \cap Deltas, PlannedBaseline' < d, seeded < d, d <= journal,
                      d \notin rejected
               PROVE  Visited(d)
    BY <1>1 DEF JournalCoversMirror, Visited
  <2>0. d \in Nat /\ journal \in Nat /\ seeded \in Nat
    BY ArchivesAreInstants DEF Archives, IInv, TypeOK
  <2>1. CASE d \in mirror
    <3>1. PlannedBaseline <= PlannedBaseline' /\ PlannedBaseline \in Nat /\ PlannedBaseline' \in Nat
      BY <1>1, <1>7, PlannedGrows DEF IInv
    <3>2. PlannedBaseline < d
      BY <2>0, <3>1
    <3> QED BY <2>1, <3>2 DEF IInv, JournalCoversMirror
  <2>2. CASE d \notin mirror
    <3>1. d = a
      BY <1>1, <2>2
    <3>2. journal \in mirror /\ d < journal
      BY <2>0, <2>2 DEF IInv, MirrorIsSound, JournalIsMirrored
    <3>3. d + Keep <= now
      BY <2>2, <3>2 DEF IInv, MirrorIsSound, NoHole
    <3>4. ~(now - d < Keep)
      BY <1>4, <2>0, <3>3, ArchivesAreInstants
    <3>5. d \in Baselines
      BY <1>4, <3>1, <3>4 DEF Listing
    <3> QED BY <3>5, ArchivesAssumption
  <2> QED BY <2>1, <2>2
<1>13. RunIsSound'
  BY <1>1 DEF IInv, RunIsSound, WalkFollowsPlan, JournalIsFresh, RebaselineHasRead, RecordFollowsRun
<1> QED BY <1>7, <1>8, <1>10, <1>11, <1>12, <1>13 DEF IInv

LEMMA FetchRejectsKeeps ==
  ASSUME IInv, FetchRejects
  PROVE  IInv'
<1> DEFINE a == Min(fetch.todo)
<1>1. /\ run.pc = "fetch" /\ fetch.todo # {} /\ rejected' = rejected \cup {a}
      /\ fetch' = [fetch EXCEPT !.todo = @ \ {a}]
      /\ UNCHANGED <<now, mirror, cursor, release, member, stored, journal, seeded, adopted, served,
                     run, last>>
      /\ faults < MaxFaults /\ faults' = faults + 1
  BY DEF FetchRejects, Quarantine, Fault, dbVars
<1>2. /\ fetch \in [busy : BOOLEAN, todo : SUBSET Archives, mem : SUBSET Archives]
      /\ fetch.todo \subseteq Listing /\ fetch.busy /\ Listing \subseteq fetch.todo \cup mirror \cup rejected
  BY <1>1 DEF IInv, TypeOK, FetchTypeOK, MirrorIsSound, FetchFollowsRun
<1>3. a \in fetch.todo
  BY <1>1, <1>2, MinFacts, ArchivesAreInstants
<1> HIDE DEF a
<1>4. a \in Archives
  BY <1>2, <1>3
<1>5. Listing' = Listing /\ PlannedBaseline' = PlannedBaseline
  BY <1>1 DEF Listing, PlannedBaseline
<1>6. /\ fetch'.todo = fetch.todo \ {a} /\ fetch'.mem = fetch.mem /\ fetch'.busy
      /\ fetch' \in [busy : BOOLEAN, todo : SUBSET Archives, mem : SUBSET Archives]
  BY <1>1, <1>2
<1>7. faults' \in 0..MaxFaults
  BY <1>1, BoundsAssumption DEF IInv, TypeOK
<1>8. TypeOK'
  BY <1>1, <1>4, <1>6, <1>7 DEF IInv, TypeOK, FetchTypeOK
<1>9. MirrorIsSound' /\ CursorIsMirrored'
  BY <1>1, <1>2, <1>5, <1>6
  DEF IInv, MirrorIsSound, FetchFollowsRun, NothingEarly, NoHole, JournalIsMirrored, CursorIsMirrored
<1>10. OnlyMirroredRead' /\ BaselineHeld' /\ JournalCoversMirror'
  BY <1>1, BooksStay DEF IInv
<1>11. RunIsSound'
  BY <1>1 DEF IInv, RunIsSound, WalkFollowsPlan, JournalIsFresh, RebaselineHasRead, RecordFollowsRun
<1> QED BY <1>8, <1>9, <1>10, <1>11 DEF IInv

(* A fetch that ends leaves the mirror as it is, and in the cursor what it *)
(* put there.                                                              *)
LEMMA FetchStops ==
  ASSUME IInv, UNCHANGED <<now, mirror, rejected, release, member, stored, journal, seeded, adopted, served>>,
         fetch' = NotFetching, cursor' \in {cursor, fetch.mem}, run'.pc # "fetch"
  PROVE  /\ FetchTypeOK' /\ MirrorIsSound' /\ CursorIsMirrored'
         /\ OnlyMirroredRead' /\ BaselineHeld' /\ JournalCoversMirror'
<1>1. fetch'.todo = {} /\ fetch'.mem = {} /\ ~fetch'.busy
  BY DEF NotFetching
<1>2. cursor' \subseteq mirror
  BY DEF IInv, CursorIsMirrored
<1>3. FetchTypeOK'
  BY <1>2 DEF IInv, TypeOK, FetchTypeOK, NotFetching
<1>4. MirrorIsSound' /\ CursorIsMirrored'
  BY <1>1, <1>2
  DEF IInv, MirrorIsSound, FetchFollowsRun, NothingEarly, NoHole, JournalIsMirrored, CursorIsMirrored
<1>5. OnlyMirroredRead' /\ BaselineHeld' /\ JournalCoversMirror'
  BY BooksStay DEF IInv
<1> QED BY <1>3, <1>4, <1>5

LEMMA FetchEndsKeeps ==
  ASSUME IInv, FetchEnds
  PROVE  IInv'
<1>1. /\ run.pc = "fetch" /\ fetch' = NotFetching /\ cursor' \in {cursor, fetch.mem}
      /\ UNCHANGED <<now, mirror, rejected, release, member, stored, journal, seeded, adopted, served, faults>>
      /\ \/ run' = Idle /\ last' = "dry-run"
         \/ run' = [run EXCEPT !.pc = "route"] /\ UNCHANGED last
  BY DEF FetchEnds, AbandonFetch, SaveCursor, EndRun, dbVars
<1>2. run \in RunType /\ run.order # "accept_stale" /\ last = "running" /\ run.order \in Orders
  BY <1>1 DEF IInv, TypeOK, RunIsSound, JournalIsFresh, RecordFollowsRun
<1>3. CASE run' = Idle /\ last' = "dry-run"
  <2>1. TypeOK'
    BY <1>1, <1>3, FetchStops, IdleTyped DEF IInv, TypeOK
  <2> QED BY <1>1, <1>3, <2>1, FetchStops, IdleTyped, IdleIsSound DEF IInv
<1>4. CASE run' = [run EXCEPT !.pc = "route"] /\ UNCHANGED last
  <2>1. run' \in RunType /\ run'.pc = "route" /\ run'.order = run.order
    BY <1>2, <1>4 DEF RunType
  <2>2. TypeOK'
    BY <1>1, <1>4, <2>1, FetchStops DEF IInv, TypeOK
  <2>3. RunIsSound'
    BY <1>2, <1>4, <2>1
    DEF RunIsSound, WalkFollowsPlan, JournalIsFresh, RebaselineHasRead, RecordFollowsRun
  <2> QED BY <1>1, <2>1, <2>2, <2>3, FetchStops DEF IInv
<1> QED BY <1>1, <1>3, <1>4

LEMMA FetchBreaksKeeps ==
  ASSUME IInv, FetchFails \/ Crash
  PROVE  IInv'
<1>1. /\ fetch' = NotFetching /\ cursor' \in {cursor, fetch.mem} /\ run' = Idle
      /\ UNCHANGED <<now, mirror, rejected, release, member, stored, journal, seeded, adopted, served>>
      /\ last' = "failure" \/ UNCHANGED last
      /\ faults < MaxFaults /\ faults' = faults + 1
  BY DEF FetchFails, Crash, Fault, AbandonFetch, SaveCursor, EndRun, dbVars
<1>2. faults' \in 0..MaxFaults
  BY <1>1, BoundsAssumption DEF IInv, TypeOK
<1>3. TypeOK'
  BY <1>1, <1>2, FetchStops, IdleTyped DEF IInv, TypeOK
<1> QED BY <1>1, <1>3, FetchStops, IdleTyped, IdleIsSound DEF IInv

-----------------------------------------------------------------------------
(* The plan.                                                               *)

LEMMA RouteSnapshotKeeps ==
  ASSUME IInv, RouteSnapshot
  PROVE  IInv'
<1>1. /\ run.pc = "route" /\ run.order = "from_db"
      /\ run' = [run EXCEPT !.pc = "publish", !.base = NewBaseline]
      /\ UNCHANGED <<fetchVars, release, member, stored, journal, seeded, adopted, served, last, faults>>
  BY DEF RouteSnapshot, dbVars
<1>2. run \in RunType /\ last = "running" /\ run.order \in Orders
  BY <1>1 DEF IInv, TypeOK, RunIsSound, RecordFollowsRun
<1>3. NewBaseline \in Baselines \cup {0}
  BY BaselineTyped DEF IInv
<1>4. run' \in RunType /\ run'.pc = "publish" /\ run'.order = run.order
  BY <1>1, <1>2, <1>3 DEF RunType
<1>5. TypeOK'
  BY <1>1, <1>4 DEF IInv, TypeOK, FetchTypeOK, fetchVars
<1>6. MirrorIsSound' /\ CursorIsMirrored'
  BY <1>1, <1>4, MirrorStays DEF IInv
<1>7. OnlyMirroredRead' /\ BaselineHeld' /\ JournalCoversMirror'
  BY <1>1, BooksStay DEF IInv, fetchVars
<1>8. RunIsSound'
  BY <1>1, <1>2, <1>4
  DEF RunIsSound, WalkFollowsPlan, JournalIsFresh, RebaselineHasRead, RecordFollowsRun
<1> QED BY <1>5, <1>6, <1>7, <1>8 DEF IInv

LEMMA StartIngestKeeps ==
  ASSUME IInv, StartIngest
  PROVE  IInv'
<1>1. /\ run.pc = "route" /\ run.order # "from_db" /\ ~StaleJournal /\ PlannedBaseline # 0
      /\ run' = [run EXCEPT !.pc = "ingest", !.base = NewBaseline, !.full = Full,
                            !.left = Selected, !.docs = DocsOf(Selected), !.top = Newest(Selected)]
      /\ UNCHANGED <<fetchVars, release, member, stored, journal, seeded, adopted, served, last, faults>>
  BY DEF StartIngest, dbVars
<1>2. run \in RunType /\ last = "running" /\ run.order \in Orders
  BY <1>1 DEF IInv, TypeOK, RunIsSound, RecordFollowsRun
<1>3. NewBaseline \in Baselines \cup {0}
  BY BaselineTyped DEF IInv
<1>4. Selected \in SUBSET Archives
  BY <1>1, PlannedFacts DEF IInv, TypeOK, FetchTypeOK
<1>5. DocsOf(Selected) \in SUBSET Docs /\ Newest(Selected) \in 0..MaxTime
  BY <1>4, DocsOfTyped, NewestFacts, ArchivesAreInstants
<1>6. Full \in BOOLEAN
  BY DEF Full
<1>7. run' \in RunType
  BY <1>1, <1>2, <1>3, <1>4, <1>5, <1>6, Zenon DEF RunType
<1>8. /\ run'.pc = "ingest" /\ run'.order = run.order /\ run'.base = NewBaseline
      /\ run'.left = Selected /\ run'.docs = DocsOf(Selected) /\ run'.top = Newest(Selected)
      /\ run'.full = Full
  BY <1>1, <1>2, <1>6, Zenon DEF RunType
<1>9. TypeOK'
  BY <1>1, <1>7 DEF IInv, TypeOK, FetchTypeOK, fetchVars
<1>10. MirrorIsSound' /\ CursorIsMirrored'
  BY <1>1, <1>8, MirrorStays DEF IInv
<1>11. OnlyMirroredRead' /\ BaselineHeld' /\ JournalCoversMirror'
  BY <1>1, BooksStay DEF IInv, fetchVars
<1>12. /\ PlannedBaseline' = PlannedBaseline /\ NewBaseline' = NewBaseline
       /\ Full' = Full /\ Selected' = Selected
  BY <1>1, <1>8, PlanStays DEF fetchVars
<1>13. DocsOf(run'.left) = DocsOf(Selected)
  BY <1>8
<1>14. WalkFollowsPlan'
  BY <1>1, <1>8, <1>12, <1>13 DEF WalkFollowsPlan, DocsOf
<1>15. JournalIsFresh'
  <2>1. ~run'.full => now <= journal + MaxStale \/ run.order = "accept_stale"
    BY <1>1, <1>8, ArchivesAreInstants DEF StaleJournal, IInv, TypeOK, FetchTypeOK
  <2>2. run.order = "accept_stale" => {d \in Deltas : journal < d /\ d <= now} \subseteq mirror
    BY <1>1 DEF IInv, RunIsSound, JournalIsFresh
  <2> QED BY <1>1, <1>8, <2>1, <2>2 DEF JournalIsFresh, fetchVars
<1>16. RunIsSound'
  BY <1>1, <1>2, <1>8, <1>14, <1>15 DEF RunIsSound, RebaselineHasRead, RecordFollowsRun
<1> QED BY <1>9, <1>10, <1>11, <1>16 DEF IInv

-----------------------------------------------------------------------------
(* The walk.                                                               *)

(* Where the walk is: at a member of the first archive left, which is not  *)
(* older than the newest baseline of the mirror.                           *)
LEMMA WalkFacts ==
  ASSUME IInv, run.pc = "ingest"
  PROVE  /\ run \in RunType /\ last = "running" /\ run.order \in Orders
         /\ Selected \subseteq mirror /\ Selected \subseteq Archives
         /\ \A x \in Selected : PlannedBaseline <= x
         /\ run.left \subseteq Selected
         /\ run.docs # {} => run.left # {} /\ run.docs \subseteq Carries[Min(run.left)]
         /\ run.left # {} =>
              /\ Min(run.left) \in run.left
              /\ DocsOf(run.left) = Carries[Min(run.left)]
              /\ DocsOf(run.left) \in SUBSET Docs
<1>1. run \in RunType /\ last = "running" /\ run.order \in Orders
  BY DEF IInv, TypeOK, RunIsSound, RecordFollowsRun
<1>2. WalkFollowsPlan
  BY DEF IInv, RunIsSound
<1>3. Selected \subseteq mirror /\ \A x \in Selected : PlannedBaseline <= x
  BY <1>2, PlannedFacts DEF IInv, WalkFollowsPlan
<1>4. Selected \subseteq Archives
  BY <1>3 DEF IInv, TypeOK, FetchTypeOK
<1>5. run.left \subseteq Selected
  BY <1>2 DEF WalkFollowsPlan
<1>6. run.left # {} =>
        /\ Min(run.left) \in run.left /\ DocsOf(run.left) = Carries[Min(run.left)]
        /\ DocsOf(run.left) \in SUBSET Docs
  BY <1>4, <1>5, MinFacts, DocsOfTyped, ArchivesAreInstants DEF DocsOf
<1>7. run.docs = {} \/ run.docs \subseteq DocsOf(run.left)
  BY <1>2 DEF WalkFollowsPlan
<1>8. run.left = {} => DocsOf(run.left) = {}
  BY DEF DocsOf
<1> QED BY <1>1, <1>3, <1>4, <1>5, <1>6, <1>7, <1>8

(* What one member does to the books.                                      *)
LEMMA MemberFacts ==
  ASSUME IInv, NEW d \in Docs, Member(d), NEW a, a = Min(run.left)
  PROVE  /\ run.pc = "ingest" /\ d \in run.docs
         /\ UNCHANGED <<fetchVars, release, journal, seeded, adopted, served, last, faults>>
         /\ member' \in [Archives -> [Docs -> RecordType \cup {None}]]
         /\ stored' \in [Docs -> Archives \cup {0}]
         /\ \A x \in Archives, e \in Docs : x # a \/ e # d => member'[x][e] = member[x][e]
         /\ member'[a][d] # None
         /\ \A e \in Docs : e # d => stored'[e] = stored[e]
         /\ \/ member' = member /\ stored'[d] = stored[d] /\ member[a][d].ok /\ NextMember(d, FALSE)
            \/ member'[a][d].ok /\ stored'[d] = a /\ NextMember(d, FALSE)
            \/ ~member'[a][d].ok /\ stored'[d] = stored[d] /\ NextMember(d, TRUE)
<1> DEFINE ok == ~Incompatible(a, d) /\ <<a, d, release>> \notin Unparsable
<1>1. /\ run.pc = "ingest" /\ d \in run.docs
      /\ UNCHANGED <<fetchVars, release, journal, seeded, adopted, served, last, faults>>
      /\ \/ Processed(a, d) /\ UNCHANGED <<member, stored>> /\ NextMember(d, FALSE)
         \/ /\ ~Processed(a, d)
            /\ member' = Recorded(a, d, ok)
            /\ stored' = IF ok THEN [stored EXCEPT ![d] = a] ELSE stored
            /\ NextMember(d, ~ok)
  BY Zenon DEF Member
<1>2. /\ a \in Archives
      /\ member \in [Archives -> [Docs -> RecordType \cup {None}]]
      /\ stored \in [Docs -> Archives \cup {0}] /\ release \in 1..MaxVersion
  BY <1>1, WalkFacts DEF IInv, TypeOK
<1>3. CASE Processed(a, d) /\ UNCHANGED <<member, stored>> /\ NextMember(d, FALSE)
  BY <1>1, <1>2, <1>3 DEF Processed
<1>4. CASE /\ member' = Recorded(a, d, ok)
           /\ stored' = IF ok THEN [stored EXCEPT ![d] = a] ELSE stored
           /\ NextMember(d, ~ok)
  <2> DEFINE r == [ok |-> ok, by |-> release]
  <2>1. ok \in BOOLEAN
    BY Zenon
  <2>2. r \in RecordType /\ (r.ok <=> ok)
    BY <1>2, <2>1, Zenon DEF RecordType
  <2>3. r # None
    BY <2>2, NoneAssumption
  <2>4. member' = [member EXCEPT ![a][d] = r]
    BY <1>4 DEF Recorded
  <2> HIDE DEF r, ok
  <2>5. /\ member' \in [Archives -> [Docs -> RecordType \cup {None}]]
        /\ \A x \in Archives, e \in Docs : x # a \/ e # d => member'[x][e] = member[x][e]
        /\ member'[a][d] = r
    BY <1>2, <2>2, <2>4
  <2>6. CASE ok
    <3>1. /\ stored' \in [Docs -> Archives \cup {0}]
          /\ \A e \in Docs : e # d => stored'[e] = stored[e]
          /\ stored'[d] = a
      BY <1>2, <1>4, <2>6
    <3>2. NextMember(d, FALSE)
      BY <1>4, <2>6, Zenon DEF NextMember
    <3>3. member'[a][d].ok
      BY <2>2, <2>5, <2>6
    <3> QED BY <1>1, <2>3, <2>5, <3>1, <3>2, <3>3
  <2>7. CASE ~ok
    <3>1. stored' = stored
      BY <1>4, <2>7
    <3>2. NextMember(d, TRUE)
      BY <1>4, <2>7, Zenon DEF NextMember
    <3>3. ~member'[a][d].ok
      BY <2>2, <2>5, <2>7
    <3> QED BY <1>1, <1>2, <2>3, <2>5, <3>1, <3>2, <3>3
  <2> QED BY <2>6, <2>7
<1> QED BY <1>1, <1>3, <1>4

(* The walk after a member: the member has been read.                      *)
LEMMA NextMemberFacts ==
  ASSUME IInv, run.pc = "ingest", NEW d \in run.docs, NEW bad \in BOOLEAN, NextMember(d, bad)
  PROVE  /\ run' \in RunType /\ run'.pc = "ingest"
         /\ run'.order = run.order /\ run'.base = run.base
         /\ run'.full = run.full /\ run'.top = run.top
         /\ run'.bad <=> run.bad \/ bad
         /\ \/ run'.left = run.left /\ run'.docs = run.docs \ {d} /\ run'.docs # {}
            \/ run.docs = {d} /\ run'.left = Rest /\ run'.docs = DocsOf(Rest)
<1>1. /\ run \in RunType /\ run.left \in SUBSET Archives /\ run.docs \in SUBSET Docs
      /\ run.bad \in BOOLEAN
  BY WalkFacts DEF RunType
<1>2. Rest \in SUBSET Archives /\ DocsOf(Rest) \in SUBSET Docs
  BY <1>1, DocsOfTyped DEF Rest
<1>3. (run.bad \/ bad) \in BOOLEAN
  OBVIOUS
<1>4. CASE run.docs # {d}
  <2>1. run' = [run EXCEPT !.docs = @ \ {d}, !.bad = @ \/ bad]
    BY <1>4, Zenon DEF NextMember
  <2>2. run.docs \ {d} \in SUBSET Docs /\ run.docs \ {d} # {}
    BY <1>1, <1>4
  <2>3. run' \in RunType
    BY <1>1, <1>3, <2>1, <2>2, Zenon DEF RunType
  <2>4. /\ run'.pc = "ingest" /\ run'.order = run.order /\ run'.base = run.base
        /\ run'.full = run.full /\ run'.top = run.top
        /\ run'.bad <=> run.bad \/ bad
        /\ run'.left = run.left /\ run'.docs = run.docs \ {d}
    BY <1>1, <2>1, Zenon DEF RunType
  <2> QED BY <2>2, <2>3, <2>4, Zenon
<1>5. CASE run.docs = {d}
  <2>1. run' = [run EXCEPT !.left = Rest, !.docs = DocsOf(Rest), !.bad = @ \/ bad]
    BY <1>5, Zenon DEF NextMember
  <2>2. run' \in RunType
    BY <1>1, <1>2, <1>3, <2>1, Zenon DEF RunType
  <2>3. /\ run'.pc = "ingest" /\ run'.order = run.order /\ run'.base = run.base
        /\ run'.full = run.full /\ run'.top = run.top
        /\ run'.bad <=> run.bad \/ bad
        /\ run'.left = Rest /\ run'.docs = DocsOf(Rest)
    BY <1>1, <2>1, Zenon DEF RunType
  <2> QED BY <1>5, <2>2, <2>3, Zenon
<1> QED BY <1>4, <1>5

(* What has been read once a step is taken.                                *)
ReadAfter(x, d) == member'[x][d] # None /\ (~run'.bad => member'[x][d].ok)

LEMMA MemberKeeps ==
  ASSUME IInv, NEW d \in Docs, Member(d)
  PROVE  IInv'
<1> DEFINE a == Min(run.left)
<1>1. /\ run.pc = "ingest" /\ d \in run.docs
      /\ UNCHANGED <<now, mirror, cursor, rejected, fetch, release, journal, seeded, adopted, served,
                     last, faults>>
      /\ member' \in [Archives -> [Docs -> RecordType \cup {None}]]
      /\ stored' \in [Docs -> Archives \cup {0}]
      /\ \A x \in Archives, e \in Docs : x # a \/ e # d => member'[x][e] = member[x][e]
      /\ member'[a][d] # None
      /\ \A e \in Docs : e # d => stored'[e] = stored[e]
      /\ \/ member' = member /\ stored'[d] = stored[d] /\ member[a][d].ok /\ NextMember(d, FALSE)
         \/ member'[a][d].ok /\ stored'[d] = a /\ NextMember(d, FALSE)
         \/ ~member'[a][d].ok /\ stored'[d] = stored[d] /\ NextMember(d, TRUE)
  BY MemberFacts DEF fetchVars
<1>2. /\ run \in RunType /\ last = "running" /\ run.order \in Orders
      /\ Selected \subseteq mirror /\ Selected \subseteq Archives
      /\ \A x \in Selected : PlannedBaseline <= x
      /\ run.left \subseteq Selected
      /\ run.left # {} /\ run.docs \subseteq Carries[a] /\ a \in run.left
      /\ DocsOf(run.left) = Carries[a] /\ Carries[a] \in SUBSET Docs
  BY <1>1, WalkFacts
<1> HIDE DEF a
<1>3. a \in Archives /\ a \in mirror /\ PlannedBaseline <= a /\ a \in Nat
  BY <1>2, ArchivesAreInstants
<1>4. PICK bad \in BOOLEAN : NextMember(d, bad) /\ (~bad => member'[a][d].ok)
  BY <1>1, Zenon
<1>5. /\ run' \in RunType /\ run'.pc = "ingest"
      /\ run'.order = run.order /\ run'.base = run.base
      /\ run'.full = run.full /\ run'.top = run.top
      /\ run'.bad <=> run.bad \/ bad
      /\ \/ run'.left = run.left /\ run'.docs = run.docs \ {d} /\ run'.docs # {}
         \/ run.docs = {d} /\ run'.left = Rest /\ run'.docs = DocsOf(Rest)
  BY <1>1, <1>4, NextMemberFacts, Zenon
<1>6. Rest = run.left \ {a}
  BY DEF Rest, a
<1>7. TypeOK'
  BY <1>1, <1>5 DEF IInv, TypeOK, FetchTypeOK
<1>8. MirrorIsSound' /\ CursorIsMirrored'
  BY <1>1, <1>5, MirrorStays DEF IInv, fetchVars
<1>9. OnlyMirroredRead'
  BY <1>1, <1>3 DEF IInv, OnlyMirroredRead
<1>10. BaselineHeld'
  <2> SUFFICES ASSUME NEW b \in Baselines, NEW e \in Docs, member'[b][e] # None, member'[b][e].ok
               PROVE  stored'[e] >= b
    BY DEF BaselineHeld
  <2>0. b \in Archives /\ b \in Nat /\ stored[e] \in Nat /\ PlannedBaseline \in Nat
    BY ArchivesAreInstants, PlannedFacts DEF Archives, IInv, TypeOK
  <2>1. CASE b = a /\ e = d
    <3>1. CASE member' = member /\ stored'[d] = stored[d]
      BY <1>1, <2>1, <3>1 DEF IInv, BaselineHeld
    <3>2. CASE stored'[d] = a
      BY <2>0, <2>1, <3>2
    <3>3. CASE ~member'[a][d].ok
      BY <2>1, <3>3, Zenon
    <3> QED BY <1>1, <3>1, <3>2, <3>3
  <2>2. CASE b # a \/ e # d
    <3>1. member[b][e] = member'[b][e]
      BY <1>1, <2>0, <2>2
    <3>2. stored[e] >= b /\ b \in mirror
      BY <2>0, <3>1 DEF IInv, BaselineHeld, OnlyMirroredRead
    <3>3. b <= PlannedBaseline
      BY <3>2, PlannedFacts DEF IInv
    <3>4. a >= b
      BY <1>3, <2>0, <3>3
    <3>5. stored'[e] \in {stored[e], a}
      BY <1>1
    <3> QED BY <3>2, <3>4, <3>5
  <2> QED BY <2>1, <2>2
<1>11. JournalCoversMirror'
  <2>1. PlannedBaseline' = PlannedBaseline
    BY <1>1 DEF PlannedBaseline
  <2> SUFFICES ASSUME NEW x \in mirror \cap Deltas, Visited(x), NEW e \in Carries[x]
               PROVE  member'[x][e] # None
    BY <1>1, <2>1 DEF IInv, JournalCoversMirror, Visited
  <2>2. x \in Archives /\ e \in Docs
    BY ArchivesAreInstants DEF Archives
  <2> QED BY <1>1, <2>2 DEF Visited
<1>12. /\ PlannedBaseline' = PlannedBaseline /\ NewBaseline' = NewBaseline
       /\ Full' = Full /\ Selected' = Selected
  BY <1>1, <1>5, PlanStays
(* What was read stays read.                                               *)
<1>13. ASSUME NEW x \in Archives, NEW e \in Docs, Read(x, e) \/ (x = a /\ e = d)
       PROVE  ReadAfter(x, e)
  <2>1. CASE x = a /\ e = d
    <3>1. ~run'.bad => member'[x][e].ok
      BY <1>4, <1>5, <2>1, Zenon
    <3> QED BY <1>1, <2>1, <3>1, Zenon DEF Read, ReadAfter
  <2>2. CASE x # a \/ e # d
    <3>1. member'[x][e] = member[x][e] /\ Read(x, e)
      BY <1>1, <1>13, <2>2
    <3> QED BY <1>5, <3>1, Zenon DEF Read, ReadAfter
  <2> QED BY <2>1, <2>2
<1>14. WalkFollowsPlan'
  <2>1. WalkFollowsPlan
    BY DEF IInv, RunIsSound
  <2>2. /\ \A x \in Selected \ run.left : \A e \in Carries[x] : Read(x, e)
        /\ \A e \in DocsOf(run.left) \ run.docs : Read(a, e)
    BY <1>1, <1>2, <2>1 DEF WalkFollowsPlan, a
  <2>3. \A x \in Selected \ run.left : \A e \in Carries[x] : ReadAfter(x, e)
    BY <1>2, <1>13, <2>2, ArchivesAreInstants
  <2>4. \A e \in Carries[a] \ (run.docs \ {d}) : ReadAfter(a, e)
    BY <1>2, <1>3, <1>13, <2>2
  <2>5. /\ run'.left \subseteq Selected
        /\ \A x \in Selected \ run'.left : \A e \in Carries[x] : ReadAfter(x, e)
        /\ run'.docs = {} \/ run'.docs \subseteq DocsOf(run'.left)
        /\ run'.left # {} => \A e \in DocsOf(run'.left) \ run'.docs : ReadAfter(Min(run'.left), e)
    <3>1. CASE run'.left = run.left /\ run'.docs = run.docs \ {d}
      BY <1>2, <2>3, <2>4, <3>1 DEF a
    <3>2. CASE run.docs = {d} /\ run'.left = Rest /\ run'.docs = DocsOf(Rest)
      BY <1>2, <1>6, <2>3, <2>4, <3>2
    <3> QED BY <1>5, <3>1, <3>2
  <2> QED BY <1>1, <1>5, <1>12, <2>1, <2>5 DEF WalkFollowsPlan, Read, ReadAfter, DocsOf
<1>15. JournalIsFresh'
  BY <1>1, <1>5 DEF IInv, RunIsSound, JournalIsFresh
<1>16. RunIsSound'
  BY <1>1, <1>2, <1>5, <1>14, <1>15 DEF RunIsSound, RebaselineHasRead, RecordFollowsRun
<1> QED BY <1>7, <1>8, <1>9, <1>10, <1>11, <1>16 DEF IInv

LEMMA EmptyArchiveKeeps ==
  ASSUME IInv, EmptyArchive
  PROVE  IInv'
<1>1. /\ run.pc = "ingest" /\ run.left # {} /\ run.docs = {}
      /\ run' = [run EXCEPT !.left = Rest, !.docs = DocsOf(Rest)]
      /\ UNCHANGED <<now, mirror, cursor, rejected, fetch, release, member, stored, journal, seeded,
                     adopted, served, last, faults>>
  BY DEF EmptyArchive, fetchVars, dbVars
<1>2. /\ run \in RunType /\ last = "running" /\ run.order \in Orders
      /\ Selected \subseteq Archives /\ run.left \subseteq Selected
      /\ DocsOf(run.left) = Carries[Min(run.left)]
  BY <1>1, WalkFacts
<1>3. Rest \in SUBSET Archives /\ DocsOf(Rest) \in SUBSET Docs /\ Rest = run.left \ {Min(run.left)}
  BY <1>2, DocsOfTyped DEF Rest
<1>4. /\ run' \in RunType /\ run'.pc = "ingest"
      /\ run'.order = run.order /\ run'.base = run.base
      /\ run'.full = run.full /\ run'.top = run.top /\ run'.bad = run.bad
      /\ run'.left = Rest /\ run'.docs = DocsOf(Rest)
  BY <1>1, <1>2, <1>3, Zenon DEF RunType
<1>5. TypeOK'
  BY <1>1, <1>4 DEF IInv, TypeOK, FetchTypeOK
<1>6. MirrorIsSound' /\ CursorIsMirrored'
  BY <1>1, <1>4, MirrorStays DEF IInv, fetchVars
<1>7. OnlyMirroredRead' /\ BaselineHeld' /\ JournalCoversMirror'
  BY <1>1, BooksStay DEF IInv
<1>8. /\ PlannedBaseline' = PlannedBaseline /\ NewBaseline' = NewBaseline
      /\ Full' = Full /\ Selected' = Selected
  BY <1>1, <1>4, PlanStays
<1>9. WalkFollowsPlan'
  <2>1. WalkFollowsPlan
    BY DEF IInv, RunIsSound
  <2>2. /\ \A x \in Selected \ run.left : \A e \in Carries[x] : Read(x, e)
        /\ \A e \in Carries[Min(run.left)] : Read(Min(run.left), e)
    BY <1>1, <1>2, <2>1 DEF WalkFollowsPlan
  <2>3. \A x \in Selected \ Rest : \A e \in Carries[x] : Read(x, e)
    BY <1>2, <1>3, <2>2
  <2>4. \A x \in Selected \ Rest : \A e \in Carries[x] :
          member'[x][e] # None /\ (~run'.bad => member'[x][e].ok)
    BY <1>1, <1>4, <2>3, Zenon DEF Read
  <2>5. Rest \subseteq Selected
    BY <1>2, <1>3
  <2> QED BY <1>1, <1>4, <1>8, <2>1, <2>4, <2>5 DEF WalkFollowsPlan, Read, DocsOf
<1>10. JournalIsFresh'
  BY <1>1, <1>4 DEF IInv, RunIsSound, JournalIsFresh
<1>11. RunIsSound'
  BY <1>1, <1>2, <1>4, <1>9, <1>10 DEF RunIsSound, RebaselineHasRead, RecordFollowsRun
<1> QED BY <1>5, <1>6, <1>7, <1>11 DEF IInv

(* What a completed walk has read: the whole plan.                         *)
LEMMA PlanIsRead ==
  ASSUME IInv, run.pc = "ingest", run.left = {}
  PROVE  \A x \in Selected : Visited(x) /\ (~run.bad => \A d \in Carries[x] : member[x][d].ok)
<1>1. \A x \in Selected : \A d \in Carries[x] : Read(x, d)
  BY DEF IInv, RunIsSound, WalkFollowsPlan
<1> QED BY <1>1, Zenon DEF Read, Visited

(* A rebaseline run re-anchors to the baseline of the cursor or an older.  *)
LEMMA RebaselinePlan ==
  ASSUME IInv, run.order # "from_db", NewBaseline # 0
  PROVE  NewBaseline <= PlannedBaseline /\ PlannedBaseline \in Selected
<1>1. NewBaseline = FetchedBaseline
  BY DEF NewBaseline
<1>2. FetchedBaseline \in mirror \cap Baselines
  BY <1>1, BaselineTyped DEF IInv, CursorIsMirrored
<1>3. NewBaseline <= PlannedBaseline
  BY <1>1, <1>2, PlannedFacts DEF IInv
<1>4. PlannedBaseline \in Selected
  BY PlannedFacts DEF IInv, Full
<1> QED BY <1>3, <1>4

(* The journal after a completed walk.                                     *)
LEMMA FinishFacts ==
  ASSUME IInv, FinishIngest, ~run.bad
  PROVE  /\ run.pc = "ingest" /\ run.left = {}
         /\ journal' \in Nat /\ journal \in Nat /\ journal <= journal'
         /\ journal' = journal \/ (journal' \in Selected /\ journal' = Newest(Selected))
         /\ \A x \in Selected : x <= journal'
<1>1. /\ run.pc = "ingest" /\ run.left = {}
      /\ journal' = IF run.top > journal THEN run.top ELSE journal
  BY DEF FinishIngest
<1>2. run.top = Newest(Selected) /\ Selected \subseteq Archives
  BY <1>1, WalkFacts DEF IInv, RunIsSound, WalkFollowsPlan
<1>3. /\ Newest(Selected) \in Nat
      /\ \A y \in Selected : y <= Newest(Selected)
      /\ Selected # {} => Newest(Selected) \in Selected
      /\ Selected = {} => Newest(Selected) = 0
  BY <1>2, NewestFacts, ArchivesAreInstants
<1>4. journal \in Nat
  BY ArchivesAreInstants DEF IInv, TypeOK
<1>5. \A y \in Selected : y \in Nat
  BY <1>2, ArchivesAreInstants
<1>6. CASE Newest(Selected) > journal
  <2>1. journal' = Newest(Selected)
    BY <1>1, <1>2, <1>6
  <2>2. Selected # {}
    BY <1>3, <1>4, <1>6
  <2> QED BY <1>1, <1>3, <1>4, <1>6, <2>1, <2>2
<1>7. CASE ~(Newest(Selected) > journal)
  <2>1. journal' = journal
    BY <1>1, <1>2, <1>7
  <2>2. Newest(Selected) <= journal
    BY <1>3, <1>4, <1>7
  <2>3. \A y \in Selected : y <= journal
    BY <1>3, <1>4, <1>5, <2>2
  <2> QED BY <1>1, <1>4, <2>1, <2>3
<1> QED BY <1>6, <1>7

LEMMA FinishIngestKeeps ==
  ASSUME IInv, FinishIngest
  PROVE  IInv'
<1>1. CASE run.bad
  <2>1. /\ run' = Idle /\ last' = "failure" /\ run.pc # "fetch"
        /\ UNCHANGED <<fetchVars, release, dbVars, adopted, served, faults>>
    BY <1>1 DEF FinishIngest, EndRun, dbVars
  <2> QED BY <2>1, EndKeeps DEF IInv, TypeOK
<1>2. CASE ~run.bad
  <2>1. /\ run' = [run EXCEPT !.pc = "publish"]
        /\ UNCHANGED <<now, mirror, cursor, rejected, fetch, release, member, stored, seeded, adopted,
                       served, last, faults>>
    BY <1>2 DEF FinishIngest, fetchVars
  <2>2. /\ run.pc = "ingest" /\ run.left = {}
        /\ journal' \in Nat /\ journal \in Nat /\ journal <= journal'
        /\ journal' = journal \/ journal' \in Selected
        /\ \A x \in Selected : x <= journal'
        /\ run \in RunType /\ last = "running" /\ run.order \in Orders
        /\ Selected \subseteq mirror /\ Selected \subseteq Archives
    BY <1>2, FinishFacts, WalkFacts
  <2>3. /\ run' \in RunType /\ run'.pc = "publish" /\ run'.order = run.order /\ run'.base = run.base
    BY <2>1, <2>2 DEF RunType
  <2>4. TypeOK'
    <3>1. journal' \in 0..MaxTime
      BY <2>2, ArchivesAreInstants DEF IInv, TypeOK
    <3> QED BY <2>1, <2>3, <3>1 DEF IInv, TypeOK, FetchTypeOK
  <2>5. JournalIsMirrored'
    <3>1. seeded <= journal /\ journal <= now /\ (seeded < journal => journal \in mirror)
          /\ seeded \in Nat /\ now \in Nat
      BY ArchivesAreInstants DEF IInv, TypeOK, FetchTypeOK, MirrorIsSound, JournalIsMirrored
    <3>2. journal' = journal \/ (journal' \in mirror /\ journal' <= now)
      BY <2>2 DEF IInv, MirrorIsSound, NothingEarly
    <3> QED BY <2>1, <2>2, <3>1, <3>2 DEF JournalIsMirrored
  <2>6. MirrorIsSound' /\ CursorIsMirrored'
    <3>1. Listing' = Listing
      BY <2>1 DEF Listing
    <3> QED BY <2>1, <2>2, <2>3, <2>5, <3>1
        DEF IInv, MirrorIsSound, FetchFollowsRun, NothingEarly, NoHole, CursorIsMirrored
  <2>7. PlannedBaseline' = PlannedBaseline
    BY <2>1 DEF PlannedBaseline
  <2>8. OnlyMirroredRead' /\ BaselineHeld'
    BY <2>1 DEF IInv, OnlyMirroredRead, BaselineHeld
  <2>9. JournalCoversMirror'
    <3> SUFFICES ASSUME NEW d \in mirror \cap Deltas, PlannedBaseline < d, seeded < d,
                        d <= journal', d \notin rejected
                 PROVE  Visited(d)
      BY <2>1, <2>7 DEF JournalCoversMirror, Visited
    <3>0. d \in Nat
      BY ArchivesAreInstants DEF Archives
    <3>1. CASE d <= journal
      BY <3>1 DEF IInv, JournalCoversMirror
    <3>2. CASE ~(d <= journal)
      <4>1. d >= journal
        BY <2>2, <3>0, <3>2
      <4>2. d \in Selected
        BY <4>1 DEF Selected
      <4> QED BY <2>2, <4>2, PlanIsRead
    <3> QED BY <3>1, <3>2
  <2>10. RebaselineHasRead'
    <3> SUFFICES ASSUME run.order # "from_db", run.base # 0
                 PROVE  /\ run.base <= PlannedBaseline
                        /\ \A d \in Carries[PlannedBaseline] :
                             member[PlannedBaseline][d] # None /\ member[PlannedBaseline][d].ok
      BY <2>1, <2>3, <2>7 DEF RebaselineHasRead
    <3>1. run.base = NewBaseline
      BY <2>2 DEF IInv, RunIsSound, WalkFollowsPlan
    <3>2. NewBaseline <= PlannedBaseline /\ PlannedBaseline \in Selected
      BY <3>1, RebaselinePlan
    <3>3. Visited(PlannedBaseline) /\ \A d \in Carries[PlannedBaseline] : member[PlannedBaseline][d].ok
      BY <1>2, <2>2, <3>2, PlanIsRead
    <3> QED BY <3>1, <3>2, <3>3 DEF Visited
  <2>11. RunIsSound'
    BY <2>1, <2>2, <2>3, <2>10 DEF RunIsSound, WalkFollowsPlan, JournalIsFresh, RecordFollowsRun
  <2> QED BY <2>4, <2>6, <2>8, <2>9, <2>11 DEF IInv
<1> QED BY <1>1, <1>2

-----------------------------------------------------------------------------
(* Publication, adoption, and what happens between two runs.               *)

LEMMA PublishKeeps ==
  ASSUME IInv, Publish
  PROVE  IInv'
<1>1. /\ run.pc = "publish" /\ served' = stored
      /\ UNCHANGED <<now, mirror, cursor, rejected, fetch, release, member, stored, journal, seeded,
                     adopted, faults>>
      /\ \/ run' = Idle /\ last' = "success"
         \/ run.base # 0 /\ run' = [run EXCEPT !.pc = "adopt"] /\ UNCHANGED last
  BY DEF Publish, EndRun, fetchVars, dbVars
<1>2. CASE run' = Idle /\ last' = "success"
  BY <1>1, <1>2, EndKeeps DEF IInv, TypeOK, fetchVars, dbVars
<1>3. CASE run.base # 0 /\ run' = [run EXCEPT !.pc = "adopt"] /\ UNCHANGED last
  <2>1. run \in RunType /\ last = "running" /\ run.order \in Orders
    BY <1>1 DEF IInv, TypeOK, RunIsSound, RecordFollowsRun
  <2>2. /\ run' \in RunType /\ run'.pc = "adopt" /\ run'.order = run.order /\ run'.base = run.base
    BY <1>3, <2>1 DEF RunType
  <2>3. TypeOK'
    BY <1>1, <1>3, <2>2 DEF IInv, TypeOK, FetchTypeOK
  <2>4. MirrorIsSound' /\ CursorIsMirrored'
    BY <1>1, <2>2, MirrorStays DEF IInv, fetchVars
  <2>5. OnlyMirroredRead' /\ BaselineHeld' /\ JournalCoversMirror'
    BY <1>1, BooksStay DEF IInv
  <2>6. PlannedBaseline' = PlannedBaseline
    BY <1>1 DEF PlannedBaseline
  <2>7. RunIsSound'
    BY <1>1, <1>3, <2>1, <2>2, <2>6
    DEF IInv, RunIsSound, WalkFollowsPlan, JournalIsFresh, RebaselineHasRead, RecordFollowsRun
  <2> QED BY <2>3, <2>4, <2>5, <2>7 DEF IInv
<1> QED BY <1>1, <1>2, <1>3

LEMMA AdoptKeeps ==
  ASSUME IInv, Adopt
  PROVE  IInv'
<1>1. /\ run.pc = "adopt" /\ adopted' = run.base
      /\ UNCHANGED <<now, mirror, cursor, rejected, fetch, release, member, stored, journal, seeded,
                     served, faults>>
      /\ \/ run' = Idle /\ last' = "success"
         \/ run.order = "from_db" /\ run' = [run EXCEPT !.pc = "seed"] /\ UNCHANGED last
  BY DEF Adopt, EndRun, fetchVars, dbVars
<1>2. /\ run \in RunType /\ last = "running" /\ run.order \in Orders /\ served = stored
      /\ adopted' \in Baselines \cup {0}
  BY <1>1 DEF IInv, TypeOK, RunType, RunIsSound, RecordFollowsRun
<1>3. CASE run' = Idle /\ last' = "success"
  BY <1>1, <1>2, <1>3, EndKeeps DEF IInv, TypeOK, fetchVars, dbVars
<1>4. CASE run.order = "from_db" /\ run' = [run EXCEPT !.pc = "seed"] /\ UNCHANGED last
  <2>2. run' \in RunType /\ run'.pc = "seed" /\ run'.order = run.order
    BY <1>2, <1>4 DEF RunType
  <2>3. TypeOK'
    BY <1>1, <1>2, <1>4, <2>2 DEF IInv, TypeOK, FetchTypeOK
  <2>4. MirrorIsSound' /\ CursorIsMirrored'
    BY <1>1, <2>2, MirrorStays DEF IInv, fetchVars
  <2>5. OnlyMirroredRead' /\ BaselineHeld' /\ JournalCoversMirror'
    BY <1>1, BooksStay DEF IInv
  <2>7. RunIsSound'
    BY <1>1, <1>2, <1>4, <2>2
    DEF RunIsSound, WalkFollowsPlan, JournalIsFresh, RebaselineHasRead, RecordFollowsRun
  <2> QED BY <2>3, <2>4, <2>5, <2>7 DEF IInv
<1> QED BY <1>1, <1>3, <1>4

LEMMA SeedKeeps ==
  ASSUME IInv, Seed
  PROVE  IInv'
<1>1. /\ run.pc = "seed" /\ run' = Idle /\ last' = "success" /\ journal' = now /\ seeded' = now
      /\ UNCHANGED <<now, mirror, cursor, rejected, fetch, release, member, stored, adopted, served, faults>>
  BY DEF Seed, EndRun, fetchVars
<1>2. TypeOK'
  BY <1>1, IdleTyped DEF IInv, TypeOK, FetchTypeOK
<1>3. now \in Nat
  BY ArchivesAreInstants DEF IInv, TypeOK, FetchTypeOK
<1>4. Listing' = Listing
  BY <1>1 DEF Listing
<1>5. MirrorIsSound' /\ CursorIsMirrored'
  BY <1>1, <1>3, <1>4, IdleTyped
  DEF IInv, MirrorIsSound, FetchFollowsRun, NothingEarly, NoHole, JournalIsMirrored, CursorIsMirrored
<1>6. OnlyMirroredRead' /\ BaselineHeld'
  BY <1>1 DEF IInv, OnlyMirroredRead, BaselineHeld
(* Nothing is promised below an operator's seed.                           *)
<1>7. JournalCoversMirror'
  <2>1. \A d \in Deltas : ~(now < d /\ d <= now)
    BY <1>3, ArchivesAreInstants DEF Archives
  <2> QED BY <1>1, <2>1 DEF JournalCoversMirror
<1> QED BY <1>1, <1>2, <1>5, <1>6, <1>7, IdleIsSound DEF IInv

LEMMA UpgradeKeeps ==
  ASSUME IInv, Upgrade
  PROVE  IInv'
<1>1. /\ run.pc = "idle" /\ release < MaxVersion /\ release' = release + 1
      /\ UNCHANGED <<now, mirror, cursor, rejected, fetch, member, stored, journal, seeded,
                     adopted, served, run, last, faults>>
  BY DEF Upgrade, fetchVars, dbVars
<1>2. release' \in 1..MaxVersion
  BY <1>1, BoundsAssumption DEF IInv, TypeOK
<1>3. TypeOK'
  BY <1>1, <1>2 DEF IInv, TypeOK, FetchTypeOK
<1>4. MirrorIsSound' /\ CursorIsMirrored'
  BY <1>1, MirrorStays DEF IInv, fetchVars
<1>5. OnlyMirroredRead' /\ BaselineHeld' /\ JournalCoversMirror'
  BY <1>1, BooksStay DEF IInv
<1>6. RunIsSound'
  BY <1>1 DEF IInv, RunIsSound, WalkFollowsPlan, JournalIsFresh, RebaselineHasRead, RecordFollowsRun
<1> QED BY <1>3, <1>4, <1>5, <1>6 DEF IInv

LEMMA TimeKeeps ==
  ASSUME IInv, Time
  PROVE  IInv'
<1>1. /\ run.pc = "idle" /\ now < MaxTime /\ now' = now + 1
      /\ UNCHANGED <<mirror, cursor, rejected, fetch, release, member, stored, journal, seeded,
                     adopted, served, run, last, faults>>
  BY DEF Time, Tick, dbVars
<1>2. now \in Nat /\ now' \in 0..MaxTime /\ now' \in Nat
  BY <1>1, ArchivesAreInstants DEF IInv, TypeOK, FetchTypeOK
<1>3. TypeOK'
  BY <1>1, <1>2 DEF IInv, TypeOK, FetchTypeOK
<1>4. ~fetch.busy /\ fetch.todo = {}
  BY <1>1 DEF IInv, TypeOK, FetchTypeOK, MirrorIsSound, FetchFollowsRun, NotFetching
<1>5. FetchFollowsRun' /\ CursorIsMirrored'
  BY <1>1, <1>4 DEF IInv, MirrorIsSound, FetchFollowsRun, CursorIsMirrored
<1>6. NothingEarly' /\ NoHole'
  <2>1. /\ \A a \in mirror : a \in Nat
        /\ \A d \in Deltas : d \in Nat
        /\ Keep \in Nat
    BY ArchivesAreInstants DEF Archives, IInv, TypeOK, FetchTypeOK
  <2> QED BY <1>1, <1>2, <2>1 DEF IInv, MirrorIsSound, NothingEarly, NoHole
<1>7. JournalIsMirrored'
  BY <1>1, <1>2, ArchivesAreInstants DEF IInv, TypeOK, MirrorIsSound, JournalIsMirrored
<1>8. OnlyMirroredRead' /\ BaselineHeld' /\ JournalCoversMirror'
  BY <1>1, BooksStay DEF IInv
<1>9. RunIsSound'
  BY <1>1 DEF IInv, RunIsSound, WalkFollowsPlan, JournalIsFresh, RebaselineHasRead, RecordFollowsRun
<1> QED BY <1>3, <1>5, <1>6, <1>7, <1>8, <1>9 DEF IInv, MirrorIsSound

LEMMA StutterKeeps ==
  ASSUME IInv, UNCHANGED vars
  PROVE  IInv'
<1>1. UNCHANGED <<now, mirror, cursor, rejected, fetch, release, member, stored, journal, seeded,
                  adopted, served, run, last, faults>>
  BY DEF vars, fetchVars, dbVars
<1>2. TypeOK'
  BY <1>1 DEF IInv, TypeOK, FetchTypeOK
<1>3. MirrorIsSound' /\ CursorIsMirrored'
  BY <1>1, MirrorStays DEF IInv, fetchVars
<1>4. OnlyMirroredRead' /\ BaselineHeld' /\ JournalCoversMirror'
  BY <1>1, BooksStay DEF IInv
<1>5. /\ PlannedBaseline' = PlannedBaseline /\ NewBaseline' = NewBaseline
      /\ Full' = Full /\ Selected' = Selected
  BY <1>1, PlanStays
<1>6. RunIsSound'
  BY <1>1, <1>5
  DEF IInv, RunIsSound, WalkFollowsPlan, JournalIsFresh, RebaselineHasRead, RecordFollowsRun, Read, DocsOf
<1> QED BY <1>2, <1>3, <1>4, <1>6 DEF IInv

-----------------------------------------------------------------------------
(* The invariant.                                                          *)

LEMMA InitKeeps ==
  ASSUME Init
  PROVE  IInv
<1>1. /\ now = 0 /\ mirror = {} /\ cursor = {} /\ rejected = {} /\ fetch = NotFetching /\ release = 1
      /\ member = [a \in Archives |-> [d \in Docs |-> None]]
      /\ stored = [d \in Docs |-> 0] /\ served = [d \in Docs |-> 0]
      /\ journal = 0 /\ seeded = 0 /\ adopted = 0 /\ run = Idle /\ last = "none" /\ faults = 0
  BY DEF Init, FetchInit
<1>2. ~fetch.busy /\ fetch.todo = {} /\ fetch.mem = {}
  BY <1>1 DEF NotFetching
<1>3. FetchTypeOK
  BY <1>1, ArchivesAreInstants DEF FetchTypeOK, NotFetching
<1>4. TypeOK
  BY <1>1, <1>3, ArchivesAreInstants, BoundsAssumption, IdleTyped DEF TypeOK
<1>5. MirrorIsSound /\ CursorIsMirrored
  BY <1>1, <1>2, IdleTyped
  DEF MirrorIsSound, FetchFollowsRun, NothingEarly, NoHole, JournalIsMirrored, CursorIsMirrored
<1>6. OnlyMirroredRead /\ JournalCoversMirror
  BY <1>1 DEF OnlyMirroredRead, JournalCoversMirror
<1>7. BaselineHeld
  <2>1. \A b \in Baselines, d \in Docs : member[b][d] = None
    BY <1>1 DEF Archives
  <2> QED BY <2>1 DEF BaselineHeld
<1>8. RunIsSound
  BY <1>1, IdleTyped
  DEF RunIsSound, WalkFollowsPlan, JournalIsFresh, RebaselineHasRead, RecordFollowsRun
<1> QED BY <1>4, <1>5, <1>6, <1>7, <1>8 DEF IInv

LEMMA NextKeeps ==
  ASSUME IInv, [Next]_vars
  PROVE  IInv'
<1>1. ASSUME RunStep PROVE IInv'
  BY <1>1, FetchingKeeps, FetchEndsKeeps, StopKeeps, RouteSnapshotKeeps, StartIngestKeeps, MemberKeeps,
     EmptyArchiveKeeps, FinishIngestKeeps, PublishKeeps, AdoptKeeps, SeedKeeps
  DEF RunStep
<1>2. ASSUME FetchRejects \/ FetchFails \/ IngestFails \/ PublishFails \/ Crash PROVE IInv'
  BY <1>2, FetchRejectsKeeps, FetchBreaksKeeps, StopKeeps
<1> QED BY <1>1, <1>2, BeginKeeps, UpgradeKeeps, TimeKeeps, StutterKeeps DEF Next

LEMMA InvariantAlways == Spec => []IInv
BY InitKeeps, NextKeeps, PTL DEF Spec

(* Type correctness of a source under its update runs: whatever the        *)
(* orders, the archives, the releases and the faults.                      *)
THEOREM TypeCorrect == Spec => []TypeOK
<1>1. IInv => TypeOK
  BY DEF IInv
<1> QED BY <1>1, InvariantAlways, PTL

-----------------------------------------------------------------------------
(* What the runs do to the books.                                          *)

(* What changes the journal, the database, the marker or the record.       *)
LEMMA JournalMoves ==
  ASSUME IInv, [Next]_vars, run.pc = "ingest", journal' # journal
  PROVE  FinishIngest /\ ~run.bad
<1>1. ~UNCHANGED journal
  OBVIOUS
<1>2. ~UNCHANGED vars
  BY <1>1 DEF vars, dbVars
<1>3. ~(\E o \in Orders : Begin(o)) /\ ~Upgrade /\ ~Time
  BY DEF Begin, Upgrade, Time
<1>4. /\ ~Fetching /\ ~FetchEnds /\ ~RouteFails /\ ~RouteSnapshot /\ ~StartIngest
      /\ ~Publish /\ ~Adopt /\ ~Seed /\ ~EmptyArchive
  BY <1>1
  DEF Fetching, FetchEnds, RouteFails, RouteSnapshot, StartIngest, Publish, Adopt, Seed, EmptyArchive, dbVars
<1>5. ASSUME NEW d \in Docs PROVE ~Member(d)
  BY <1>1 DEF Member
<1>6. ~FetchRejects /\ ~FetchFails /\ ~IngestFails /\ ~PublishFails /\ ~Crash
  BY <1>1 DEF FetchRejects, FetchFails, IngestFails, PublishFails, Crash, dbVars
<1>7. FinishIngest
  BY <1>2, <1>3, <1>4, <1>5, <1>6 DEF Next, RunStep
<1> QED BY <1>1, <1>7 DEF FinishIngest

LEMMA MarkerMoves ==
  ASSUME [Next]_vars, adopted' # adopted
  PROVE  Adopt
<1>1. ~UNCHANGED vars
  BY DEF vars
<1>2. ~(\E o \in Orders : Begin(o)) /\ ~Upgrade /\ ~Time
  BY DEF Begin, Upgrade, Time
<1>3. /\ ~Fetching /\ ~FetchEnds /\ ~RouteFails /\ ~RouteSnapshot /\ ~StartIngest
      /\ ~Publish /\ ~FinishIngest /\ ~Seed /\ ~EmptyArchive
  BY DEF Fetching, FetchEnds, RouteFails, RouteSnapshot, StartIngest, Publish, FinishIngest, Seed, EmptyArchive
<1>4. ASSUME NEW d \in Docs PROVE ~Member(d)
  BY DEF Member
<1>5. ~FetchRejects /\ ~FetchFails /\ ~IngestFails /\ ~PublishFails /\ ~Crash
  BY DEF FetchRejects, FetchFails, IngestFails, PublishFails, Crash
<1> QED BY <1>1, <1>2, <1>3, <1>4, <1>5 DEF Next, RunStep

(* A run is recorded as running until it ends; it ends as a success only   *)
(* when what it stored is what is served.                                  *)
LEMMA SuccessKeeps ==
  ASSUME IInv, SuccessIsServed, [Next]_vars
  PROVE  SuccessIsServed'
<1> SUFFICES ASSUME last' = "success" PROVE served' = stored'
  BY DEF SuccessIsServed
<1>1. run.pc # "idle" => last = "running" /\ run.order \in Orders
  BY DEF IInv, RunIsSound, RecordFollowsRun
<1>2. run.pc \in {"adopt", "seed"} => served = stored
  BY DEF IInv, RunIsSound, RecordFollowsRun
<1>3. CASE UNCHANGED <<last, stored, served>>
  BY <1>3 DEF SuccessIsServed
<1>4. CASE RunStep
  <2>1. ASSUME Fetching \/ FetchEnds \/ RouteFails \/ RouteSnapshot \/ StartIngest PROVE FALSE
    BY <1>1, <2>1 DEF Fetching, FetchEnds, RouteFails, RouteSnapshot, StartIngest, EndRun
  <2>2. ASSUME EmptyArchive \/ FinishIngest \/ \E d \in Docs : Member(d) PROVE FALSE
    BY <1>1, <2>2 DEF EmptyArchive, FinishIngest, EndRun, Member
  <2>3. CASE Publish \/ Adopt \/ Seed
    BY <1>1, <1>2, <2>3 DEF Publish, Adopt, Seed, dbVars
  <2> QED BY <1>4, <2>1, <2>2, <2>3 DEF RunStep
<1>5. ASSUME FetchRejects \/ FetchFails \/ IngestFails \/ PublishFails \/ Crash PROVE FALSE
  BY <1>1, <1>5 DEF FetchRejects, FetchFails, IngestFails, PublishFails, Crash, EndRun
<1>6. ASSUME \E o \in Orders : Begin(o) PROVE FALSE
  BY <1>6 DEF Begin
<1>7. CASE Upgrade \/ Time \/ UNCHANGED vars
  BY <1>3, <1>7 DEF Upgrade, Time, vars, dbVars
<1> QED BY <1>4, <1>5, <1>6, <1>7 DEF Next

(* A delta that is missing below the one the journal comes to has left the *)
(* listing, and a journal that old is refused, or was vouched for.         *)
LEMMA NoGapIsClosed ==
  ASSUME IInv, [Next]_vars, run.pc = "ingest", ~run.full, journal' # journal,
         NEW d \in Deltas, PlannedBaseline < d, journal < d, d <= journal', d \notin rejected
  PROVE  Visited(d)
<1>1. FinishIngest /\ ~run.bad
  BY JournalMoves
<1>2. /\ run.left = {} /\ journal' \in Nat /\ journal \in Nat /\ journal' \in Selected
      /\ Selected \subseteq mirror
  BY <1>1, FinishFacts, WalkFacts
<1>3. d \in Nat /\ now \in Nat /\ journal' <= now
  BY <1>2, ArchivesAreInstants DEF Archives, IInv, TypeOK, FetchTypeOK, MirrorIsSound, NothingEarly
<1>4. CASE d \in mirror
  <2>1. d \in Selected
    BY <1>2, <1>3, <1>4 DEF Selected
  <2> QED BY <1>2, <2>1, PlanIsRead
<1>5. CASE d \notin mirror
  <2>1. d < journal' /\ journal' \in mirror
    BY <1>2, <1>3, <1>5
  <2>2. d + Keep <= now
    BY <1>5, <2>1 DEF IInv, MirrorIsSound, NoHole
  <2>3. now <= journal + MaxStale \/ run.order = "accept_stale"
    BY DEF IInv, RunIsSound, JournalIsFresh
  <2>4. ~(now <= journal + MaxStale)
    BY <1>2, <1>3, <2>2, ArchivesAreInstants
  <2>5. {x \in Deltas : journal < x /\ x <= now} \subseteq mirror
    BY <2>3, <2>4 DEF IInv, RunIsSound, JournalIsFresh
  <2>6. d <= now
    BY <1>2, <1>3
  <2> QED BY <1>5, <2>5, <2>6
<1> QED BY <1>4, <1>5

(* The baseline that is adopted is one the run has read, or an older one.  *)
LEMMA AdoptedIsHeld ==
  ASSUME IInv, [Next]_vars, adopted' # adopted, run.order # "from_db"
  PROVE  /\ adopted' <= PlannedBaseline
         /\ \A d \in Carries[PlannedBaseline] : stored[d] >= PlannedBaseline
<1>1. run.pc = "adopt" /\ adopted' = run.base
  BY MarkerMoves DEF Adopt
<1>2. run.base \in Baselines /\ run.base # 0
  BY <1>1 DEF IInv, TypeOK, RunType, RunIsSound, RecordFollowsRun
<1>3. /\ run.base <= PlannedBaseline
      /\ \A d \in Carries[PlannedBaseline] :
           member[PlannedBaseline][d] # None /\ member[PlannedBaseline][d].ok
  BY <1>1, <1>2 DEF IInv, RunIsSound, RebaselineHasRead
<1>4. run.base \in 1..MaxTime /\ MaxTime \in Nat
  BY <1>2, ArchivesAreInstants DEF Archives
<1>5. PlannedBaseline \in Nat /\ PlannedBaseline \in Baselines \cup {0}
  BY PlannedFacts DEF IInv
<1>6. PlannedBaseline \in Baselines
  BY <1>3, <1>4, <1>5
<1>7. Carries[PlannedBaseline] \in SUBSET Docs
  BY <1>6, ArchivesAreInstants DEF Archives
<1> QED BY <1>1, <1>3, <1>6, <1>7 DEF IInv, BaselineHeld

(* Wherever runs stop, the cursor, the mirror and the journal of a source  *)
(* agree; a run that moves the journal leaves no delta unread behind it,   *)
(* and a baseline is adopted only when the database holds it or a newer    *)
(* one (FetchCursor::record, select_archives_to_process, ingest_one,       *)
(* adopt_new_baselines).  This holds under any orders.                     *)
THEOREM NothingIsSkipped ==
  Spec => [](CursorIsMirrored /\ JournalCoversMirror) /\ NoSilentGap /\ AdoptsWhatItIngested
<1>1. IInv => CursorIsMirrored /\ JournalCoversMirror
  BY DEF IInv
<1>2. IInv /\ [Next]_vars
        => [run.pc = "ingest" /\ ~run.full /\ journal' # journal
              => \A d \in Deltas : PlannedBaseline < d /\ journal < d /\ d <= journal'
                                     /\ d \notin rejected => Visited(d)]_vars
  BY NoGapIsClosed
<1>3. IInv /\ [Next]_vars
        => [adopted' # adopted /\ run.order # "from_db"
              => /\ adopted' <= PlannedBaseline
                 /\ \A d \in Carries[PlannedBaseline] : stored[d] >= PlannedBaseline]_vars
  BY AdoptedIsHeld
<1> QED BY <1>1, <1>2, <1>3, InvariantAlways, PTL DEF Spec, NoSilentGap, AdoptsWhatItIngested

(* And they agree with the record of the last run: its success is served,  *)
(* if it was not a dry run (RunRecord::finish, is_success in exit.rs).     *)
THEOREM MirrorAndJournalAgreeAlways == Spec => MirrorAndJournalAgree
<1>1. Init => SuccessIsServed
  BY DEF Init, SuccessIsServed
<1>2. IInv /\ SuccessIsServed /\ [Next]_vars => SuccessIsServed'
  BY SuccessKeeps
<1>3. CursorIsMirrored /\ JournalCoversMirror /\ SuccessIsServed => BooksAgree
  BY DEF BooksAgree
<1>4. Spec => []SuccessIsServed
  BY <1>1, <1>2, InvariantAlways, PTL DEF Spec
<1> QED BY <1>3, <1>4, NothingIsSkipped, PTL DEF MirrorAndJournalAgree

-----------------------------------------------------------------------------
(* The embedding pool.  A batch of the page is queued, with a worker, sent *)
(* back or stored, or an error has stopped the pass.                       *)

(* Sizes are those the theorems on finite sets are about.                  *)
LEMMA PoolSizes ==
  ASSUME NEW S
  PROVE  Pool!Cardinality(S) = Cardinality(S) /\ (Pool!IsFiniteSet(S) <=> IsFiniteSet(S))
BY DEF Pool!Cardinality, Cardinality, Pool!IsFiniteSet, IsFiniteSet

(* A worker that calls has a batch and an endpoint, and a good outcome is  *)
(* of a batch.                                                             *)
PoolBatchesAreChunks ==
  /\ \A w \in PoolWorkers : worker[w].pc = "call" =>
       worker[w].chunk \in Pool!Chunks /\ worker[w].at \in Pool!Endpoints
  /\ \A i \in 1..Len(channel) : channel[i].ok => channel[i].chunk \in Pool!Chunks

PoolRequestsCounted ==
  \A e \in Pool!Endpoints :
    /\ endpoint[e].outstanding = Cardinality(Pool!InFlight(e))
    /\ (endpoint[e].outstanding - 1) * NumEndpoints < Cardinality(PoolWorkers)

(* A failure the main thread knows, or is about to hear of.                *)
PoolFailed == pass.error \/ \E i \in 1..Len(channel) : ~channel[i].ok

(* Every batch of the page is somewhere, unless something failed.          *)
PoolAccounted(c) ==
  \/ vector[c] = config
  \/ \E i \in 1..Len(queue) : queue[i] = c
  \/ \E w \in PoolWorkers : worker[w].pc = "call" /\ worker[w].chunk = c
  \/ \E i \in 1..Len(channel) : channel[i].ok /\ channel[i].chunk = c
  \/ PoolFailed

PoolPageAccounted ==
  pass.pc = "pool" =>
    /\ \A c \in pass.page : PoolAccounted(c)
    /\ stop => PoolFailed
    /\ queue = <<>> \/ PoolFailed \/ \E w \in PoolWorkers : worker[w].pc # "done"

PoolIInv == Pool!TypeOK /\ PoolBatchesAreChunks /\ PoolRequestsCounted /\ PoolPageAccounted

-----------------------------------------------------------------------------
LEMMA PoolSetsAreFinite ==
  ASSUME Pool!BoundsAssumption
  PROVE  /\ \A S \in SUBSET Pool!Chunks : IsFiniteSet(S) /\ Cardinality(S) \in Nat
         /\ \A S \in SUBSET PoolWorkers : IsFiniteSet(S) /\ Cardinality(S) \in Nat
<1>1. IsFiniteSet(Pool!Chunks)
  BY FS_Interval DEF Pool!Chunks, Pool!BoundsAssumption
<1>2. QED
  BY <1>1, FS_Subset, FS_CardinalityType, PoolSizes DEF Pool!BoundsAssumption

(* The chunks before one of a set are one more than those before an        *)
(* earlier one, at least.                                                  *)
LEMMA PoolRankGrows ==
  ASSUME Pool!BoundsAssumption, NEW S \in SUBSET Pool!Chunks, NEW b \in S, NEW c \in S, b < c
  PROVE  Cardinality({x \in S : x < b}) < Cardinality({x \in S : x < c})
<1> DEFINE B == {x \in S : x < b}
           C == {x \in S : x < c}
<1>0. S \subseteq Int
  BY DEF Pool!Chunks
<1>1. B \cup {b} \subseteq C /\ b \notin B
  <2>1. b \in Int /\ c \in Int /\ ~(b < b)
    BY <1>0
  <2>2. \A x \in S : x < b => x < c
    BY <1>0, <2>1
  <2>3. QED
    BY <2>1, <2>2
<1>2. IsFiniteSet(B) /\ IsFiniteSet(C) /\ Cardinality(B) \in Nat /\ Cardinality(C) \in Nat
  BY PoolSetsAreFinite
<1> HIDE DEF B, C
<1>3. Cardinality(B \cup {b}) = Cardinality(B) + 1
  BY <1>1, <1>2, FS_AddElement
<1>4. Cardinality(B \cup {b}) <= Cardinality(C)
  BY <1>1, <1>2, FS_Subset
<1>5. Cardinality(B) < Cardinality(C)
  BY <1>2, <1>3, <1>4
<1>6. QED
  BY <1>5 DEF B, C

(* The batches of a page, each once.                                       *)
LEMMA PoolInOrderEnumerates ==
  ASSUME Pool!BoundsAssumption, NEW S \in SUBSET Pool!Chunks
  PROVE  /\ Pool!InOrder(S) \in Seq(S)
         /\ \A c \in S : \E i \in 1..Len(Pool!InOrder(S)) : Pool!InOrder(S)[i] = c
<1> DEFINE n == Cardinality(S)
           Rank(c) == Cardinality({x \in S : x < c}) + 1
           rank == [c \in S |-> Rank(c)]
<1>0. IsFiniteSet(S) /\ n \in Nat
  BY PoolSetsAreFinite
<1>1. ASSUME NEW c \in S PROVE Rank(c) \in 1..n
  <2> DEFINE C == {x \in S : x < c}
  <2>1. C \subseteq S \ {c} /\ IsFiniteSet(C) /\ Cardinality(C) \in Nat
    <3>1. C \subseteq S \ {c}
      BY DEF Pool!Chunks
    <3>2. QED
      BY <3>1, PoolSetsAreFinite
  <2> HIDE DEF C
  <2>2. IsFiniteSet(S \ {c}) /\ Cardinality(S \ {c}) = n - 1
    BY <1>0, FS_RemoveElement
  <2>3. Cardinality(C) <= n - 1
    BY <2>1, <2>2, FS_Subset
  <2>4. Cardinality(C) + 1 \in 1..n
    BY <2>1, <2>3, <1>0
  <2>5. QED
    BY <2>4 DEF C
<1>2. ASSUME NEW b \in S, NEW c \in S, Rank(b) = Rank(c) PROVE b = c
  <2>1. Cardinality({x \in S : x < b}) \in Nat /\ Cardinality({x \in S : x < c}) \in Nat
    BY PoolSetsAreFinite
  <2>2. b \in Int /\ c \in Int
    BY DEF Pool!Chunks
  <2>0. Cardinality({x \in S : x < b}) = Cardinality({x \in S : x < c})
    <3> DEFINE p == Cardinality({x \in S : x < b})
               q == Cardinality({x \in S : x < c})
    <3>1. p + 1 = q + 1
      BY <1>2
    <3> HIDE DEF p, q
    <3>2. p \in Nat /\ q \in Nat
      BY <2>1 DEF p, q
    <3>3. p = q
      BY <3>1, <3>2
    <3>4. QED
      BY <3>3 DEF p, q
  <2>3. ~(b < c) /\ ~(c < b)
    <3>1. ASSUME b < c PROVE FALSE
      <4>1. Cardinality({x \in S : x < b}) < Cardinality({x \in S : x < c})
        BY <3>1, PoolRankGrows
      <4>2. QED
        BY <2>0, <2>1, <4>1
    <3>2. ASSUME c < b PROVE FALSE
      <4>1. Cardinality({x \in S : x < c}) < Cardinality({x \in S : x < b})
        BY <3>2, PoolRankGrows
      <4>2. QED
        BY <2>0, <2>1, <4>1
    <3>3. QED
      BY <3>1, <3>2
  <2>4. QED
    BY <2>2, <2>3
<1> HIDE DEF Rank
<1>3. rank \in Injection(S, 1..n)
  <2>1. rank \in [S -> 1..n]
    BY <1>1
  <2>2. \A b, c \in S : rank[b] = rank[c] => b = c
    BY <1>2
  <2> HIDE DEF rank
  <2>3. QED
    BY <2>1, <2>2 DEF Injection, IsInjective
<1>4. IsFiniteSet(1..n) /\ Cardinality(1..n) = n
  BY <1>0, FS_Interval
<1>5. rank \in Surjection(S, 1..n)
  BY <1>3, <1>4, FS_Injection
<1>6. \A i \in 1..n : \E c \in S : Rank(c) = i
  BY <1>5 DEF Surjection
<1>7. Pool!InOrder(S) = [i \in 1..n |-> CHOOSE c \in S : Pool!Cardinality({b \in S : b < c}) = i - 1]
  <2>1. Pool!Cardinality(S) = n
    BY PoolSizes
  <2>2. QED
    BY <2>1 DEF Pool!InOrder
<1>8. ASSUME NEW i \in 1..n
      PROVE  Pool!InOrder(S)[i] \in S /\ Rank(Pool!InOrder(S)[i]) = i
  <2>1. PICK c \in S : Rank(c) = i
    BY <1>6
  <2>2. Cardinality({b \in S : b < c}) = i - 1
    <3>1. Cardinality({b \in S : b < c}) \in Nat
      BY PoolSetsAreFinite
    <3>2. QED
      BY <2>1, <3>1 DEF Rank
  <2>3. Pool!InOrder(S)[i] = CHOOSE d \in S : Pool!Cardinality({b \in S : b < d}) = i - 1
    BY <1>7
  <2>4. Pool!InOrder(S)[i] \in S /\ Cardinality({b \in S : b < Pool!InOrder(S)[i]}) = i - 1
    BY <2>2, <2>3, PoolSizes
  <2>5. QED
    BY <2>4 DEF Rank
<1>9. Pool!InOrder(S) \in Seq(S) /\ Len(Pool!InOrder(S)) = n
  <2>1. Pool!InOrder(S) \in [1..n -> S]
    BY <1>7, <1>8
  <2>2. QED
    BY <2>1, <1>0
<1>10. ASSUME NEW c \in S PROVE \E i \in 1..n : Pool!InOrder(S)[i] = c
  <2>1. Rank(c) \in 1..n
    BY <1>1
  <2>2. Pool!InOrder(S)[Rank(c)] \in S /\ Rank(Pool!InOrder(S)[Rank(c)]) = Rank(c)
    BY <1>8, <2>1
  <2>3. Pool!InOrder(S)[Rank(c)] = c
    BY <1>2, <2>2
  <2>4. QED
    BY <2>1, <2>3
<1>11. QED
  BY <1>9, <1>10

(* A pass with pending chunks has a page of at least one.                  *)
LEMMA PoolPageIsPending ==
  ASSUME Pool!BoundsAssumption, Pool!TypeOK, Pool!Pending # {}
  PROVE  Pool!FirstPage \subseteq Pool!Pending /\ Pool!FirstPage \subseteq Pool!Chunks /\ Pool!FirstPage # {}
<1>1. Pool!Pending \subseteq Pool!Chunks /\ Pool!Pending \in SUBSET Nat
  <2>1. Pool!Pending \subseteq Pool!Chunks
    BY DEF Pool!TypeOK, Pool!Pending
  <2>2. Pool!Chunks \subseteq Nat
    BY DEF Pool!Chunks, Pool!BoundsAssumption
  <2>3. QED
    BY <2>1, <2>2
<1>2. PICK c \in Pool!Pending : \A d \in Pool!Pending : c <= d
  BY <1>1, LeastExists
<1>3. {b \in Pool!Pending : b < c} = {}
  <2>1. SUFFICES ASSUME NEW b \in Pool!Pending, b < c PROVE FALSE
    OBVIOUS
  <2>2. b \in Nat /\ c \in Nat /\ c <= b
    BY <1>1, <1>2
  <2>3. QED
    BY <2>1, <2>2
<1>4. Cardinality({b \in Pool!Pending : b < c}) = 0
  BY <1>3, FS_EmptySet
<1>5. 0 < PoolPage
  BY DEF Pool!BoundsAssumption
<1>6. c \in Pool!FirstPage
  BY <1>4, <1>5, PoolSizes DEF Pool!FirstPage
<1>7. QED
  BY <1>1, <1>6 DEF Pool!FirstPage

(* The least loaded endpoint has no more than its share of the requests,   *)
(* which are fewer than the workers when one of these is free.             *)
LEMMA PoolLeastLoadedShare ==
  ASSUME Pool!BoundsAssumption, Pool!TypeOK, PoolBatchesAreChunks, PoolRequestsCounted,
         NEW e \in Pool!Endpoints, Pool!LeastLoaded(e), NEW w \in PoolWorkers, worker[w].pc = "look"
  PROVE  endpoint[e].outstanding * NumEndpoints < Cardinality(PoolWorkers)
<1> DEFINE k == endpoint[e].outstanding
           Up(n) == {v \in PoolWorkers : worker[v].pc = "call" /\ worker[v].at \in 1..n}
           T == {n \in Nat : n <= NumEndpoints /\ ~(k * n <= Cardinality(Up(n)))}
<1>0. k \in Nat /\ NumEndpoints \in Nat
  BY DEF Pool!TypeOK, Pool!Loads, Pool!BoundsAssumption
<1>1. \A f \in Pool!Endpoints : k <= Cardinality(Pool!InFlight(f))
  <2>1. SUFFICES ASSUME NEW f \in Pool!Endpoints PROVE k <= endpoint[f].outstanding
    BY DEF PoolRequestsCounted
  <2>2. endpoint[f].outstanding \in Nat
    BY DEF Pool!TypeOK, Pool!Loads
  <2>3. f = e \/ Pool!Before(Pool!Load(e), Pool!Load(f))
    BY DEF Pool!LeastLoaded
  <2>4. QED
    BY <1>0, <2>2, <2>3 DEF Pool!Before, Pool!Load
<1>2. ASSUME NEW n \in Nat PROVE IsFiniteSet(Up(n)) /\ Cardinality(Up(n)) \in Nat
  BY PoolSetsAreFinite
<1>3. T = {}
  <2>1. SUFFICES ASSUME T # {} PROVE FALSE
    OBVIOUS
  <2>2. PICK m \in T : \A x \in T : m <= x
    <3> HIDE DEF T
    <3>1. T \in SUBSET Nat
      BY DEF T
    <3>2. QED
      BY <2>1, <3>1, LeastExists
  <2>3. m \in Nat /\ m <= NumEndpoints /\ ~(k * m <= Cardinality(Up(m)))
    OBVIOUS
  <2>4. m # 0
    <3>1. Cardinality(Up(0)) \in Nat
      BY <1>2
    <3>2. k * 0 = 0
      BY <1>0
    <3>3. k * 0 <= Cardinality(Up(0))
      BY <3>1, <3>2
    <3>4. QED
      BY <2>3, <3>3, Zenon
  <2>5. m - 1 \in Nat /\ m - 1 <= NumEndpoints /\ m - 1 \notin T /\ m \in Pool!Endpoints
    BY <2>2, <2>3, <2>4, <1>0 DEF Pool!Endpoints
  <2>6. k * (m - 1) <= Cardinality(Up(m - 1))
    BY <2>5
  <2>7. Up(m) = Up(m - 1) \cup Pool!InFlight(m) /\ Up(m - 1) \cap Pool!InFlight(m) = {}
    <3>1. \A x : x \in 1..m <=> x \in 1..(m - 1) \/ x = m
      BY <2>3, <2>5
    <3>2. m \notin 1..(m - 1)
      BY <2>3
    <3>3. QED
      BY <3>1, <3>2 DEF Pool!InFlight
  <2>8. IsFiniteSet(Pool!InFlight(m)) /\ Cardinality(Pool!InFlight(m)) \in Nat
    BY PoolSetsAreFinite DEF Pool!InFlight
  <2>9. Cardinality(Up(m)) = Cardinality(Up(m - 1)) + Cardinality(Pool!InFlight(m))
    <3>1. IsFiniteSet(Up(m - 1)) /\ Cardinality(Up(m - 1)) \in Nat
      BY <1>2, <2>5
    <3> HIDE DEF Up
    <3>2. Cardinality(Up(m)) = Cardinality(Up(m - 1)) + Cardinality(Pool!InFlight(m)) - Cardinality({})
      BY <2>7, <2>8, <3>1, FS_Union
    <3>3. Cardinality({}) = 0
      BY FS_EmptySet
    <3>4. QED
      BY <2>8, <3>1, <3>2, <3>3
  <2>10. k <= Cardinality(Pool!InFlight(m))
    BY <1>1, <2>5
  <2>11. k * m = k * (m - 1) + k
    BY <1>0, <2>3
  <2>12. k * m \in Nat /\ k * (m - 1) \in Nat /\ Cardinality(Up(m - 1)) \in Nat
    <3>1. Cardinality(Up(m - 1)) \in Nat
      BY <1>2, <2>5
    <3> HIDE DEF Up, k
    <3>2. k * m \in Nat /\ k * (m - 1) \in Nat
      BY <1>0, <2>3, <2>5
    <3>3. QED
      BY <3>1, <3>2
  <2> HIDE DEF Up, k, T
  <2>13. k * m <= Cardinality(Up(m))
    BY <1>0, <2>6, <2>8, <2>9, <2>10, <2>11, <2>12
  <2>14. QED
    BY <2>3, <2>13
<1>4. k * NumEndpoints <= Cardinality(Up(NumEndpoints))
  BY <1>0, <1>3
<1>5. Cardinality(Up(NumEndpoints)) < Cardinality(PoolWorkers)
  <2>1. Up(NumEndpoints) \subseteq PoolWorkers \ {w}
    OBVIOUS
  <2>2. IsFiniteSet(PoolWorkers \ {w}) /\ Cardinality(PoolWorkers \ {w}) = Cardinality(PoolWorkers) - 1
        /\ Cardinality(PoolWorkers) \in Nat
    BY FS_RemoveElement, PoolSetsAreFinite DEF Pool!BoundsAssumption
  <2> HIDE DEF Up
  <2>3. Cardinality(Up(NumEndpoints)) <= Cardinality(PoolWorkers) - 1
    BY <2>1, <2>2, FS_Subset
  <2>4. Cardinality(Up(NumEndpoints)) \in Nat
    BY <1>0, <1>2
  <2>5. QED
    BY <2>2, <2>3, <2>4
<1>6. /\ k * NumEndpoints \in Nat /\ Cardinality(Up(NumEndpoints)) \in Nat
      /\ Cardinality(PoolWorkers) \in Nat
  BY <1>0, <1>2, PoolSetsAreFinite
<1> HIDE DEF Up, k
<1>7. k * NumEndpoints < Cardinality(PoolWorkers)
  BY <1>4, <1>5, <1>6
<1>8. QED
  BY <1>7 DEF k

-----------------------------------------------------------------------------
(* The steps.                                                              *)

LEMMA PoolOffIsTyped == ASSUME Pool!BoundsAssumption PROVE Pool!Off \in Pool!Holdings
  BY DEF Pool!BoundsAssumption, Pool!Off, Pool!Holdings

LEMMA PoolStartIsTyped ==
  /\ Pool!NoPass \in Pool!Passes /\ [Pool!NoPass EXCEPT !.pc = "load"] \in Pool!Passes
  /\ Pool!Unloaded \in [Pool!Endpoints -> Pool!Loads]
<1>1. Pool!NoPass \in Pool!Passes /\ [Pool!NoPass EXCEPT !.pc = "load"] \in Pool!Passes
  BY DEF Pool!NoPass, Pool!Passes
<1>2. [outstanding |-> 0, requests |-> 0] \in Pool!Loads
  BY DEF Pool!Loads
<1>3. QED
  BY <1>1, <1>2 DEF Pool!Unloaded

(* Without a request sent or answered the counts stay.                     *)
LEMMA PoolCountsStay ==
  ASSUME PoolRequestsCounted, endpoint' = endpoint,
         \A v \in PoolWorkers : \/ worker'[v] = worker[v]
                                \/ worker'[v].pc # "call" /\ worker[v].pc # "call"
                                \/ worker'[v].pc = worker[v].pc /\ worker'[v].at = worker[v].at
  PROVE  PoolRequestsCounted'
<1>1. \A e : Pool!InFlight(e)' = Pool!InFlight(e)
  BY DEF Pool!InFlight
<1>2. QED
  BY <1>1 DEF PoolRequestsCounted

LEMMA PoolNoCallsCounted ==
  ASSUME Pool!BoundsAssumption, endpoint' = Pool!Unloaded, \A v \in PoolWorkers : worker'[v].pc # "call"
  PROVE  PoolRequestsCounted'
<1>1. SUFFICES ASSUME NEW e \in Pool!Endpoints
               PROVE  /\ endpoint'[e].outstanding = Cardinality(Pool!InFlight(e)')
                      /\ (endpoint'[e].outstanding - 1) * NumEndpoints < Cardinality(PoolWorkers)
  BY DEF PoolRequestsCounted
<1>2. Pool!InFlight(e)' = {}
  BY DEF Pool!InFlight
<1>3. endpoint'[e].outstanding = 0 /\ Cardinality(Pool!InFlight(e)') = 0
  BY <1>2, FS_EmptySet DEF Pool!Unloaded
<1>4. Cardinality(PoolWorkers) \in Nat /\ NumEndpoints \in Nat \ {0}
  BY PoolSetsAreFinite DEF Pool!Endpoints, Pool!BoundsAssumption
<1>5. (0 - 1) * NumEndpoints < 0
  BY <1>4
<1>6. QED
  BY <1>3, <1>4, <1>5

LEMMA PoolInitKeeps == ASSUME Pool!BoundsAssumption, Pool!Init PROVE PoolIInv
<1>1. Pool!TypeOK
  <2>1. worker \in [PoolWorkers -> Pool!Holdings]
    BY PoolOffIsTyped DEF Pool!Init
  <2>2. manifest \in Pool!Manifests
    BY DEF Pool!Init, Pool!Manifests, Pool!BoundsAssumption
  <2>3. queue \in Seq(Pool!Chunks) /\ channel \in Seq(Pool!Outcomes)
    BY DEF Pool!Init
  <2>4. /\ config \in 1..MaxPoolModels /\ failures \in 0..MaxFailures
        /\ vector \in [Pool!Chunks -> 0..MaxPoolModels]
    BY DEF Pool!Init, Pool!BoundsAssumption
  <2>5. pass \in Pool!Passes /\ endpoint \in [Pool!Endpoints -> Pool!Loads]
    BY PoolStartIsTyped DEF Pool!Init
  <2>6. /\ chunks \subseteq Pool!Chunks /\ stop \in BOOLEAN
        /\ outcome \in {"none", "ok", "no_results", "error"}
    BY DEF Pool!Init
  <2>7. QED
    BY <2>1, <2>2, <2>3, <2>4, <2>5, <2>6 DEF Pool!TypeOK
<1>2. PoolBatchesAreChunks /\ PoolPageAccounted
  BY DEF Pool!Init, PoolBatchesAreChunks, PoolPageAccounted, Pool!Off, Pool!NoPass
<1>3. PoolRequestsCounted
  <2>1. SUFFICES ASSUME NEW e \in Pool!Endpoints
                 PROVE  /\ endpoint[e].outstanding = Cardinality(Pool!InFlight(e))
                        /\ (endpoint[e].outstanding - 1) * NumEndpoints < Cardinality(PoolWorkers)
    BY DEF PoolRequestsCounted
  <2>2. Pool!InFlight(e) = {}
    BY DEF Pool!InFlight, Pool!Init, Pool!Off
  <2>3. endpoint[e].outstanding = 0 /\ Cardinality(Pool!InFlight(e)) = 0
    BY <2>2, FS_EmptySet DEF Pool!Init, Pool!Unloaded
  <2>4. Cardinality(PoolWorkers) \in Nat /\ NumEndpoints \in Nat \ {0}
    BY PoolSetsAreFinite DEF Pool!Endpoints, Pool!BoundsAssumption
  <2>5. (0 - 1) * NumEndpoints < 0
    BY <2>4
  <2>6. QED
    BY <2>3, <2>4, <2>5
<1>4. QED
  BY <1>1, <1>2, <1>3 DEF PoolIInv

(* Steps outside of the pool leave it alone.                               *)
LEMMA PoolOutsideKeeps ==
  ASSUME PoolIInv, UNCHANGED Pool!poolVars, pass'.pc # "pool", Pool!TypeOK'
  PROVE  PoolIInv'
<1>1. PoolRequestsCounted'
  BY PoolCountsStay DEF PoolIInv, Pool!poolVars
<1>2. PoolBatchesAreChunks' /\ PoolPageAccounted'
  BY DEF PoolIInv, PoolBatchesAreChunks, PoolPageAccounted, Pool!poolVars
<1>3. QED
  BY <1>1, <1>2 DEF PoolIInv

LEMMA PoolOutsideSteps ==
  ASSUME Pool!BoundsAssumption, PoolIInv,
         \/ \E S \in SUBSET Pool!Chunks : Pool!Project(S)
         \/ Pool!Reconfigure \/ Pool!Start \/ Pool!NothingLeft \/ Pool!Finalize \/ Pool!FinalizeFails
  PROVE  PoolIInv'
<1>1. CASE \E S \in SUBSET Pool!Chunks : Pool!Project(S)
  <2>0. PICK S \in SUBSET Pool!Chunks : Pool!Project(S)
    BY <1>1
  <2>1. Pool!TypeOK' /\ UNCHANGED Pool!poolVars /\ pass'.pc # "pool"
    <3>1. chunks' \subseteq Pool!Chunks /\ vector' \in [Pool!Chunks -> 0..MaxPoolModels]
      BY <2>0 DEF PoolIInv, Pool!TypeOK, Pool!Project, Pool!BoundsAssumption
    <3>2. /\ UNCHANGED <<config, manifest, pass, Pool!poolVars, failures>> /\ outcome' = "none"
          /\ pass.pc = "idle"
      BY <2>0 DEF Pool!Project
    <3>3. QED
      BY <3>1, <3>2 DEF PoolIInv, Pool!TypeOK, Pool!poolVars
  <2>2. QED
    BY <2>1, PoolOutsideKeeps
<1>2. CASE Pool!Reconfigure
  <2>1. Pool!TypeOK' /\ UNCHANGED Pool!poolVars /\ pass'.pc # "pool"
    BY <1>2 DEF PoolIInv, Pool!TypeOK, Pool!Reconfigure, Pool!poolVars, Pool!BoundsAssumption
  <2>2. QED
    BY <2>1, PoolOutsideKeeps
<1>3. CASE Pool!Start
  <2>1. Pool!TypeOK' /\ UNCHANGED Pool!poolVars /\ pass'.pc # "pool"
    BY <1>3, PoolStartIsTyped
       DEF PoolIInv, Pool!TypeOK, Pool!Start, Pool!poolVars, Pool!NoPass, Pool!Passes
  <2>2. QED
    BY <2>1, PoolOutsideKeeps
<1>4. CASE Pool!NothingLeft
  <2>1. Pool!TypeOK' /\ UNCHANGED Pool!poolVars /\ pass'.pc # "pool"
    <3>1. /\ pass' \in Pool!Passes /\ outcome' \in {"none", "ok", "no_results", "error"}
          /\ pass'.pc # "pool"
      BY <1>4, PoolStartIsTyped
         DEF PoolIInv, Pool!TypeOK, Pool!NothingLeft, Pool!EndPass, Pool!NoPass, Pool!Passes
    <3>2. QED
      BY <1>4, <3>1 DEF PoolIInv, Pool!TypeOK, Pool!NothingLeft, Pool!poolVars
  <2>2. QED
    BY <2>1, PoolOutsideKeeps
<1>5. CASE Pool!Finalize
  <2>1. Pool!TypeOK' /\ UNCHANGED Pool!poolVars /\ pass'.pc # "pool"
    <3>1. manifest' \in Pool!Manifests
      BY <1>5 DEF PoolIInv, Pool!TypeOK, Pool!Finalize, Pool!Manifests, Pool!BoundsAssumption
    <3>2. pass'.pc # "pool" /\ pass' \in Pool!Passes /\ outcome' = "ok"
      BY <1>5, PoolStartIsTyped DEF Pool!Finalize, Pool!EndPass, Pool!NoPass
    <3>3. QED
      BY <1>5, <3>1, <3>2 DEF PoolIInv, Pool!TypeOK, Pool!Finalize, Pool!poolVars
  <2>2. QED
    BY <2>1, PoolOutsideKeeps
<1>6. CASE Pool!FinalizeFails
  <2>1. Pool!TypeOK' /\ UNCHANGED Pool!poolVars /\ pass'.pc # "pool"
    <3>1. pass'.pc # "pool" /\ pass' \in Pool!Passes /\ outcome' = "error"
      BY <1>6, PoolStartIsTyped DEF Pool!FinalizeFails, Pool!EndPass, Pool!NoPass
    <3>2. failures' \in 0..MaxFailures
      BY <1>6 DEF PoolIInv, Pool!TypeOK, Pool!FinalizeFails, Pool!Fault, Pool!BoundsAssumption
    <3>3. QED
      BY <1>6, <3>1, <3>2 DEF PoolIInv, Pool!TypeOK, Pool!FinalizeFails, Pool!poolVars
  <2>2. QED
    BY <2>1, PoolOutsideKeeps
<1>7. QED
  BY <1>1, <1>2, <1>3, <1>4, <1>5, <1>6

LEMMA PoolCrashKeeps == ASSUME Pool!BoundsAssumption, PoolIInv, Pool!Crash PROVE PoolIInv'
<1>1. worker' \in [PoolWorkers -> Pool!Holdings]
  BY PoolOffIsTyped DEF Pool!Crash
<1>2. Pool!TypeOK'
  <2>1. failures' \in 0..MaxFailures
    BY DEF PoolIInv, Pool!TypeOK, Pool!Crash, Pool!Fault, Pool!BoundsAssumption
  <2>2. queue' \in Seq(Pool!Chunks) /\ channel' \in Seq(Pool!Outcomes) /\ pass' \in Pool!Passes
        /\ endpoint' \in [Pool!Endpoints -> Pool!Loads]
    BY PoolStartIsTyped DEF Pool!Crash
  <2>3. UNCHANGED <<config, chunks, vector, manifest>> /\ stop' = FALSE /\ outcome' = "none"
    BY DEF Pool!Crash
  <2>4. QED
    BY <1>1, <2>1, <2>2, <2>3 DEF PoolIInv, Pool!TypeOK
<1>3. PoolRequestsCounted'
  BY PoolNoCallsCounted DEF Pool!Crash, Pool!Off
<1>4. PoolBatchesAreChunks' /\ PoolPageAccounted'
  BY DEF PoolBatchesAreChunks, PoolPageAccounted, Pool!Crash, Pool!Off, Pool!NoPass
<1>5. QED
  BY <1>2, <1>3, <1>4 DEF PoolIInv

LEMMA PoolLoadPageKeeps == ASSUME Pool!BoundsAssumption, PoolIInv, Pool!LoadPage PROVE PoolIInv'
<1>1. Pool!FirstPage \subseteq Pool!Chunks /\ Pool!FirstPage # {}
  BY PoolPageIsPending DEF PoolIInv, Pool!LoadPage
<1>2. Pool!InOrder(Pool!FirstPage) \in Seq(Pool!Chunks)
      /\ \A c \in Pool!FirstPage : \E i \in 1..Len(Pool!InOrder(Pool!FirstPage)) : Pool!InOrder(Pool!FirstPage)[i] = c
  BY <1>1, PoolInOrderEnumerates
<1>3. PICK W \in SUBSET PoolWorkers :
        /\ Cardinality(W) = Pool!Min({Cardinality(PoolWorkers), Cardinality(Pool!FirstPage)})
        /\ worker' = [w \in PoolWorkers |-> IF w \in W THEN [Pool!Off EXCEPT !.pc = "new"] ELSE Pool!Off]
  BY PoolSizes DEF Pool!LoadPage
<1>4. W # {}
  <2>1. Cardinality(PoolWorkers) \in Nat \ {0} /\ Cardinality(Pool!FirstPage) \in Nat \ {0}
    <3>1. IsFiniteSet(PoolWorkers) /\ IsFiniteSet(Pool!FirstPage)
      BY <1>1, PoolSetsAreFinite
    <3>2. PoolWorkers # {} /\ Pool!FirstPage # {}
      BY <1>1 DEF Pool!BoundsAssumption
    <3>3. QED
      BY <3>1, <3>2, FS_EmptySet, FS_CardinalityType
  <2> DEFINE x == Cardinality(PoolWorkers)
             y == Cardinality(Pool!FirstPage)
  <2> HIDE DEF x, y
  <2>2. x \in Nat \ {0} /\ y \in Nat \ {0}
    BY <2>1 DEF x, y
  <2>3. \E m \in {x, y} : \A z \in {x, y} : m <= z
    BY <2>2
  <2>4. Pool!Min({x, y}) \in {x, y}
    BY <2>3 DEF Pool!Min
  <2>5. Cardinality(W) # 0
    BY <1>3, <2>2, <2>4 DEF x, y
  <2>6. QED
    BY <2>5, FS_EmptySet
<1>5. worker' \in [PoolWorkers -> Pool!Holdings]
  <2>1. [Pool!Off EXCEPT !.pc = "new"] \in Pool!Holdings
    BY PoolOffIsTyped DEF Pool!Holdings, Pool!Off
  <2>2. QED
    BY <1>3, <2>1, PoolOffIsTyped
<1>6. Pool!TypeOK'
  <2>1. pass' \in Pool!Passes
    BY <1>1 DEF PoolIInv, Pool!TypeOK, Pool!LoadPage, Pool!Passes
  <2>2. /\ queue' \in Seq(Pool!Chunks) /\ channel' \in Seq(Pool!Outcomes)
        /\ endpoint' \in [Pool!Endpoints -> Pool!Loads]
    BY <1>2, PoolStartIsTyped DEF Pool!LoadPage
  <2>3. UNCHANGED <<config, chunks, vector, manifest, outcome, failures>> /\ stop' = FALSE
    BY DEF Pool!LoadPage
  <2>4. QED
    BY <1>5, <2>1, <2>2, <2>3 DEF PoolIInv, Pool!TypeOK
<1>7. \A v \in PoolWorkers : worker'[v].pc # "call"
  BY <1>3 DEF Pool!Off
<1>8. PoolRequestsCounted'
  BY <1>7, PoolNoCallsCounted DEF Pool!LoadPage
<1>9. PoolBatchesAreChunks'
  BY <1>7 DEF PoolBatchesAreChunks, Pool!LoadPage
<1>10. PoolPageAccounted'
  <2>1. pass'.page = Pool!FirstPage /\ queue' = Pool!InOrder(Pool!FirstPage) /\ stop' = FALSE
    BY DEF Pool!LoadPage, PoolIInv, Pool!TypeOK, Pool!Passes
  <2>2. \E w \in PoolWorkers : worker'[w].pc # "done"
    BY <1>3, <1>4 DEF Pool!Off
  <2>3. \A c \in Pool!FirstPage : \E i \in 1..Len(queue') : queue'[i] = c
    BY <1>2, <2>1
  <2>4. QED
    BY <2>1, <2>2, <2>3 DEF PoolPageAccounted, PoolAccounted
<1>11. QED
  BY <1>6, <1>8, <1>9, <1>10 DEF PoolIInv

(* What an outcome says stays known when the main thread takes it.         *)
LEMMA PoolChannelHead ==
  ASSUME Pool!TypeOK, channel # <<>>
  PROVE  /\ channel = <<Head(channel)>> \o Tail(channel) /\ Head(channel) \in Pool!Outcomes
         /\ Head(channel) = channel[1] /\ 1 \in 1..Len(channel)
         /\ Tail(channel) \in Seq(Pool!Outcomes) /\ Len(Tail(channel)) = Len(channel) - 1
         /\ \A i \in 1..Len(Tail(channel)) : i + 1 \in 1..Len(channel) /\ Tail(channel)[i] = channel[i + 1]
         /\ \A i \in 1..Len(channel) : i = 1 \/ (i - 1 \in 1..Len(Tail(channel)) /\ Tail(channel)[i - 1] = channel[i])
<1>1. channel \in Seq(Pool!Outcomes)
  BY DEF Pool!TypeOK
<1>2. QED
  BY <1>1

LEMMA PoolReceiveKeeps == ASSUME Pool!BoundsAssumption, PoolIInv, Pool!Receive PROVE PoolIInv'
<1> DEFINE m == Head(channel)
<1>1. /\ m \in Pool!Outcomes /\ m = channel[1] /\ 1 \in 1..Len(channel)
      /\ channel' = Tail(channel) /\ channel' \in Seq(Pool!Outcomes)
      /\ \A i \in 1..Len(channel') : i + 1 \in 1..Len(channel) /\ channel'[i] = channel[i + 1]
      /\ \A i \in 1..Len(channel) : i = 1 \/ (i - 1 \in 1..Len(channel') /\ channel'[i - 1] = channel[i])
  BY PoolChannelHead DEF PoolIInv, Pool!Receive
<1>2. m.ok => m.chunk \in Pool!Chunks
  BY <1>1 DEF PoolIInv, PoolBatchesAreChunks
<1>3. m.ok \in BOOLEAN
  BY <1>1 DEF Pool!Outcomes
<1>4. vector' = IF m.ok /\ ~pass.error THEN [vector EXCEPT ![m.chunk] = config] ELSE vector
  BY DEF Pool!Receive
<1>5. pass' = [pass EXCEPT !.error = @ \/ ~m.ok] /\ stop' = (stop \/ ~m.ok)
  BY DEF Pool!Receive
<1> HIDE DEF m
<1>6. /\ vector' \in [Pool!Chunks -> 0..MaxPoolModels]
      /\ \A c \in Pool!Chunks : vector[c] = config => vector'[c] = config
  BY <1>2, <1>4 DEF PoolIInv, Pool!TypeOK, Pool!BoundsAssumption
<1>7. pass' \in Pool!Passes
      /\ pass'.error = (pass.error \/ ~m.ok) /\ pass'.page = pass.page /\ pass.page \subseteq Pool!Chunks
      /\ pass'.pc = pass.pc
  BY <1>3, <1>5 DEF PoolIInv, Pool!TypeOK, Pool!Passes
<1>8. Pool!TypeOK'
  BY <1>1, <1>3, <1>5, <1>6, <1>7 DEF PoolIInv, Pool!TypeOK, Pool!Receive
<1>9. PoolRequestsCounted'
  BY PoolCountsStay DEF PoolIInv, Pool!Receive
<1>10. PoolBatchesAreChunks'
  BY <1>1 DEF PoolIInv, PoolBatchesAreChunks, Pool!Receive
<1>11. PoolFailed => PoolFailed'
  <2>1. CASE pass.error
    BY <2>1, <1>7 DEF PoolFailed
  <2>2. CASE \E i \in 1..Len(channel) : ~channel[i].ok
    <3>1. PICK i \in 1..Len(channel) : ~channel[i].ok
      BY <2>2
    <3>2. CASE i = 1
      BY <1>1, <1>7, <3>1, <3>2 DEF PoolFailed
    <3>3. CASE i # 1
      BY <1>1, <3>1, <3>3 DEF PoolFailed
    <3>4. QED
      BY <3>2, <3>3
  <2>3. QED
    BY <2>1, <2>2 DEF PoolFailed
<1>12. ~m.ok => PoolFailed'
  BY <1>7 DEF PoolFailed
<1>13. PoolPageAccounted'
  <2>1. pass.pc = "pool" /\ queue' = queue /\ worker' = worker /\ config' = config
    BY DEF Pool!Receive
  <2>2. ASSUME NEW c \in pass.page PROVE PoolAccounted(c)'
    <3>0. c \in Pool!Chunks /\ PoolAccounted(c)
      BY <1>7, <2>1 DEF PoolIInv, PoolPageAccounted
    <3>1. CASE vector[c] = config
      BY <3>0, <3>1, <1>6, <2>1 DEF PoolAccounted
    <3>2. CASE \E i \in 1..Len(queue) : queue[i] = c
      BY <3>2, <2>1 DEF PoolAccounted
    <3>3. CASE \E w \in PoolWorkers : worker[w].pc = "call" /\ worker[w].chunk = c
      BY <3>3, <2>1 DEF PoolAccounted
    <3>4. CASE \E i \in 1..Len(channel) : channel[i].ok /\ channel[i].chunk = c
      <4>1. PICK i \in 1..Len(channel) : channel[i].ok /\ channel[i].chunk = c
        BY <3>4
      <4>2. CASE i # 1
        <5>1. i - 1 \in 1..Len(channel') /\ channel'[i - 1].ok /\ channel'[i - 1].chunk = c
          BY <1>1, <4>1, <4>2
        <5>2. QED
          BY <5>1 DEF PoolAccounted
      <4>3. CASE i = 1 /\ ~pass.error
        <5>1. m.ok /\ m.chunk = c
          BY <1>1, <4>1, <4>3
        <5>2. vector' = [vector EXCEPT ![c] = config]
          BY <1>4, <4>3, <5>1
        <5>3. vector'[c] = config
          BY <3>0, <5>2 DEF PoolIInv, Pool!TypeOK
        <5>4. QED
          BY <2>1, <5>3 DEF PoolAccounted
      <4>4. CASE pass.error
        BY <1>11, <4>4 DEF PoolAccounted, PoolFailed
      <4>5. QED
        BY <4>2, <4>3, <4>4
    <3>5. CASE PoolFailed
      BY <1>11, <3>5 DEF PoolAccounted
    <3>6. QED
      BY <3>0, <3>1, <3>2, <3>3, <3>4, <3>5 DEF PoolAccounted
  <2>3. stop' => PoolFailed'
    BY <1>5, <1>11, <1>12, <2>1 DEF PoolIInv, PoolPageAccounted
  <2>4. queue' = <<>> \/ PoolFailed' \/ \E w \in PoolWorkers : worker'[w].pc # "done"
    BY <1>11, <2>1 DEF PoolIInv, PoolPageAccounted
  <2>5. QED
    BY <1>7, <2>2, <2>3, <2>4 DEF PoolPageAccounted
<1>14. QED
  BY <1>8, <1>9, <1>10, <1>13 DEF PoolIInv

LEMMA PoolInsertFailsKeeps == ASSUME Pool!BoundsAssumption, PoolIInv, Pool!InsertFails PROVE PoolIInv'
<1>1. /\ channel' = Tail(channel) /\ channel' \in Seq(Pool!Outcomes)
      /\ \A i \in 1..Len(channel') : i + 1 \in 1..Len(channel) /\ channel'[i] = channel[i + 1]
  BY PoolChannelHead DEF PoolIInv, Pool!InsertFails
<1>2. pass' \in Pool!Passes /\ pass'.error
  BY DEF PoolIInv, Pool!TypeOK, Pool!InsertFails, Pool!Passes
<1>3. Pool!TypeOK'
  <2>1. failures' \in 0..MaxFailures
    BY DEF PoolIInv, Pool!TypeOK, Pool!InsertFails, Pool!Fault, Pool!BoundsAssumption
  <2>2. QED
    BY <1>1, <1>2, <2>1 DEF PoolIInv, Pool!TypeOK, Pool!InsertFails
<1>4. PoolRequestsCounted'
  BY PoolCountsStay DEF PoolIInv, Pool!InsertFails
<1>5. PoolBatchesAreChunks'
  BY <1>1 DEF PoolIInv, PoolBatchesAreChunks, Pool!InsertFails
<1>6. PoolPageAccounted'
  BY <1>2 DEF PoolPageAccounted, PoolAccounted, PoolFailed
<1>7. QED
  BY <1>3, <1>4, <1>5, <1>6 DEF PoolIInv

LEMMA PoolPoolReturnsKeeps == ASSUME Pool!BoundsAssumption, PoolIInv, Pool!PoolReturns PROVE PoolIInv'
<1>1. pass'.pc # "pool" /\ Pool!TypeOK'
  <2>1. pass' \in Pool!Passes /\ outcome' \in {"none", "ok", "no_results", "error"} /\ pass'.pc # "pool"
    BY PoolStartIsTyped
       DEF PoolIInv, Pool!TypeOK, Pool!PoolReturns, Pool!EndPass, Pool!NoPass, Pool!Passes
  <2>2. QED
    BY <2>1 DEF PoolIInv, Pool!TypeOK, Pool!PoolReturns, Pool!poolVars
<1>2. QED
  BY <1>1, PoolOutsideKeeps DEF Pool!PoolReturns

(* A worker is given another client, or none.                              *)
LEMMA PoolHoldingTyped ==
  ASSUME Pool!TypeOK, NEW w \in PoolWorkers, NEW h \in Pool!Holdings, worker' = [worker EXCEPT ![w] = h]
  PROVE  /\ worker' \in [PoolWorkers -> Pool!Holdings] /\ worker'[w] = h
         /\ \A v \in PoolWorkers \ {w} : worker'[v] = worker[v]
  BY DEF Pool!TypeOK

(* A step of a worker that holds no batch, before and after.               *)
LEMMA PoolFreeWorkerKeeps ==
  ASSUME Pool!BoundsAssumption, PoolIInv, NEW w \in PoolWorkers, NEW h \in Pool!Holdings,
         worker[w].pc # "call", h.pc # "call", worker' = [worker EXCEPT ![w] = h],
         UNCHANGED <<config, chunks, vector, manifest, pass, queue, endpoint, outcome>>,
         failures' \in 0..MaxFailures,
         \/ /\ UNCHANGED <<stop, channel>>
            /\ h.pc # "done" \/ stop \/ queue = <<>>
         \/ stop' = TRUE /\ channel' = Append(channel, [chunk |-> 0, ok |-> FALSE])
  PROVE  PoolIInv'
<1>1. /\ worker' \in [PoolWorkers -> Pool!Holdings] /\ worker'[w] = h
      /\ \A v \in PoolWorkers \ {w} : worker'[v] = worker[v]
  BY PoolHoldingTyped DEF PoolIInv
<1>2. channel \in Seq(Pool!Outcomes) /\ [chunk |-> 0, ok |-> FALSE] \in Pool!Outcomes
  BY DEF PoolIInv, Pool!TypeOK, Pool!Outcomes, Pool!BoundsAssumption
<1>3. /\ channel' \in Seq(Pool!Outcomes) /\ Len(channel) \in Nat /\ Len(channel) <= Len(channel')
      /\ \A i \in 1..Len(channel) : i \in 1..Len(channel') /\ channel'[i] = channel[i]
      /\ \A i \in 1..Len(channel') : i \in 1..Len(channel) \/ ~channel'[i].ok
      /\ stop' /\ ~stop => \E i \in 1..Len(channel') : ~channel'[i].ok
      /\ stop => stop' /\ stop' \in BOOLEAN
  <2> DEFINE m == [chunk |-> 0, ok |-> FALSE]
  <2>0. m.ok = FALSE
    OBVIOUS
  <2>1. CASE UNCHANGED <<stop, channel>>
    BY <2>1, <1>2 DEF PoolIInv, Pool!TypeOK
  <2>2. CASE stop' = TRUE /\ channel' = Append(channel, m)
    <3> HIDE DEF m
    <3>1. channel' \in Seq(Pool!Outcomes) /\ Len(channel') = Len(channel) + 1 /\ Len(channel) \in Nat
          /\ channel'[Len(channel) + 1] = m /\ \A i \in 1..Len(channel) : channel'[i] = channel[i]
      BY <2>2, <1>2 DEF m
    <3>2. \A i \in 1..Len(channel') : i \in 1..Len(channel) \/ i = Len(channel) + 1
      BY <3>1
    <3>3. \A i \in 1..Len(channel') : i \in 1..Len(channel) \/ ~channel'[i].ok
      BY <2>0, <3>1, <3>2
    <3>4. Len(channel) + 1 \in 1..Len(channel') /\ ~channel'[Len(channel) + 1].ok
      BY <2>0, <3>1
    <3>5. \A i \in 1..Len(channel) : i \in 1..Len(channel')
      BY <3>1
    <3>6. QED
      BY <2>2, <3>1, <3>3, <3>4, <3>5
  <2>3. QED
    BY <2>1, <2>2
<1>4. Pool!TypeOK'
  BY <1>1, <1>3 DEF PoolIInv, Pool!TypeOK
<1>5. PoolRequestsCounted'
  BY <1>1, PoolCountsStay DEF PoolIInv
<1>6. PoolBatchesAreChunks'
  BY <1>1, <1>3 DEF PoolIInv, PoolBatchesAreChunks
<1>7. PoolFailed => PoolFailed'
  BY <1>3 DEF PoolFailed
<1>8. PoolPageAccounted'
  <2>1. SUFFICES ASSUME pass.pc = "pool"
                 PROVE  /\ \A c \in pass.page : PoolAccounted(c)'
                        /\ stop' => PoolFailed'
                        /\ queue = <<>> \/ PoolFailed' \/ \E v \in PoolWorkers : worker'[v].pc # "done"
    BY DEF PoolPageAccounted
  <2>2. ASSUME NEW c \in pass.page PROVE PoolAccounted(c)'
    <3>1. PoolAccounted(c)
      BY <2>1 DEF PoolIInv, PoolPageAccounted
    <3>2. (\E v \in PoolWorkers : worker[v].pc = "call" /\ worker[v].chunk = c)
            => \E v \in PoolWorkers : worker'[v].pc = "call" /\ worker'[v].chunk = c
      BY <1>1
    <3>3. (\E i \in 1..Len(channel) : channel[i].ok /\ channel[i].chunk = c)
            => \E i \in 1..Len(channel') : channel'[i].ok /\ channel'[i].chunk = c
      BY <1>3
    <3>4. QED
      BY <3>1, <3>2, <3>3, <1>7 DEF PoolAccounted
  <2>3. stop' => PoolFailed'
    BY <1>3, <1>7, <2>1 DEF PoolIInv, PoolPageAccounted, PoolFailed
  <2>4. queue = <<>> \/ PoolFailed' \/ \E v \in PoolWorkers : worker'[v].pc # "done"
    <3>1. CASE stop' = TRUE
      BY <2>3, <3>1
    <3>2. CASE h.pc # "done"
      BY <1>1, <3>2
    <3>3. CASE stop \/ queue = <<>>
      BY <1>3, <2>3, <3>3
    <3>4. QED
      BY <3>1, <3>2, <3>3
  <2>5. QED
    BY <2>2, <2>3, <2>4
<1>9. QED
  BY <1>4, <1>5, <1>6, <1>8 DEF PoolIInv

LEMMA PoolConnectKeeps ==
  ASSUME Pool!BoundsAssumption, PoolIInv, NEW w \in PoolWorkers, Pool!Connect(w)
  PROVE  PoolIInv'
<1> DEFINE h == [worker[w] EXCEPT !.pc = "look"]
<1>1. worker[w] \in Pool!Holdings
  BY DEF PoolIInv, Pool!TypeOK
<1>2. h \in Pool!Holdings /\ h.pc = "look"
  BY <1>1 DEF Pool!Holdings
<1>3. worker' = [worker EXCEPT ![w] = h]
  BY DEF Pool!Connect
<1> HIDE DEF h
<1>4. QED
  BY <1>2, <1>3, PoolFreeWorkerKeeps DEF PoolIInv, Pool!TypeOK, Pool!Connect

LEMMA PoolConnectFailsKeeps ==
  ASSUME Pool!BoundsAssumption, PoolIInv, NEW w \in PoolWorkers, Pool!ConnectFails(w)
  PROVE  PoolIInv'
<1>1. Pool!Off \in Pool!Holdings /\ Pool!Off.pc = "done"
  BY PoolOffIsTyped DEF Pool!Off
<1>2. failures' \in 0..MaxFailures
  BY DEF PoolIInv, Pool!TypeOK, Pool!ConnectFails, Pool!Fault, Pool!BoundsAssumption
<1> QED
  BY <1>1, <1>2, PoolFreeWorkerKeeps DEF Pool!ConnectFails

LEMMA PoolLeaveKeeps ==
  ASSUME Pool!BoundsAssumption, PoolIInv, NEW w \in PoolWorkers, Pool!Leave(w)
  PROVE  PoolIInv'
<1>1. Pool!Off \in Pool!Holdings /\ Pool!Off.pc = "done"
  BY PoolOffIsTyped DEF Pool!Off
<1>2. failures' \in 0..MaxFailures
  BY DEF PoolIInv, Pool!TypeOK, Pool!Leave
<1> QED
  BY <1>1, <1>2, PoolFreeWorkerKeeps DEF Pool!Leave

LEMMA PoolRetryKeeps ==
  ASSUME Pool!BoundsAssumption, PoolIInv, NEW w \in PoolWorkers, Pool!Retry(w)
  PROVE  PoolIInv'
<1> DEFINE h == [worker[w] EXCEPT !.tries = @ + 1]
<1>1. worker[w] \in Pool!Holdings /\ worker[w].tries < MaxAttempts
  BY DEF PoolIInv, Pool!TypeOK, Pool!Retry
<1>2. h \in Pool!Holdings /\ h.pc = worker[w].pc /\ h.chunk = worker[w].chunk /\ h.at = worker[w].at
  BY <1>1 DEF Pool!Holdings, Pool!BoundsAssumption
<1>3. worker' = [worker EXCEPT ![w] = h]
  BY DEF Pool!Retry
<1> HIDE DEF h
<1>4. /\ worker' \in [PoolWorkers -> Pool!Holdings] /\ worker'[w] = h
      /\ \A v \in PoolWorkers \ {w} : worker'[v] = worker[v]
  BY <1>2, <1>3, PoolHoldingTyped DEF PoolIInv
<1>5. \A v \in PoolWorkers : worker'[v].pc = worker[v].pc /\ worker'[v].chunk = worker[v].chunk
                         /\ worker'[v].at = worker[v].at
  BY <1>2, <1>4
<1>6. Pool!TypeOK'
  <2>1. failures' \in 0..MaxFailures
    BY DEF PoolIInv, Pool!TypeOK, Pool!Retry, Pool!Fault, Pool!BoundsAssumption
  <2>2. QED
    BY <1>4, <2>1 DEF PoolIInv, Pool!TypeOK, Pool!Retry
<1>7. PoolRequestsCounted'
  BY <1>5, PoolCountsStay DEF PoolIInv, Pool!Retry
<1>8. PoolBatchesAreChunks'
  BY <1>5 DEF PoolIInv, PoolBatchesAreChunks, Pool!Retry
<1>9. PoolPageAccounted'
  BY <1>5 DEF PoolIInv, PoolPageAccounted, PoolAccounted, PoolFailed, Pool!Retry
<1>10. QED
  BY <1>6, <1>7, <1>8, <1>9 DEF PoolIInv

LEMMA PoolTakeKeeps ==
  ASSUME Pool!BoundsAssumption, PoolIInv, NEW w \in PoolWorkers, Pool!Take(w)
  PROVE  PoolIInv'
<1>1. PICK e \in Pool!Endpoints :
        /\ Pool!LeastLoaded(e)
        /\ worker' = [worker EXCEPT ![w] = [pc |-> "call", chunk |-> Head(queue), at |-> e, tries |-> 1]]
        /\ endpoint' = [endpoint EXCEPT ![e].outstanding = @ + 1, ![e].requests = @ + 1]
  BY DEF Pool!Take
<1> DEFINE h == [pc |-> "call", chunk |-> Head(queue), at |-> e, tries |-> 1]
<1>2. /\ queue \in Seq(Pool!Chunks) /\ queue # <<>> /\ Head(queue) \in Pool!Chunks /\ Head(queue) = queue[1]
      /\ queue' = Tail(queue) /\ queue' \in Seq(Pool!Chunks)
      /\ \A i \in 1..Len(queue) : i = 1 \/ (i - 1 \in 1..Len(queue') /\ queue'[i - 1] = queue[i])
  BY DEF PoolIInv, Pool!TypeOK, Pool!Take
<1>3. h \in Pool!Holdings /\ h.pc = "call" /\ h.chunk = Head(queue) /\ h.at = e
  BY <1>2 DEF Pool!Holdings, Pool!Chunks, Pool!Endpoints, Pool!BoundsAssumption
<1>4. worker' = [worker EXCEPT ![w] = h]
  BY <1>1
<1> HIDE DEF h
<1>5. /\ worker' \in [PoolWorkers -> Pool!Holdings] /\ worker'[w] = h
      /\ \A v \in PoolWorkers \ {w} : worker'[v] = worker[v]
  BY <1>3, <1>4, PoolHoldingTyped DEF PoolIInv
<1>6. endpoint[e] \in Pool!Loads /\ endpoint[e].outstanding \in Nat /\ endpoint[e].requests \in Nat
  BY DEF PoolIInv, Pool!TypeOK, Pool!Loads
<1>7. /\ endpoint' \in [Pool!Endpoints -> Pool!Loads]
      /\ endpoint'[e].outstanding = endpoint[e].outstanding + 1
      /\ \A f \in Pool!Endpoints \ {e} : endpoint'[f] = endpoint[f]
  BY <1>1, <1>6 DEF PoolIInv, Pool!TypeOK, Pool!Loads
<1>8. Pool!TypeOK'
  BY <1>2, <1>5, <1>7 DEF PoolIInv, Pool!TypeOK, Pool!Take
<1>9. worker[w].pc = "look" /\ ~stop
  BY DEF Pool!Take
<1>10. PoolRequestsCounted'
  <2>1. SUFFICES ASSUME NEW f \in Pool!Endpoints
                 PROVE  /\ endpoint'[f].outstanding = Cardinality(Pool!InFlight(f)')
                        /\ (endpoint'[f].outstanding - 1) * NumEndpoints < Cardinality(PoolWorkers)
    BY DEF PoolRequestsCounted
  <2>2. CASE f # e
    <3>1. Pool!InFlight(f)' = Pool!InFlight(f)
      BY <2>2, <1>3, <1>5, <1>9 DEF Pool!InFlight
    <3>2. endpoint'[f] = endpoint[f]
      BY <2>2, <1>7
    <3>3. QED
      BY <3>1, <3>2 DEF PoolIInv, PoolRequestsCounted
  <2>3. CASE f = e
    <3>1. Pool!InFlight(e)' = Pool!InFlight(e) \cup {w} /\ w \notin Pool!InFlight(e)
      BY <1>3, <1>5, <1>9 DEF Pool!InFlight
    <3>2. IsFiniteSet(Pool!InFlight(e))
      BY PoolSetsAreFinite DEF Pool!InFlight
    <3>3. Cardinality(Pool!InFlight(e)') = Cardinality(Pool!InFlight(e)) + 1
      BY <3>1, <3>2, FS_AddElement
    <3>4. endpoint[e].outstanding = Cardinality(Pool!InFlight(e))
      BY DEF PoolIInv, PoolRequestsCounted
    <3>5. endpoint[e].outstanding * NumEndpoints < Cardinality(PoolWorkers)
      BY <1>1, <1>9, PoolLeastLoadedShare DEF PoolIInv
    <3>6. endpoint'[e].outstanding - 1 = endpoint[e].outstanding
      BY <1>6, <1>7
    <3>7. QED
      BY <2>3, <1>7, <3>3, <3>4, <3>5, <3>6
  <2>4. QED
    BY <2>2, <2>3
<1>11. PoolBatchesAreChunks'
  BY <1>2, <1>3, <1>5 DEF PoolIInv, PoolBatchesAreChunks, Pool!Take
<1>12. PoolPageAccounted'
  <2>1. SUFFICES ASSUME pass.pc = "pool"
                 PROVE  /\ \A c \in pass.page : PoolAccounted(c)'
                        /\ stop => PoolFailed'
                        /\ queue' = <<>> \/ PoolFailed' \/ \E v \in PoolWorkers : worker'[v].pc # "done"
    BY DEF PoolPageAccounted, Pool!Take
  <2>2. PoolFailed' <=> PoolFailed
    BY DEF PoolFailed, Pool!Take
  <2>3. ASSUME NEW c \in pass.page PROVE PoolAccounted(c)'
    <3>1. PoolAccounted(c)
      BY <2>1 DEF PoolIInv, PoolPageAccounted
    <3>2. (\E v \in PoolWorkers : worker[v].pc = "call" /\ worker[v].chunk = c)
            => \E v \in PoolWorkers : worker'[v].pc = "call" /\ worker'[v].chunk = c
      BY <1>5, <1>9
    <3>3. (\E i \in 1..Len(queue) : queue[i] = c)
            => (\E i \in 1..Len(queue') : queue'[i] = c)
                 \/ \E v \in PoolWorkers : worker'[v].pc = "call" /\ worker'[v].chunk = c
      BY <1>2, <1>3, <1>5
    <3>4. QED
      BY <3>1, <3>2, <3>3, <2>2 DEF PoolAccounted, Pool!Take
  <2>4. QED
    BY <2>3, <1>3, <1>5, <1>9
<1>13. QED
  BY <1>8, <1>10, <1>11, <1>12 DEF PoolIInv

LEMMA PoolReplyKeeps ==
  ASSUME Pool!BoundsAssumption, PoolIInv, NEW w \in PoolWorkers, NEW ok \in BOOLEAN, worker[w].pc = "call",
         Pool!Reply(w, ok), failures' \in 0..MaxFailures
  PROVE  PoolIInv'
<1> DEFINE h == [Pool!Off EXCEPT !.pc = "look"]
           m == [chunk |-> worker[w].chunk, ok |-> ok]
<1>0. worker[w].at \in Pool!Endpoints /\ worker[w].chunk \in Pool!Chunks /\ worker[w] \in Pool!Holdings
  BY DEF PoolIInv, PoolBatchesAreChunks, Pool!TypeOK
<1>1. PICK e \in Pool!Endpoints : e = worker[w].at
  BY <1>0
<1>2. h \in Pool!Holdings /\ h.pc = "look"
  BY PoolOffIsTyped DEF Pool!Holdings, Pool!Off
<1>3. worker' = [worker EXCEPT ![w] = h]
  BY DEF Pool!Reply
<1>4. m \in Pool!Outcomes /\ m.ok = ok /\ m.chunk = worker[w].chunk
  BY <1>0 DEF Pool!Outcomes, Pool!Holdings
<1>5. channel' = Append(channel, m) /\ channel \in Seq(Pool!Outcomes)
  BY DEF Pool!Reply, PoolIInv, Pool!TypeOK
<1>6. endpoint' = [endpoint EXCEPT ![e].outstanding = @ - 1]
  BY <1>1 DEF Pool!Reply
<1> HIDE DEF h, m
<1>7. /\ worker' \in [PoolWorkers -> Pool!Holdings] /\ worker'[w] = h
      /\ \A v \in PoolWorkers \ {w} : worker'[v] = worker[v]
  BY <1>2, <1>3, PoolHoldingTyped DEF PoolIInv
<1>8. /\ channel' \in Seq(Pool!Outcomes) /\ Len(channel) \in Nat /\ Len(channel') = Len(channel) + 1
      /\ channel'[Len(channel) + 1] = m
      /\ \A i \in 1..Len(channel) : i \in 1..Len(channel') /\ channel'[i] = channel[i]
      /\ \A i \in 1..Len(channel') : i \in 1..Len(channel) \/ i = Len(channel) + 1
      /\ Len(channel) + 1 \in 1..Len(channel')
  BY <1>4, <1>5
<1>9. /\ endpoint[e] \in Pool!Loads /\ endpoint[e].outstanding \in Nat
      /\ endpoint[e].outstanding = Cardinality(Pool!InFlight(e))
      /\ (endpoint[e].outstanding - 1) * NumEndpoints < Cardinality(PoolWorkers)
  BY <1>1 DEF PoolIInv, Pool!TypeOK, Pool!Loads, PoolRequestsCounted
<1>10. /\ IsFiniteSet(Pool!InFlight(e)) /\ w \in Pool!InFlight(e)
       /\ Pool!InFlight(e)' = Pool!InFlight(e) \ {w}
  <2>1. Pool!InFlight(e) \subseteq PoolWorkers
    BY DEF Pool!InFlight
  <2>2. w \in Pool!InFlight(e)
    BY <1>1 DEF Pool!InFlight
  <2>3. Pool!InFlight(e)' = Pool!InFlight(e) \ {w}
    BY <1>2, <1>7 DEF Pool!InFlight
  <2>4. QED
    BY <2>1, <2>2, <2>3, PoolSetsAreFinite
<1>11. endpoint[e].outstanding >= 1 /\ Cardinality(Pool!InFlight(e)') = endpoint[e].outstanding - 1
  <2>1. Cardinality(Pool!InFlight(e)') = Cardinality(Pool!InFlight(e)) - 1
    BY <1>10, FS_RemoveElement
  <2>2. Cardinality(Pool!InFlight(e)) # 0
    BY <1>10, FS_EmptySet
  <2>3. QED
    BY <1>9, <2>1, <2>2
<1>12. /\ endpoint' \in [Pool!Endpoints -> Pool!Loads]
       /\ endpoint'[e].outstanding = endpoint[e].outstanding - 1
       /\ \A f \in Pool!Endpoints \ {e} : endpoint'[f] = endpoint[f]
  <2> DEFINE x == [endpoint[e] EXCEPT !.outstanding = @ - 1]
  <2>1. x \in Pool!Loads /\ x.outstanding = endpoint[e].outstanding - 1
    BY <1>9, <1>11 DEF Pool!Loads
  <2>2. endpoint' = [endpoint EXCEPT ![e] = x] /\ endpoint \in [Pool!Endpoints -> Pool!Loads]
    BY <1>6 DEF PoolIInv, Pool!TypeOK
  <2> HIDE DEF x
  <2>3. QED
    BY <2>1, <2>2
<1>13. Pool!TypeOK'
  BY <1>7, <1>8, <1>12 DEF PoolIInv, Pool!TypeOK, Pool!Reply
<1>14. PoolRequestsCounted'
  <2>1. SUFFICES ASSUME NEW f \in Pool!Endpoints
                 PROVE  /\ endpoint'[f].outstanding = Cardinality(Pool!InFlight(f)')
                        /\ (endpoint'[f].outstanding - 1) * NumEndpoints < Cardinality(PoolWorkers)
    BY DEF PoolRequestsCounted
  <2>2. CASE f # e
    <3>1. Pool!InFlight(f)' = Pool!InFlight(f)
      BY <2>2, <1>1, <1>2, <1>7 DEF Pool!InFlight
    <3>2. endpoint'[f] = endpoint[f]
      BY <2>2, <1>12
    <3>3. QED
      BY <3>1, <3>2 DEF PoolIInv, PoolRequestsCounted
  <2>3. CASE f = e
    <3>1. NumEndpoints \in Nat /\ Cardinality(PoolWorkers) \in Nat
      BY PoolSetsAreFinite DEF Pool!BoundsAssumption
    <3>2. (endpoint'[e].outstanding - 1) * NumEndpoints
            = (endpoint[e].outstanding - 1) * NumEndpoints - NumEndpoints
      BY <1>9, <1>12, <3>1
    <3>3. (endpoint[e].outstanding - 1) * NumEndpoints \in Int
      BY <1>9, <3>1
    <3>4. (endpoint'[e].outstanding - 1) * NumEndpoints < Cardinality(PoolWorkers)
      BY <1>9, <3>1, <3>2, <3>3
    <3>5. QED
      BY <2>3, <3>4, <1>11, <1>12
  <2>4. QED
    BY <2>2, <2>3
<1>15. PoolBatchesAreChunks'
  <2>1. \A v \in PoolWorkers : worker'[v].pc = "call" =>
            worker'[v].chunk \in Pool!Chunks /\ worker'[v].at \in Pool!Endpoints
    BY <1>2, <1>7 DEF PoolIInv, PoolBatchesAreChunks
  <2>2. \A i \in 1..Len(channel') : channel'[i].ok => channel'[i].chunk \in Pool!Chunks
    BY <1>0, <1>4, <1>8 DEF PoolIInv, PoolBatchesAreChunks
  <2>3. QED
    BY <2>1, <2>2 DEF PoolBatchesAreChunks
<1>16. PoolPageAccounted'
  <2>1. SUFFICES ASSUME pass.pc = "pool"
                 PROVE  /\ \A c \in pass.page : PoolAccounted(c)'
                        /\ stop => PoolFailed'
                        /\ queue = <<>> \/ PoolFailed' \/ \E v \in PoolWorkers : worker'[v].pc # "done"
    BY DEF PoolPageAccounted, Pool!Reply
  <2>2. PoolFailed => PoolFailed'
    BY <1>8 DEF PoolFailed, Pool!Reply
  <2>3. ~ok => PoolFailed'
    BY <1>4, <1>8 DEF PoolFailed
  <2>4. ASSUME NEW c \in pass.page PROVE PoolAccounted(c)'
    <3>1. PoolAccounted(c)
      BY <2>1 DEF PoolIInv, PoolPageAccounted
    <3>2. (\E v \in PoolWorkers : worker[v].pc = "call" /\ worker[v].chunk = c)
            => \/ \E v \in PoolWorkers : worker'[v].pc = "call" /\ worker'[v].chunk = c
               \/ worker[w].chunk = c
      BY <1>7
    <3>3. (\E i \in 1..Len(channel) : channel[i].ok /\ channel[i].chunk = c)
            => \E i \in 1..Len(channel') : channel'[i].ok /\ channel'[i].chunk = c
      BY <1>8
    <3>4. worker[w].chunk = c
            => PoolFailed' \/ \E i \in 1..Len(channel') : channel'[i].ok /\ channel'[i].chunk = c
      BY <1>4, <1>8, <2>3
    <3>5. QED
      BY <3>1, <3>2, <3>3, <3>4, <2>2 DEF PoolAccounted, Pool!Reply
  <2>5. \E v \in PoolWorkers : worker'[v].pc # "done"
    BY <1>2, <1>7
  <2>6. QED
    BY <2>1, <2>2, <2>4, <2>5 DEF PoolIInv, PoolPageAccounted
<1>17. QED
  BY <1>13, <1>14, <1>15, <1>16 DEF PoolIInv

LEMMA PoolCallEndsKeeps ==
  ASSUME Pool!BoundsAssumption, PoolIInv, NEW w \in PoolWorkers, Pool!Answer(w) \/ Pool!GiveUp(w)
  PROVE  PoolIInv'
<1>1. CASE Pool!Answer(w)
  BY <1>1, PoolReplyKeeps DEF PoolIInv, Pool!TypeOK, Pool!Answer
<1>2. CASE Pool!GiveUp(w)
  <2>1. failures' \in 0..MaxFailures
    BY <1>2 DEF PoolIInv, Pool!TypeOK, Pool!GiveUp, Pool!Fault, Pool!BoundsAssumption
  <2>2. QED
    BY <1>2, <2>1, PoolReplyKeeps DEF Pool!GiveUp
<1>3. QED
  BY <1>1, <1>2

LEMMA PoolNextKeeps == ASSUME Pool!BoundsAssumption, PoolIInv, [Pool!Next]_(Pool!vars) PROVE PoolIInv'
<1>1. CASE UNCHANGED Pool!vars
  <2>1. Pool!TypeOK' /\ PoolBatchesAreChunks'
    BY <1>1 DEF PoolIInv, Pool!TypeOK, PoolBatchesAreChunks, Pool!vars, Pool!poolVars
  <2>2. PoolRequestsCounted'
    BY <1>1, PoolCountsStay DEF PoolIInv, Pool!vars, Pool!poolVars
  <2>3. PoolPageAccounted'
    BY <1>1 DEF PoolIInv, PoolPageAccounted, PoolAccounted, PoolFailed, Pool!vars, Pool!poolVars
  <2>4. QED
    BY <2>1, <2>2, <2>3 DEF PoolIInv
<1>2. CASE Pool!MainStep \/ Pool!InsertFails \/ Pool!FinalizeFails \/ Pool!Crash \/ Pool!Reconfigure \/ Pool!Start
           \/ \E S \in SUBSET Pool!Chunks : Pool!Project(S)
  BY <1>2, PoolOutsideSteps, PoolLoadPageKeeps, PoolReceiveKeeps, PoolInsertFailsKeeps,
     PoolPoolReturnsKeeps, PoolCrashKeeps
     DEF Pool!MainStep
<1>3. CASE \E w \in PoolWorkers : Pool!WorkerStep(w) \/ Pool!ConnectFails(w) \/ Pool!Retry(w) \/ Pool!GiveUp(w)
  BY <1>3, PoolConnectKeeps, PoolTakeKeeps, PoolLeaveKeeps, PoolCallEndsKeeps, PoolConnectFailsKeeps,
     PoolRetryKeeps
     DEF Pool!WorkerStep
<1>4. QED
  BY <1>1, <1>2, <1>3 DEF Pool!Next

LEMMA PoolInvariance == ASSUME Pool!BoundsAssumption PROVE Pool!Spec => []PoolIInv
<1>1. Pool!Init => PoolIInv
  BY PoolInitKeeps
<1>2. PoolIInv /\ [Pool!Next]_(Pool!vars) => PoolIInv'
  BY PoolNextKeeps
<1>3. QED
  BY <1>1, <1>2, PTL DEF Pool!Spec

(* The main thread leaves the loop of outcomes for the next page.          *)
LEMMA PoolReturnsStored ==
  ASSUME Pool!BoundsAssumption, PoolIInv, Pool!Next, pass.pc = "pool", pass'.pc = "load"
  PROVE  pass.page \cap Pool!Pending = {}
<1>1. pass \in Pool!Passes
  BY DEF PoolIInv, Pool!TypeOK
<1>2. Pool!PoolReturns
  <2>1. CASE pass' = pass \/ \E e \in BOOLEAN : pass' = [pass EXCEPT !.error = e]
    BY <1>1, <2>1 DEF Pool!Passes
  <2>2. CASE Pool!Receive \/ Pool!InsertFails
    BY <1>1, <2>2 DEF Pool!Passes, Pool!Receive, Pool!InsertFails
  <2>3. CASE \E w \in PoolWorkers : Pool!WorkerStep(w) \/ Pool!ConnectFails(w) \/ Pool!Retry(w) \/ Pool!GiveUp(w)
    BY <2>3
       DEF Pool!WorkerStep, Pool!ConnectFails, Pool!Retry, Pool!GiveUp, Pool!Connect, Pool!Take,
           Pool!Leave, Pool!Answer, Pool!Reply
  <2>4. CASE Pool!Crash
    BY <2>4 DEF Pool!Crash, Pool!NoPass
  <2>5. QED
    BY <2>2, <2>3, <2>4
       DEF Pool!Next, Pool!MainStep, Pool!Project, Pool!Reconfigure, Pool!Start, Pool!LoadPage,
           Pool!NothingLeft,
       Pool!Finalize, Pool!FinalizeFails
<1>3. channel = <<>> /\ Pool!Closed /\ ~pass.error
  BY <1>2 DEF Pool!PoolReturns, Pool!EndPass, Pool!NoPass
<1>4. ~PoolFailed
  BY <1>3 DEF PoolFailed
<1>5. queue = <<>>
  BY <1>3, <1>4 DEF PoolIInv, PoolPageAccounted, Pool!Closed
<1>6. \A c \in pass.page : vector[c] = config
  BY <1>3, <1>4, <1>5 DEF PoolIInv, PoolPageAccounted, PoolAccounted, Pool!Closed
<1>7. QED
  BY <1>6 DEF Pool!Pending

(* The types of the variables, for any number of chunks, workers and       *)
(* endpoints, any page and any bound on retries and faults.                *)
LEMMA PoolTypeCorrect ==
  ASSUME Pool!BoundsAssumption
  PROVE  Pool!Spec => []Pool!TypeOK
<1>1. PoolIInv => Pool!TypeOK
  BY DEF PoolIInv
<1>2. QED
  BY PoolInvariance, <1>1, PTL

(* The least-loaded rule spreads the requests over the endpoints: none has *)
(* a whole request more in flight than its even share of the workers, and  *)
(* the counter of an endpoint is the number of workers that wait for it.   *)
THEOREM PoolEvenlyOutstandingAlways ==
  ASSUME Pool!BoundsAssumption
  PROVE  Pool!Spec => []Pool!EvenlyOutstanding
<1>1. PoolIInv => Pool!EvenlyOutstanding
  BY PoolSizes DEF PoolIInv, PoolRequestsCounted, Pool!EvenlyOutstanding
<1>2. QED
  BY PoolInvariance, <1>1, PTL

(* A pool that returns without an error has stored every batch of its      *)
(* page.                                                                   *)
THEOREM PoolStoresItsPageAlways ==
  ASSUME Pool!BoundsAssumption
  PROVE  Pool!Spec => Pool!PoolStoresItsPage
<1>1. PoolIInv /\ [Pool!Next]_(Pool!vars) =>
        [pass.pc = "pool" /\ pass'.pc = "load" => pass.page \cap Pool!Pending = {}]_(Pool!vars)
  BY PoolReturnsStored
<1>2. QED
  BY PoolInvariance, <1>1, PTL DEF Pool!Spec, Pool!PoolStoresItsPage


-----------------------------------------------------------------------------
(* The zones.  The workers rest outside of the enrichment, and a page of   *)
(* the derivation is of rows that are official.                            *)

(* Sizes are those the theorems on finite sets are about.                  *)
LEMMA ZonesSizes ==
  ASSUME NEW S
  PROVE  Zones!Cardinality(S) = Cardinality(S) /\ (Zones!IsFiniteSet(S) <=> IsFiniteSet(S))
BY DEF Zones!Cardinality, Cardinality, Zones!IsFiniteSet, IsFiniteSet

(* The workers rest outside of the enrichment, so that the rows a page of  *)
(* the derivation was read from stay as they were; one that is about to    *)
(* cache a row has it.                                                     *)
ZonesWorkersFollowPhase ==
  /\ phase \in {"idle", "derive"} => \A w \in Zones!Workers : slice[w] = <<>>
  /\ \A w \in Zones!Workers : stage[w] = "cache" => answer[w] \in Zones!RowType

ZonesOfficial(d, hash) == row[d] # None /\ row[d].status = "ok" /\ row[d].hash = hash /\ hash # None

ZonesPageIsOfficial ==
  /\ phase # "derive" => page = <<>>
  /\ \A i \in 1..Len(page) : ZonesOfficial(page[i][1], page[i][2])

(* The decisions a pass has behind it.                                     *)
ZonesPassed == {d \in Zones!Documents \ Nameless : after # None /\ ~Zones!Before(after, d)}

ZonesConsideredPassed ==
  IF phase = "enrich" THEN considered <= Cardinality(ZonesPassed) ELSE considered = 0

ZonesIInv ==
  /\ Zones!TypeOK /\ ZonesWorkersFollowPhase /\ ZonesPageIsOfficial
  /\ Zones!UnitsNeedOfficialZones /\ ZonesConsideredPassed

ZonesAssumptions == Zones!BoundsAssumption /\ Zones!NoneAssumption

-----------------------------------------------------------------------------
(* Pages.                                                                  *)

(* A set of decisions has a first one, in the direction of the scan.       *)
LEMMA ZonesFirstExists ==
  ASSUME NumDocs \in Nat, NEW S \in SUBSET Zones!Documents, S # {}
  PROVE  \E x \in S : \A y \in S : y # x => Zones!Before(x, y)
<1>1. S \in SUBSET Nat /\ \A y \in S : y <= NumDocs
  BY DEF Zones!Documents
<1>2. CASE order = "oldest"
  <2>1. PICK x \in S : \A y \in S : x <= y
    BY <1>1, LeastExists
  <2> QED BY <1>1, <1>2, <2>1 DEF Zones!Before
<1>3. CASE order # "oldest"
  <2>1. PICK x \in S : \A y \in S : y <= x
    BY <1>1, GreatestExists
  <2> QED BY <1>1, <1>3, <2>1 DEF Zones!Before
<1> QED BY <1>2, <1>3

LEMMA ZonesDocumentsAreFinite ==
  ASSUME NumDocs \in Nat, NEW S \in SUBSET Zones!Documents
  PROVE  /\ IsFiniteSet(S) /\ Cardinality(S) \in Nat /\ Cardinality(S) <= NumDocs
<1>1. IsFiniteSet(Zones!Documents) /\ Cardinality(Zones!Documents) = NumDocs
  BY FS_Interval DEF Zones!Documents
<1> QED BY <1>1, FS_Subset, FS_CardinalityType

(* What a sequence of n decisions goes through is no more than n of them.  *)
LEMMA ZonesRangeIsSmall ==
  ASSUME NEW S, NEW n \in Nat, NEW s \in [1..n -> S]
  PROVE  IsFiniteSet({s[i] : i \in 1..n}) /\ Cardinality({s[i] : i \in 1..n}) <= n
<1>1. s \in Surjection(1..n, {s[i] : i \in 1..n})
  BY DEF Surjection
<1>2. IsFiniteSet(1..n) /\ Cardinality(1..n) = n
  BY FS_Interval
<1> QED BY <1>1, <1>2, FS_Surjection

(* There is a page of every size up to the number of decisions: the        *)
(* smallest size without one would be one more than a size that has one.   *)
LEMMA ZonesPageExists ==
  ASSUME NumDocs \in Nat, NEW S \in SUBSET Zones!Documents, NEW n \in Nat, n <= Cardinality(S)
  PROVE  \E s \in [1..n -> S] : Zones!IsPage(s, S)
<1> DEFINE T == {m \in Nat : m <= Cardinality(S) /\ ~(\E s \in [1..m -> S] : Zones!IsPage(s, S))}
<1> SUFFICES ASSUME T # {} PROVE FALSE
  OBVIOUS
<1>0. IsFiniteSet(S) /\ Cardinality(S) \in Nat
  BY ZonesDocumentsAreFinite
<1>1. PICK m \in T : \A k \in T : m <= k
  <2> HIDE DEF T
  <2>1. T \in SUBSET Nat
    BY DEF T
  <2> QED BY <2>1, LeastExists
<1>2. m \in Nat /\ m <= Cardinality(S) /\ ~(\E s \in [1..m -> S] : Zones!IsPage(s, S))
  OBVIOUS
<1>3. m # 0
  <2> SUFFICES ASSUME m = 0 PROVE FALSE
    OBVIOUS
  <2> DEFINE e == [i \in 1..0 |-> NumDocs]
  <2>1. e \in [1..0 -> S] /\ Zones!IsPage(e, S)
    BY DEF Zones!IsPage
  <2> QED BY <1>2, <2>1
<1>4. m - 1 \in Nat /\ m - 1 \notin T
  BY <1>1, <1>2, <1>3
<1>5. PICK s \in [1..(m - 1) -> S] : Zones!IsPage(s, S)
  BY <1>0, <1>2, <1>4
<1> DEFINE R == S \ {s[i] : i \in 1..(m - 1)}
<1>6. R # {}
  <2> SUFFICES ASSUME R = {} PROVE FALSE
    OBVIOUS
  <2>1. S = {s[i] : i \in 1..(m - 1)}
    OBVIOUS
  <2>2. Cardinality({s[i] : i \in 1..(m - 1)}) <= m - 1
    <3>1. \A k \in Nat : \A f \in [1..k -> S] : Cardinality({f[i] : i \in 1..k}) <= k
      BY ZonesRangeIsSmall
    <3> QED BY <1>4, <1>5, <3>1
  <2>3. Cardinality(S) <= m - 1
    BY <2>1, <2>2
  <2> QED BY <1>0, <1>2, <2>3
<1>7. PICK x \in R : \A y \in R : y # x => Zones!Before(x, y)
  <2> HIDE DEF R
  <2>1. R \in SUBSET Zones!Documents
    BY DEF R
  <2> QED BY <1>6, <2>1, ZonesFirstExists
<1> DEFINE t == [i \in 1..m |-> IF i = m THEN x ELSE s[i]]
<1>8. t \in [1..m -> S]
  BY <1>4
<1>9. \A i, j \in 1..m : i < j => Zones!Before(t[i], t[j])
  <2> SUFFICES ASSUME NEW i \in 1..m, NEW j \in 1..m, i < j PROVE Zones!Before(t[i], t[j])
    OBVIOUS
  <2>1. i \in 1..(m - 1) /\ t[i] = s[i]
    BY <1>2
  <2>2. CASE j = m
    <3>1. t[j] = x /\ x \in S /\ \A k \in 1..(m - 1) : s[k] # x
      BY <2>2
    <3>2. Zones!Before(s[i], x)
      BY <1>5, <2>1, <3>1 DEF Zones!IsPage
    <3> QED BY <2>1, <3>1, <3>2
  <2>3. CASE j # m
    <3>1. j \in 1..(m - 1) /\ t[j] = s[j]
      BY <1>2, <2>3
    <3>2. Zones!Before(s[i], s[j])
      BY <1>5, <2>1, <3>1 DEF Zones!IsPage
    <3> QED BY <2>1, <3>1, <3>2
  <2> QED BY <2>2, <2>3
<1>10. ASSUME NEW d \in S
       PROVE  (\E i \in 1..m : t[i] = d) \/ (\A i \in 1..m : Zones!Before(t[i], d))
  <2>1. CASE d = x
    BY <1>2, <1>3, <2>1
  <2>2. CASE d # x /\ d \notin R
    <3>1. PICK i \in 1..(m - 1) : s[i] = d
      BY <2>2
    <3> QED BY <1>2, <3>1
  <2>3. CASE d # x /\ d \in R
    <3>1. Zones!Before(x, d)
      BY <1>7, <2>3
    <3>2. \A i \in 1..(m - 1) : s[i] # d
      BY <2>3
    <3>3. \A i \in 1..(m - 1) : Zones!Before(s[i], d)
      BY <1>5, <3>2 DEF Zones!IsPage
    <3> QED BY <1>2, <3>1, <3>3
  <2> QED BY <2>1, <2>2, <2>3
<1>11. Zones!IsPage(t, S)
  <2>1. DOMAIN t = 1..m
    OBVIOUS
  <2> HIDE DEF t
  <2> QED BY <1>9, <1>10, <2>1 DEF Zones!IsPage
<1> QED BY <1>2, <1>8, <1>11

LEMMA ZonesMinOfTwo ==
  ASSUME NEW a \in Nat, NEW b \in Nat
  PROVE  /\ Zones!Min({a, b}) \in Nat /\ Zones!Min({a, b}) <= a /\ Zones!Min({a, b}) <= b
         /\ Zones!Min({a, b}) \in {a, b}
<1>1. \E x \in {a, b} : \A y \in {a, b} : x <= y
  OBVIOUS
<1> QED BY <1>1 DEF Zones!Min

(* A page of a set of decisions: distinct ones of it, in order.            *)
LEMMA ZonesPageFacts ==
  ASSUME Zones!BoundsAssumption, NEW S \in SUBSET Zones!Documents
  PROVE  /\ Zones!PageOf(S) \in Seq(S) /\ Len(Zones!PageOf(S)) \in Nat
         /\ \A i \in 1..Len(Zones!PageOf(S)) : Zones!PageOf(S)[i] \in S
         /\ \A i, j \in 1..Len(Zones!PageOf(S)) : i < j => Zones!Before(Zones!PageOf(S)[i], Zones!PageOf(S)[j])
<1> DEFINE n == Zones!Min({ZonePage, Cardinality(S)})
<1>1. n \in Nat /\ n <= Cardinality(S)
  BY ZonesDocumentsAreFinite, ZonesMinOfTwo DEF Zones!BoundsAssumption
<1>2. Zones!PageOf(S) = CHOOSE s \in [1..n -> S] : Zones!IsPage(s, S)
  <2>1. Zones!Cardinality(S) = Cardinality(S)
    BY ZonesSizes
  <2>2. QED
    BY <2>1 DEF Zones!PageOf
<1> HIDE DEF n
<1>3. Zones!PageOf(S) \in [1..n -> S] /\ Zones!IsPage(Zones!PageOf(S), S)
  BY <1>1, <1>2, ZonesPageExists DEF Zones!BoundsAssumption
<1>4. Zones!PageOf(S) \in Seq(S) /\ Len(Zones!PageOf(S)) = n
  BY <1>1, <1>3
<1> QED BY <1>1, <1>3, <1>4 DEF Zones!IsPage

(* What is dealt to a worker is a sequence of decisions.                   *)
LEMMA ZonesMultiplesOrdered ==
  ASSUME NEW a \in Nat, NEW b \in Nat, NEW c \in Nat, a <= b
  PROVE  a * c \in Nat /\ a * c <= b * c
<1>1. b = a + (b - a) /\ b - a \in Nat
  OBVIOUS
<1>2. b * c = a * c + (b - a) * c
  BY <1>1
<1>3. (b - a) * c \in Nat /\ a * c \in Nat /\ b * c \in Nat
  BY <1>1
<1> QED BY <1>2, <1>3

LEMMA ZonesDealIsTyped ==
  ASSUME Zones!BoundsAssumption, NEW docs \in Seq(Zones!Documents), docs # <<>>
  PROVE  Zones!Deal(docs) \in [Zones!Workers -> Seq(Zones!Documents)]
<1> DEFINE crew == Zones!Min({NumWorkers, Len(docs)})
           Share(w) == (Len(docs) - w) \div crew + 1
           Part(w) == [k \in 1..Share(w) |-> docs[w + (k - 1) * crew]]
<1>0. Len(docs) \in Nat /\ Len(docs) > 0
  OBVIOUS
<1>1. crew \in Nat /\ crew > 0 /\ crew <= Len(docs)
  BY <1>0, ZonesMinOfTwo DEF Zones!BoundsAssumption
<1>2. Zones!Deal(docs) = [w \in Zones!Workers |-> IF w > crew THEN <<>> ELSE Part(w)]
  BY DEF Zones!Deal
<1> HIDE DEF crew
<1>3. ASSUME NEW w \in Zones!Workers, ~(w > crew) PROVE Part(w) \in Seq(Zones!Documents)
  <2>0. w \in Nat /\ w >= 1 /\ w <= crew
    BY <1>1, <1>3 DEF Zones!Workers, Zones!BoundsAssumption
  <2> DEFINE q == (Len(docs) - w) \div crew
  <2>1. q \in Nat /\ q * crew <= Len(docs) - w
    BY <1>0, <1>1, <2>0
  <2> HIDE DEF q
  <2>2. ASSUME NEW k \in 1..(q + 1) PROVE docs[w + (k - 1) * crew] \in Zones!Documents
    <3>1. k - 1 \in Nat /\ k - 1 <= q
      BY <2>1
    <3>2. (k - 1) * crew \in Nat /\ (k - 1) * crew <= q * crew
      BY <1>1, <2>1, <3>1, ZonesMultiplesOrdered
    <3>3. q * crew \in Nat
      BY <1>1, <2>1, ZonesMultiplesOrdered
    <3>4. w + (k - 1) * crew \in 1..Len(docs)
      BY <1>0, <2>0, <2>1, <3>2, <3>3
    <3> QED BY <3>4
  <2> DEFINE f == [k \in 1..(q + 1) |-> docs[w + (k - 1) * crew]]
  <2>3. Part(w) = f
    BY DEF q
  <2>4. q + 1 \in Nat /\ f \in [1..(q + 1) -> Zones!Documents]
    BY <2>1, <2>2
  <2> HIDE DEF f, Part
  <2>5. f \in Seq(Zones!Documents)
    BY <2>4
  <2> QED BY <2>3, <2>5
<1> HIDE DEF Part
<1> QED BY <1>2, <1>3

-----------------------------------------------------------------------------
(* The pass goes forward: beyond the cursor is what it has not been        *)
(* through, and all of a page is behind its last decision.                 *)

LEMMA ZonesPageIsPassed ==
  ASSUME Zones!BoundsAssumption, Zones!NoneAssumption, after \in Zones!Documents \cup {None},
         NEW docs \in Seq(Zones!Documents), docs # <<>>,
         \A i \in 1..Len(docs) :
           docs[i] \in Zones!Documents \ Nameless /\ (after = None \/ Zones!Before(after, docs[i])),
         \A i, j \in 1..Len(docs) : i < j => Zones!Before(docs[i], docs[j]),
         after' = Zones!Last(docs), order' = order
  PROVE  /\ after' \in Zones!Documents
         /\ Cardinality(ZonesPassed) + Len(docs) <= Cardinality(ZonesPassed')
<1> DEFINE R == {docs[i] : i \in 1..Len(docs)}
<1>0. Len(docs) \in 1..Len(docs) /\ Zones!Last(docs) = docs[Len(docs)] /\ Len(docs) \in Nat
  BY DEF Zones!Last
<1>1. after' \in Zones!Documents /\ after' # None
  BY <1>0 DEF Zones!NoneAssumption
<1>2. Zones!Documents \subseteq Nat
  BY DEF Zones!Documents
<1>3. ZonesPassed' = {d \in Zones!Documents \ Nameless : ~Zones!Before(after', d)}
  BY <1>1 DEF ZonesPassed, Zones!Before
<1>4. ZonesPassed \subseteq ZonesPassed'
  <2> SUFFICES ASSUME NEW d \in ZonesPassed PROVE d \in ZonesPassed'
    OBVIOUS
  <2>1. d \in Zones!Documents \ Nameless /\ after # None /\ ~Zones!Before(after, d)
    BY DEF ZonesPassed
  <2>2. Zones!Before(after, after') /\ after \in Nat /\ after' \in Nat /\ d \in Nat
    BY <1>0, <1>1, <1>2, <2>1
  <2>3. ~Zones!Before(after', d)
    BY <2>1, <2>2 DEF Zones!Before
  <2> QED BY <1>3, <2>1, <2>3
<1>5. R \subseteq ZonesPassed'
  <2> SUFFICES ASSUME NEW i \in 1..Len(docs) PROVE docs[i] \in ZonesPassed'
    OBVIOUS
  <2>1. docs[i] \in Nat /\ after' \in Nat
    BY <1>1, <1>2
  <2>2. docs[i] = after' \/ Zones!Before(docs[i], after')
    BY <1>0
  <2>3. ~Zones!Before(after', docs[i])
    BY <2>1, <2>2 DEF Zones!Before
  <2> QED BY <1>3, <2>3
<1>6. ZonesPassed \cap R = {}
  <2> SUFFICES ASSUME NEW i \in 1..Len(docs), docs[i] \in ZonesPassed PROVE FALSE
    OBVIOUS
  <2> QED BY DEF ZonesPassed
<1>7. IsFiniteSet(R) /\ Cardinality(R) = Len(docs)
  <2> DEFINE g == [i \in 1..Len(docs) |-> docs[i]]
  <2>1. \A i, j \in 1..Len(docs) : i # j => docs[i] # docs[j]
    <3> SUFFICES ASSUME NEW i \in 1..Len(docs), NEW j \in 1..Len(docs), i < j
                 PROVE  docs[i] # docs[j]
      BY <1>0
    <3>1. Zones!Before(docs[i], docs[j]) /\ docs[i] \in Nat /\ docs[j] \in Nat
      BY <1>2
    <3> QED BY <3>1 DEF Zones!Before
  <2>2. g \in Bijection(1..Len(docs), R)
    <3>1. g \in Surjection(1..Len(docs), R)
      BY DEF Surjection
    <3>2. g \in Injection(1..Len(docs), R)
      BY <2>1 DEF Injection, IsInjective
    <3> QED BY <3>1, <3>2 DEF Bijection
  <2>3. IsFiniteSet(1..Len(docs)) /\ Cardinality(1..Len(docs)) = Len(docs)
    BY <1>0, FS_Interval
  <2>4. ExistsBijection(1..Len(docs), R)
    BY <2>2 DEF ExistsBijection
  <2> QED BY <2>3, <2>4, FS_Bijection
<1>8. IsFiniteSet(ZonesPassed) /\ IsFiniteSet(ZonesPassed')
  <2>1. ZonesPassed \subseteq Zones!Documents /\ ZonesPassed' \subseteq Zones!Documents
    BY <1>3 DEF ZonesPassed
  <2> QED BY <2>1, ZonesDocumentsAreFinite DEF Zones!BoundsAssumption
<1> HIDE DEF R
<1>9. Cardinality(ZonesPassed \cup R) = Cardinality(ZonesPassed) + Cardinality(R)
  <2>1. Cardinality(ZonesPassed \cup R) = Cardinality(ZonesPassed) + Cardinality(R) - Cardinality(ZonesPassed \cap R)
    BY <1>7, <1>8, FS_Union
  <2>2. Cardinality(ZonesPassed \cap R) = 0
    BY <1>6, FS_EmptySet
  <2>3. Cardinality(ZonesPassed) \in Nat /\ Cardinality(R) \in Nat
    BY <1>7, <1>8, FS_CardinalityType
  <2> QED BY <2>1, <2>2, <2>3
<1>10. Cardinality(ZonesPassed \cup R) <= Cardinality(ZonesPassed')
  BY <1>4, <1>5, <1>8, FS_Subset
<1> QED BY <1>1, <1>7, <1>9, <1>10

LEMMA ZonesPassedIsSmall ==
  ASSUME Zones!BoundsAssumption
  PROVE  /\ Cardinality(ZonesPassed) \in Nat /\ Cardinality(ZonesPassed) <= NumDocs
         /\ Cardinality(ZonesPassed) <= Cardinality(Zones!Documents \ Nameless)
<1>1. ZonesPassed \subseteq Zones!Documents /\ ZonesPassed \subseteq Zones!Documents \ Nameless
  BY DEF ZonesPassed
<1>2. IsFiniteSet(Zones!Documents \ Nameless)
  BY ZonesDocumentsAreFinite DEF Zones!BoundsAssumption
<1>3. Cardinality(ZonesPassed) <= Cardinality(Zones!Documents \ Nameless)
  BY <1>1, <1>2, FS_Subset
<1> QED BY <1>1, <1>3, ZonesDocumentsAreFinite DEF Zones!BoundsAssumption

-----------------------------------------------------------------------------
(* The steps.                                                              *)

LEMMA ZonesRowsAreNone ==
  ASSUME Zones!NoneAssumption
  PROVE  None \notin Zones!RowType /\ None \notin Zones!Documents /\ None \notin 0..MaxZoneEdits
BY DEF Zones!NoneAssumption

LEMMA ZonesInitIInv ==
  ASSUME ZonesAssumptions, Zones!Init
  PROVE  ZonesIInv
<1> USE DEF ZonesAssumptions, Zones!Init, Zones!Resting
<1>1. Zones!Documents \in SUBSET Nat /\ 0 \in 0..MaxZoneEdits /\ 0 \in 0..NumDocs /\ 0 \in 0..MaxCrashes
  BY DEF Zones!BoundsAssumption, Zones!Documents
<1>2. Zones!Row("ok", None) \in Zones!RowType
  BY DEF Zones!Row, Zones!RowType
<1>3. upstream \in [Zones!Documents -> [kind : Zones!Kinds, rev : 0..MaxZoneEdits]]
  BY <1>1 DEF Zones!Content, Zones!Kinds
<1>4. row \in [Zones!Documents -> Zones!RowType \cup {None}]
  <2>1. {None, Zones!Row("ok", None)} \subseteq Zones!RowType \cup {None}
    BY <1>2
  <2> QED BY <2>1
<1>5. Zones!TypeOK
  BY <1>1, <1>3, <1>4 DEF Zones!TypeOK
<1>6. ZonesWorkersFollowPhase /\ ZonesPageIsOfficial
  BY DEF ZonesWorkersFollowPhase, ZonesPageIsOfficial
<1>7. Zones!UnitsNeedOfficialZones
  BY DEF Zones!UnitsNeedOfficialZones
<1>8. ZonesConsideredPassed
  BY DEF ZonesConsideredPassed
<1> QED BY <1>5, <1>6, <1>7, <1>8 DEF ZonesIInv

(* What the pass counts stands while the pass does not move.               *)
LEMMA ZonesPassKept ==
  ASSUME ZonesConsideredPassed, UNCHANGED <<phase, order, after, considered>>
  PROVE  ZonesConsideredPassed'
BY DEF ZonesConsideredPassed, ZonesPassed, Zones!Before

LEMMA ZonesRowsKept ==
  ASSUME ZonesPageIsOfficial, Zones!UnitsNeedOfficialZones, UNCHANGED <<row, units, phase, page>>
  PROVE  ZonesPageIsOfficial' /\ Zones!UnitsNeedOfficialZones'
BY DEF ZonesPageIsOfficial, Zones!UnitsNeedOfficialZones, ZonesOfficial

LEMMA ZonesWorldKeeps ==
  ASSUME ZonesAssumptions, ZonesIInv,
         \/ \E d \in Zones!Documents, kind \in Zones!Kinds : Zones!Edit(d, kind)
         \/ Zones!GoDown \/ Zones!ComeBack
  PROVE  ZonesIInv'
<1> USE DEF ZonesIInv, ZonesAssumptions
<1>1. UNCHANGED <<row, units, phase, Zones!passVars, Zones!workVars, page>>
  BY DEF Zones!Edit, Zones!GoDown, Zones!ComeBack
<1>2. ZonesConsideredPassed'
  BY <1>1, ZonesPassKept DEF Zones!passVars
<1>3. ZonesPageIsOfficial' /\ Zones!UnitsNeedOfficialZones'
  BY <1>1, ZonesRowsKept
<1>4. ZonesWorkersFollowPhase'
  BY <1>1 DEF ZonesWorkersFollowPhase, Zones!workVars
<1>5. Zones!TypeOK'
  <2>1. CASE \E d \in Zones!Documents, kind \in Zones!Kinds : Zones!Edit(d, kind)
    <3>1. PICK d \in Zones!Documents, kind \in Zones!Kinds : Zones!Edit(d, kind)
      BY <2>1
    <3>2. edits + 1 \in 0..MaxZoneEdits
      BY <3>1 DEF Zones!Edit, Zones!TypeOK, Zones!BoundsAssumption
    <3>3. Zones!Content(kind, edits + 1) \in [kind : Zones!Kinds, rev : 0..MaxZoneEdits]
      BY <3>2 DEF Zones!Content
    <3>4. upstream' \in [Zones!Documents -> [kind : Zones!Kinds, rev : 0..MaxZoneEdits]]
      BY <3>1, <3>3 DEF Zones!Edit, Zones!TypeOK
    <3> QED BY <3>1, <3>2, <3>4 DEF Zones!Edit, Zones!TypeOK, Zones!workVars, Zones!passVars
  <2>2. CASE Zones!GoDown
    <3>1. crashes + 1 \in 0..MaxCrashes
      BY <2>2 DEF Zones!GoDown, Zones!TypeOK, Zones!BoundsAssumption
    <3> QED BY <2>2, <3>1 DEF Zones!GoDown, Zones!TypeOK, Zones!workVars, Zones!passVars
  <2>3. CASE Zones!ComeBack
    BY <2>3 DEF Zones!ComeBack, Zones!TypeOK, Zones!workVars, Zones!passVars
  <2> QED BY <2>1, <2>2, <2>3
<1> QED BY <1>2, <1>3, <1>4, <1>5

(* A row that expires under the derivation is an error: it is not one that *)
(* units were read from.                                                   *)
LEMMA ZonesExpireKeeps ==
  ASSUME ZonesAssumptions, ZonesIInv, NEW d \in Zones!Documents, Zones!Expire(d)
  PROVE  ZonesIInv'
<1> USE DEF ZonesIInv, ZonesAssumptions
<1>1. UNCHANGED <<upstream, service, units, phase, Zones!passVars, Zones!workVars, page, edits, crashes>>
  BY DEF Zones!Expire
<1>2. row[d] \in Zones!RowType /\ row' = [row EXCEPT ![d].fresh = FALSE]
  BY DEF Zones!Expire, Zones!TypeOK
<1>3. /\ row' \in [Zones!Documents -> Zones!RowType \cup {None}]
      /\ row'[d] \in Zones!RowType
      /\ row'[d].status = row[d].status /\ row'[d].hash = row[d].hash
      /\ \A e \in Zones!Documents : e # d => row'[e] = row[e]
  BY <1>2 DEF Zones!TypeOK, Zones!RowType
<1>4. row'[d] # None
  BY <1>3, ZonesRowsAreNone
<1>5. Zones!TypeOK'
  BY <1>1, <1>3 DEF Zones!TypeOK, Zones!passVars, Zones!workVars
<1>6. ZonesWorkersFollowPhase'
  BY <1>1 DEF ZonesWorkersFollowPhase, Zones!workVars
<1>7. ZonesConsideredPassed'
  BY <1>1, ZonesPassKept DEF Zones!passVars
<1>8. Zones!UnitsNeedOfficialZones'
  BY <1>1, <1>3, <1>4 DEF Zones!UnitsNeedOfficialZones
<1>9. ZonesPageIsOfficial'
  <2>1. ASSUME NEW i \in 1..Len(page), phase = "derive" PROVE ZonesOfficial(page[i][1], page[i][2])'
    <3>1. ZonesOfficial(page[i][1], page[i][2]) /\ page[i][1] \in Zones!Documents
      BY <2>1 DEF ZonesPageIsOfficial, Zones!TypeOK
    <3> QED BY <1>1, <1>3, <1>4, <3>1 DEF ZonesOfficial
  <2> QED BY <1>1, <2>1 DEF ZonesPageIsOfficial
<1> QED BY <1>5, <1>6, <1>7, <1>8, <1>9

LEMMA ZonesBeginKeeps ==
  ASSUME ZonesAssumptions, ZonesIInv,
         NEW direction \in {"oldest", "recent"}, NEW enrich \in BOOLEAN, Zones!Begin(direction, enrich)
  PROVE  ZonesIInv'
<1> USE DEF ZonesIInv, ZonesAssumptions
<1>1. UNCHANGED <<row, units, page, slice, stage, answer>> /\ phase = "idle" /\ page = <<>>
  BY DEF Zones!Begin, Zones!workVars, ZonesPageIsOfficial
<1>2. phase' \in {"enrich", "derive"} /\ considered' = 0
  BY DEF Zones!Begin
<1>3. Zones!TypeOK'
  BY DEF Zones!Begin, Zones!TypeOK, Zones!workVars, Zones!BoundsAssumption
<1>4. ZonesWorkersFollowPhase'
  BY <1>1 DEF ZonesWorkersFollowPhase
<1>5. ZonesPageIsOfficial'
  BY <1>1 DEF ZonesPageIsOfficial
<1>6. Zones!UnitsNeedOfficialZones'
  BY <1>1 DEF Zones!UnitsNeedOfficialZones
<1>7. ZonesConsideredPassed'
  <2>1. Cardinality(ZonesPassed') \in Nat
    <3>1. ZonesPassed' \subseteq Zones!Documents
      BY DEF ZonesPassed
    <3> QED BY <3>1, ZonesDocumentsAreFinite DEF Zones!BoundsAssumption
  <2> QED BY <1>2, <2>1 DEF ZonesConsideredPassed
<1> QED BY <1>3, <1>4, <1>5, <1>6, <1>7

LEMMA ZonesReadCandidatesKeeps ==
  ASSUME ZonesAssumptions, ZonesIInv, Zones!ReadCandidates
  PROVE  ZonesIInv'
<1> USE DEF ZonesIInv, ZonesAssumptions
<1> DEFINE S == {d \in Zones!Candidates : after = None \/ Zones!Before(after, d)}
           docs == Zones!NextPage(Zones!Candidates)
<1>1. UNCHANGED <<upstream, service, row, units, page, edits, crashes>>
      /\ phase = "enrich" /\ page = <<>> /\ Zones!AllResting
  BY DEF Zones!ReadCandidates, ZonesPageIsOfficial
<1>2. /\ docs \in Seq(Zones!Documents)
      /\ \A i \in 1..Len(docs) :
           docs[i] \in Zones!Documents \ Nameless /\ (after = None \/ Zones!Before(after, docs[i]))
      /\ \A i, j \in 1..Len(docs) : i < j => Zones!Before(docs[i], docs[j])
  <2>1. docs = Zones!PageOf(S)
    BY DEF Zones!NextPage
  <2>2. S \subseteq Zones!Documents \ Nameless
    BY DEF Zones!Candidates
  <2> HIDE DEF docs
  <2>3. /\ docs \in Seq(S) /\ \A i \in 1..Len(docs) : docs[i] \in S
        /\ \A i, j \in 1..Len(docs) : i < j => Zones!Before(docs[i], docs[j])
    <3> HIDE DEF S
    <3> QED BY <2>1, <2>2, ZonesPageFacts
  <2> QED BY <2>2, <2>3
<1>3. Zones!UnitsNeedOfficialZones'
  BY <1>1 DEF Zones!UnitsNeedOfficialZones
<1>4. ZonesPageIsOfficial'
  BY <1>1 DEF ZonesPageIsOfficial
<1>5. CASE docs = <<>>
  <2>1. phase' = "derive" /\ order' = "oldest" /\ after' = None /\ considered' = 0
        /\ UNCHANGED <<slice, stage, answer>>
    BY <1>5 DEF Zones!ReadCandidates, Zones!workVars
  <2>2. Zones!TypeOK'
    BY <1>1, <2>1 DEF Zones!TypeOK, Zones!BoundsAssumption
  <2>3. ZonesWorkersFollowPhase'
    BY <1>1, <2>1 DEF ZonesWorkersFollowPhase, Zones!AllResting
  <2>4. ZonesConsideredPassed'
    BY <2>1 DEF ZonesConsideredPassed
  <2> QED BY <1>3, <1>4, <2>2, <2>3, <2>4
<1>6. CASE docs # <<>>
  <2>1. slice' = Zones!Deal(docs) /\ after' = Zones!Last(docs) /\ considered' = considered + Len(docs)
        /\ UNCHANGED <<phase, order, stage, answer>>
    BY <1>6 DEF Zones!ReadCandidates
  <2> HIDE DEF docs
  <2>2. slice' \in [Zones!Workers -> Seq(Zones!Documents)]
    BY <1>2, <1>6, <2>1, ZonesDealIsTyped
  <2>3. after' \in Zones!Documents /\ Cardinality(ZonesPassed) + Len(docs) <= Cardinality(ZonesPassed')
    BY <1>2, <1>6, <2>1, ZonesPageIsPassed DEF Zones!TypeOK
  <2>4. /\ Cardinality(ZonesPassed) \in Nat
        /\ Cardinality(ZonesPassed') \in Nat /\ Cardinality(ZonesPassed') <= NumDocs
    <3>1. ZonesPassed \subseteq Zones!Documents /\ ZonesPassed' \subseteq Zones!Documents
      BY DEF ZonesPassed
    <3> QED BY <3>1, ZonesDocumentsAreFinite DEF Zones!BoundsAssumption
  <2>5. considered <= Cardinality(ZonesPassed)
    BY <1>1 DEF ZonesConsideredPassed
  <2>6. considered' <= Cardinality(ZonesPassed') /\ considered' \in 0..NumDocs
    <3>1. Len(docs) \in Nat /\ considered \in Nat
      BY <1>2 DEF Zones!TypeOK
    <3>2. NumDocs \in Nat
      BY DEF Zones!BoundsAssumption
    <3> QED BY <2>1, <2>3, <2>4, <2>5, <3>1, <3>2
  <2>7. Zones!TypeOK'
    BY <1>1, <2>1, <2>2, <2>3, <2>6 DEF Zones!TypeOK
  <2>8. ZonesWorkersFollowPhase'
    BY <1>1, <2>1 DEF ZonesWorkersFollowPhase
  <2>9. ZonesConsideredPassed'
    BY <1>1, <2>1, <2>6 DEF ZonesConsideredPassed
  <2> QED BY <1>3, <1>4, <2>7, <2>8, <2>9
<1> QED BY <1>5, <1>6

LEMMA ZonesOnlineKeeps ==
  ASSUME ZonesAssumptions, ZonesIInv, (\E d \in Zones!Documents : Zones!FetchOnline(d)) \/ Zones!FinishOnline
  PROVE  ZonesIInv'
<1> USE DEF ZonesIInv, ZonesAssumptions
<1>1. /\ UNCHANGED <<upstream, service, row, units, order, after, considered, stage, answer,
                     page, edits, crashes>>
      /\ phase \in {"idle", "online"} /\ phase' \in {"idle", "online"} /\ page = <<>>
  BY DEF Zones!FetchOnline, Zones!FinishOnline, Zones!passVars, Zones!workVars, ZonesPageIsOfficial
<1>2. slice' \in [Zones!Workers -> Seq(Zones!Documents)]
  <2>1. CASE Zones!FinishOnline
    BY <2>1 DEF Zones!FinishOnline, Zones!workVars, Zones!TypeOK
  <2>2. CASE \E d \in Zones!Documents : Zones!FetchOnline(d)
    <3>1. PICK d \in Zones!Documents : Zones!FetchOnline(d)
      BY <2>2
    <3>2. <<d>> \in Seq(Zones!Documents)
      OBVIOUS
    <3> QED BY <3>1, <3>2 DEF Zones!FetchOnline, Zones!TypeOK
  <2> QED BY <2>1, <2>2
<1>3. Zones!TypeOK'
  BY <1>1, <1>2 DEF Zones!TypeOK
<1>4. ZonesWorkersFollowPhase'
  <2>1. CASE Zones!FinishOnline
    BY <2>1 DEF Zones!FinishOnline, Zones!AllResting, ZonesWorkersFollowPhase, Zones!workVars
  <2>2. CASE \E d \in Zones!Documents : Zones!FetchOnline(d)
    BY <2>2 DEF Zones!FetchOnline, ZonesWorkersFollowPhase
  <2> QED BY <2>1, <2>2
<1>5. ZonesPageIsOfficial'
  BY <1>1 DEF ZonesPageIsOfficial
<1>6. Zones!UnitsNeedOfficialZones'
  BY <1>1 DEF Zones!UnitsNeedOfficialZones
<1>7. ZonesConsideredPassed'
  BY <1>1 DEF ZonesConsideredPassed
<1> QED BY <1>3, <1>4, <1>5, <1>6, <1>7

(* An upsert takes the units away with the row they were derived from.     *)
LEMMA ZonesUpsertKeeps ==
  ASSUME ZonesAssumptions, row \in [Zones!Documents -> Zones!RowType \cup {None}],
         units \in [Zones!Documents -> 0..MaxZoneEdits \cup {None}], Zones!UnitsNeedOfficialZones,
         NEW d \in Zones!Documents, NEW r \in Zones!RowType, Zones!Upsert(d, r)
  PROVE  /\ row' \in [Zones!Documents -> Zones!RowType \cup {None}]
         /\ units' \in [Zones!Documents -> 0..MaxZoneEdits \cup {None}]
         /\ Zones!UnitsNeedOfficialZones'
<1>1. r # None
  BY ZonesRowsAreNone DEF ZonesAssumptions
<1>2. /\ row' \in [Zones!Documents -> Zones!RowType \cup {None}]
      /\ row'[d] = r /\ \A e \in Zones!Documents : e # d => row'[e] = row[e]
  BY DEF Zones!Upsert
<1>3. /\ units' \in [Zones!Documents -> 0..MaxZoneEdits \cup {None}]
      /\ \A e \in Zones!Documents : e # d => units'[e] = units[e]
      /\ units'[d] # None => r.status = "ok" /\ r.hash # None
  BY DEF Zones!Upsert
<1> QED BY <1>1, <1>2, <1>3 DEF Zones!UnitsNeedOfficialZones

LEMMA ZonesResolveKeeps ==
  ASSUME ZonesAssumptions, ZonesIInv, NEW w \in Zones!Workers, Zones!Resolve(w)
  PROVE  ZonesIInv'
<1> USE DEF ZonesIInv, ZonesAssumptions
<1> DEFINE d == Head(slice[w])
<1>1. /\ slice[w] \in Seq(Zones!Documents) /\ slice[w] # <<>>
      /\ d \in Zones!Documents /\ Tail(slice[w]) \in Seq(Zones!Documents)
  BY DEF Zones!Resolve, Zones!TypeOK
<1>2. /\ UNCHANGED <<upstream, service, phase, Zones!passVars, page, edits, crashes>>
      /\ phase \in {"enrich", "online"} /\ page = <<>>
  BY <1>1 DEF Zones!Resolve, ZonesWorkersFollowPhase, ZonesPageIsOfficial, Zones!TypeOK
<1>3. ZonesConsideredPassed'
  BY <1>2, ZonesPassKept DEF Zones!passVars
<1>4. ZonesPageIsOfficial'
  BY <1>2 DEF ZonesPageIsOfficial
<1>5. Zones!Unsupported(w, d) \/ Zones!SearchExchange(w, d) \/ Zones!DecisionExchange(w, d) \/ Zones!Cache(w, d)
  BY DEF Zones!Resolve
<1> HIDE DEF d
<1>6. /\ Zones!Row("unsupported", None) \in Zones!RowType /\ Zones!Row("upstream_error", None) \in Zones!RowType
      /\ Zones!Row("not_found", None) \in Zones!RowType
  BY DEF Zones!Row, Zones!RowType
<1>7. Zones!ZonesRow(d) \in Zones!RowType
  BY <1>1 DEF Zones!ZonesRow, Zones!Row, Zones!RowType, Zones!TypeOK
<1>8. /\ row' \in [Zones!Documents -> Zones!RowType \cup {None}]
      /\ units' \in [Zones!Documents -> 0..MaxZoneEdits \cup {None}]
      /\ Zones!UnitsNeedOfficialZones'
  <2>1. CASE Zones!Unsupported(w, d)
    <3>1. Zones!Upsert(d, Zones!Row("unsupported", None))
      BY <2>1 DEF Zones!Unsupported
    <3> QED BY <1>1, <1>6, <3>1, ZonesUpsertKeeps DEF Zones!TypeOK
  <2>2. CASE Zones!SearchExchange(w, d) \/ Zones!DecisionExchange(w, d)
    <3>1. UNCHANGED <<row, units>>
      BY <2>2 DEF Zones!SearchExchange, Zones!DecisionExchange
    <3> QED BY <3>1 DEF Zones!TypeOK, Zones!UnitsNeedOfficialZones
  <2>3. CASE Zones!Cache(w, d)
    <3>1. answer[w] \in Zones!RowType /\ Zones!Upsert(d, answer[w])
      BY <2>3 DEF Zones!Cache, ZonesWorkersFollowPhase
    <3> QED BY <1>1, <3>1, ZonesUpsertKeeps DEF Zones!TypeOK
  <2> QED BY <1>5, <2>1, <2>2, <2>3
<1>9. /\ slice' \in [Zones!Workers -> Seq(Zones!Documents)]
      /\ stage' \in [Zones!Workers -> {"search", "decision", "cache"}]
      /\ answer' \in [Zones!Workers -> Zones!RowType \cup {None}]
      /\ \A v \in Zones!Workers : stage'[v] = "cache" => answer'[v] \in Zones!RowType
  <2> USE DEF Zones!TypeOK, ZonesWorkersFollowPhase
  <2>1. CASE Zones!Unsupported(w, d)
    BY <1>1, <2>1 DEF Zones!Unsupported
  <2>2. CASE Zones!SearchExchange(w, d)
    <3>1. CASE ~Zones!ExchangeFails /\ Zones!Matches(d)
      BY <2>2, <3>1 DEF Zones!SearchExchange
    <3>2. CASE ~(~Zones!ExchangeFails /\ Zones!Matches(d))
      <4> DEFINE r == Zones!Row(IF Zones!ExchangeFails THEN "upstream_error" ELSE "not_found", None)
      <4>1. r \in Zones!RowType
        BY <1>6
      <4>2. stage' = [stage EXCEPT ![w] = "cache"] /\ answer' = [answer EXCEPT ![w] = r]
            /\ UNCHANGED slice
        BY <2>2, <3>2 DEF Zones!SearchExchange
      <4> HIDE DEF r
      <4> QED BY <4>1, <4>2
    <3> QED BY <3>1, <3>2
  <2>3. CASE Zones!DecisionExchange(w, d)
    <3> DEFINE r == IF Zones!ExchangeFails \/ ~Zones!Matches(d)
                    THEN Zones!Row("upstream_error", None) ELSE Zones!ZonesRow(d)
    <3>1. r \in Zones!RowType
      BY <1>6, <1>7
    <3>2. stage' = [stage EXCEPT ![w] = "cache"] /\ answer' = [answer EXCEPT ![w] = r]
          /\ UNCHANGED slice
      BY <2>3 DEF Zones!DecisionExchange
    <3> HIDE DEF r
    <3> QED BY <3>1, <3>2
  <2>4. CASE Zones!Cache(w, d)
    BY <1>1, <2>4 DEF Zones!Cache
  <2> QED BY <1>5, <2>1, <2>2, <2>3, <2>4
<1>10. Zones!TypeOK'
  BY <1>2, <1>8, <1>9 DEF Zones!TypeOK, Zones!passVars
<1>11. ZonesWorkersFollowPhase'
  BY <1>2, <1>9 DEF ZonesWorkersFollowPhase
<1> QED BY <1>3, <1>4, <1>8, <1>10, <1>11

LEMMA ZonesLossKeeps ==
  ASSUME ZonesAssumptions, ZonesIInv, (\E w \in Zones!Workers : Zones!WorkerLost(w)) \/ Zones!Crash
  PROVE  ZonesIInv'
<1> USE DEF ZonesIInv, ZonesAssumptions
<1>1. UNCHANGED <<row, units>>
  BY DEF Zones!WorkerLost, Zones!Crash
<1>2. Zones!UnitsNeedOfficialZones'
  BY <1>1 DEF Zones!UnitsNeedOfficialZones
<1>3. CASE \E w \in Zones!Workers : Zones!WorkerLost(w)
  <2>1. PICK w \in Zones!Workers : Zones!WorkerLost(w)
    BY <1>3
  <2>2. UNCHANGED <<phase, order, after, considered, page>> /\ phase = "enrich"
    BY <2>1 DEF Zones!WorkerLost, Zones!passVars
  <2>3. crashes' \in 0..MaxCrashes /\ <<>> \in Seq(Zones!Documents)
    BY <2>1 DEF Zones!WorkerLost, Zones!TypeOK, Zones!BoundsAssumption
  <2>4. Zones!TypeOK'
    BY <2>1, <2>3 DEF Zones!WorkerLost, Zones!TypeOK, Zones!passVars
  <2>5. ZonesWorkersFollowPhase'
    BY <2>1, <2>2 DEF Zones!WorkerLost, ZonesWorkersFollowPhase, Zones!TypeOK
  <2>6. ZonesPageIsOfficial'
    BY <1>1, <2>2, ZonesRowsKept
  <2>7. ZonesConsideredPassed'
    BY <2>2, ZonesPassKept
  <2> QED BY <1>2, <2>4, <2>5, <2>6, <2>7
<1>4. CASE Zones!Crash
  <2>1. crashes' \in 0..MaxCrashes /\ <<>> \in Seq(Zones!Documents)
    BY <1>4 DEF Zones!Crash, Zones!TypeOK, Zones!BoundsAssumption
  <2>2. Zones!TypeOK'
    BY <1>4, <2>1 DEF Zones!Crash, Zones!TypeOK, Zones!BoundsAssumption
  <2>3. ZonesWorkersFollowPhase' /\ ZonesPageIsOfficial' /\ ZonesConsideredPassed'
    BY <1>4 DEF Zones!Crash, ZonesWorkersFollowPhase, ZonesPageIsOfficial, ZonesConsideredPassed
  <2> QED BY <1>2, <2>2, <2>3
<1> QED BY <1>3, <1>4

LEMMA ZonesReadDerivableKeeps ==
  ASSUME ZonesAssumptions, ZonesIInv, Zones!ReadDerivable
  PROVE  ZonesIInv'
<1> USE DEF ZonesIInv, ZonesAssumptions
<1> DEFINE S == {d \in {e \in Zones!Documents : Zones!Derivable(e)} : after = None \/ Zones!Before(after, d)}
           docs == Zones!NextPage({d \in Zones!Documents : Zones!Derivable(d)})
           read == [i \in 1..Len(docs) |-> <<docs[i], row[docs[i]].hash>>]
<1>1. /\ UNCHANGED <<upstream, service, row, units, order, considered, slice, stage, answer,
                     edits, crashes>>
      /\ phase = "derive" /\ page = <<>> /\ considered = 0 /\ considered' = 0
  BY DEF Zones!ReadDerivable, Zones!workVars, ZonesConsideredPassed
<1>2. docs \in Seq(Zones!Documents) /\ Len(docs) \in Nat
      /\ \A i \in 1..Len(docs) : docs[i] \in Zones!Documents /\ Zones!Derivable(docs[i])
  <2>1. docs = Zones!PageOf(S)
    BY DEF Zones!NextPage
  <2>2. S \subseteq Zones!Documents /\ \A e \in S : Zones!Derivable(e)
    OBVIOUS
  <2> HIDE DEF docs
  <2>3. docs \in Seq(S) /\ \A i \in 1..Len(docs) : docs[i] \in S
    <3> HIDE DEF S
    <3> QED BY <2>1, <2>2, ZonesPageFacts
  <2> QED BY <2>2, <2>3
<1>3. Zones!UnitsNeedOfficialZones'
  BY <1>1 DEF Zones!UnitsNeedOfficialZones
<1>4. CASE docs = <<>>
  <2>1. phase' = "idle" /\ after' = None /\ page' = <<>>
    BY <1>1, <1>4 DEF Zones!ReadDerivable
  <2>2. Zones!TypeOK'
    BY <1>1, <2>1 DEF Zones!TypeOK
  <2>3. ZonesWorkersFollowPhase' /\ ZonesPageIsOfficial' /\ ZonesConsideredPassed'
    BY <1>1, <2>1 DEF ZonesWorkersFollowPhase, ZonesPageIsOfficial, ZonesConsideredPassed
  <2> QED BY <1>3, <2>2, <2>3
<1>5. CASE docs # <<>>
  <2>1. page' = read /\ after' = Zones!Last(docs) /\ phase' = "derive"
    BY <1>1, <1>5 DEF Zones!ReadDerivable
  <2> HIDE DEF docs
  <2>2. after' \in Zones!Documents
    BY <1>2, <1>5, <2>1 DEF Zones!Last
  <2>3. ASSUME NEW i \in 1..Len(docs)
        PROVE  row[docs[i]].hash \in 0..MaxZoneEdits /\ ZonesOfficial(docs[i], row[docs[i]].hash)
    <3>1. docs[i] \in Zones!Documents /\ Zones!Derivable(docs[i])
      BY <1>2
    <3>2. row[docs[i]] \in Zones!RowType
      BY <3>1 DEF Zones!Derivable, Zones!TypeOK
    <3> QED BY <3>1, <3>2 DEF Zones!Derivable, ZonesOfficial, Zones!RowType
  <2>4. read \in [1..Len(docs) -> Zones!Documents \X (0..MaxZoneEdits)]
    BY <1>2, <2>3
  <2>5. /\ page' \in Seq(Zones!Documents \X (0..MaxZoneEdits)) /\ Len(page') = Len(docs)
        /\ \A i \in 1..Len(docs) : page'[i] = <<docs[i], row[docs[i]].hash>>
    <3>1. \A i \in 1..Len(docs) : read[i] = <<docs[i], row[docs[i]].hash>>
      OBVIOUS
    <3> HIDE DEF read
    <3> QED BY <1>2, <2>1, <2>4, <3>1
  <2>6. Zones!TypeOK'
    BY <1>1, <2>1, <2>2, <2>5 DEF Zones!TypeOK
  <2>7. ZonesWorkersFollowPhase' /\ ZonesConsideredPassed'
    BY <1>1, <2>1 DEF ZonesWorkersFollowPhase, ZonesConsideredPassed
  <2>8. ZonesPageIsOfficial'
    <3>1. ASSUME NEW i \in 1..Len(docs) PROVE ZonesOfficial(page[i][1], page[i][2])'
      BY <1>1, <2>3, <2>5 DEF ZonesOfficial
    <3> QED BY <2>1, <2>5, <3>1 DEF ZonesPageIsOfficial
  <2> QED BY <1>3, <2>6, <2>7, <2>8
<1> QED BY <1>4, <1>5

LEMMA ZonesReplaceUnitsKeeps ==
  ASSUME ZonesAssumptions, ZonesIInv, Zones!ReplaceUnits
  PROVE  ZonesIInv'
<1> USE DEF ZonesIInv, ZonesAssumptions
<1>1. /\ UNCHANGED <<upstream, service, row, phase, Zones!passVars, Zones!workVars, edits, crashes>>
      /\ phase = "derive" /\ page # <<>> /\ page \in Seq(Zones!Documents \X (0..MaxZoneEdits))
  BY DEF Zones!ReplaceUnits, Zones!TypeOK
<1> DEFINE d == Head(page)[1]
           h == Head(page)[2]
<1>2. /\ 1 \in 1..Len(page) /\ Head(page) = page[1] /\ Len(page) \in Nat
      /\ Head(page) \in Zones!Documents \X (0..MaxZoneEdits)
  BY <1>1
<1>3. d \in Zones!Documents /\ h \in 0..MaxZoneEdits /\ ZonesOfficial(d, h)
  BY <1>2 DEF ZonesPageIsOfficial
<1>4. units' = [units EXCEPT ![d] = h] /\ page' = Tail(page)
  BY DEF Zones!ReplaceUnits
<1> HIDE DEF d, h
<1>5. page' \in Seq(Zones!Documents \X (0..MaxZoneEdits)) /\ Len(page') = Len(page) - 1
      /\ \A i \in 1..Len(page') : page'[i] = page[i + 1] /\ i + 1 \in 1..Len(page)
  BY <1>1, <1>4
<1>6. Zones!TypeOK'
  BY <1>1, <1>3, <1>4, <1>5 DEF Zones!TypeOK, Zones!passVars, Zones!workVars
<1>7. ZonesWorkersFollowPhase'
  BY <1>1 DEF ZonesWorkersFollowPhase, Zones!workVars
<1>8. ZonesPageIsOfficial'
  BY <1>1, <1>5 DEF ZonesPageIsOfficial, ZonesOfficial
<1>9. Zones!UnitsNeedOfficialZones'
  BY <1>1, <1>3, <1>4 DEF Zones!UnitsNeedOfficialZones, ZonesOfficial, Zones!TypeOK
<1>10. ZonesConsideredPassed'
  BY <1>1, ZonesPassKept DEF Zones!passVars
<1> QED BY <1>6, <1>7, <1>8, <1>9, <1>10

LEMMA ZonesStutterKeeps ==
  ASSUME ZonesIInv, UNCHANGED Zones!vars
  PROVE  ZonesIInv'
<1> USE DEF ZonesIInv, Zones!vars
<1>1. Zones!TypeOK' /\ ZonesWorkersFollowPhase'
  BY DEF Zones!TypeOK, ZonesWorkersFollowPhase, Zones!passVars, Zones!workVars
<1>2. ZonesPageIsOfficial' /\ Zones!UnitsNeedOfficialZones'
  BY ZonesRowsKept
<1>3. ZonesConsideredPassed'
  BY ZonesPassKept DEF Zones!passVars
<1> QED BY <1>1, <1>2, <1>3

LEMMA ZonesNextIInv ==
  ASSUME ZonesAssumptions, ZonesIInv, [Zones!Next]_(Zones!vars)
  PROVE  ZonesIInv'
<1>1. CASE UNCHANGED Zones!vars
  BY <1>1, ZonesStutterKeeps
<1>2. CASE Zones!Next
  <2>1. CASE \/ \E d \in Zones!Documents, kind \in Zones!Kinds : Zones!Edit(d, kind)
             \/ Zones!GoDown \/ Zones!ComeBack
    BY <2>1, ZonesWorldKeeps
  <2>2. CASE \E d \in Zones!Documents : Zones!Expire(d)
    BY <2>2, ZonesExpireKeeps
  <2>3. CASE (\E d \in Zones!Documents : Zones!FetchOnline(d)) \/ Zones!FinishOnline
    BY <2>3, ZonesOnlineKeeps
  <2>4. CASE \E direction \in {"oldest", "recent"}, enrich \in BOOLEAN : Zones!Begin(direction, enrich)
    BY <2>4, ZonesBeginKeeps
  <2>5. CASE Zones!ReadCandidates
    BY <2>5, ZonesReadCandidatesKeeps
  <2>6. CASE \E w \in Zones!Workers : Zones!Resolve(w)
    BY <2>6, ZonesResolveKeeps
  <2>7. CASE (\E w \in Zones!Workers : Zones!WorkerLost(w)) \/ Zones!Crash
    BY <2>7, ZonesLossKeeps
  <2>8. CASE Zones!ReadDerivable
    BY <2>8, ZonesReadDerivableKeeps
  <2>9. CASE Zones!ReplaceUnits
    BY <2>9, ZonesReplaceUnitsKeeps
  <2> QED BY <1>2, <2>1, <2>2, <2>3, <2>4, <2>5, <2>6, <2>7, <2>8, <2>9 DEF Zones!Next, Zones!RunStep
<1> QED BY <1>1, <1>2

-----------------------------------------------------------------------------

(* The variables of the enrichment keep their types, whatever it is asked, *)
(* loses or finds changed.                                                 *)
LEMMA ZonesTypeCorrect ==
  ASSUME ZonesAssumptions
  PROVE  Zones!Spec => []Zones!TypeOK
<1>1. Zones!Init => ZonesIInv
  BY ZonesInitIInv
<1>2. ZonesIInv /\ [Zones!Next]_(Zones!vars) => ZonesIInv'
  BY ZonesNextIInv
<1>3. ZonesIInv => Zones!TypeOK
  BY DEF ZonesIInv
<1> QED BY <1>1, <1>2, <1>3, PTL DEF Zones!Spec

(* Retrieval never has the units of zones the cache has invalidated, and a *)
(* pass of enrich_zones goes through a decision once, for any number of    *)
(* decisions, workers and faults and in either direction.                  *)
THEOREM ZonesAreSoundAlways ==
  ASSUME ZonesAssumptions
  PROVE  Zones!Spec => []Zones!ZonesAreSound
<1>1. Zones!Init => ZonesIInv
  BY ZonesInitIInv
<1>2. ZonesIInv /\ [Zones!Next]_(Zones!vars) => ZonesIInv'
  BY ZonesNextIInv
<1>3. ASSUME ZonesIInv PROVE Zones!ConsideredOnce
  <2>1. /\ Cardinality(ZonesPassed) \in Nat /\ Cardinality(ZonesPassed) <= Cardinality(Zones!Documents \ Nameless)
    BY ZonesPassedIsSmall DEF ZonesAssumptions
  <2>2. Cardinality(Zones!Documents \ Nameless) \in Nat
    BY ZonesDocumentsAreFinite DEF ZonesAssumptions, Zones!BoundsAssumption
  <2>3. considered \in Nat
    BY <1>3 DEF ZonesIInv, Zones!TypeOK
  <2>4. considered <= Cardinality(ZonesPassed) \/ considered = 0
    BY <1>3 DEF ZonesIInv, ZonesConsideredPassed
  <2> QED BY <2>1, <2>2, <2>3, <2>4, ZonesSizes DEF Zones!ConsideredOnce
<1>4. ZonesIInv => Zones!ZonesAreSound
  BY <1>3 DEF ZonesIInv, Zones!ZonesAreSound
<1> QED BY <1>1, <1>2, <1>4, PTL DEF Zones!Spec

-----------------------------------------------------------------------------
(* The citations.  What is left of a page was read for the phase that runs, *)
(* and counts are of finitely many occurrences.                            *)

(* Sizes are those the theorems on finite sets are about.                  *)
LEMMA CitedSizes ==
  ASSUME NEW S
  PROVE  Cited!Cardinality(S) = Cardinality(S) /\ (Cited!IsFiniteSet(S) <=> IsFiniteSet(S))
BY DEF Cited!Cardinality, Cardinality, Cited!IsFiniteSet, IsFiniteSet

(* What is left of a page was read from the archived visas, or from the    *)
(* resolutions the command is still to ask for.                            *)
CitedPageFollowsPhase ==
  /\ command \in {"idle", "finalize"} => batch = {}
  /\ command = "collect" => batch \subseteq Cited!Entries
  /\ command = "resolve" =>
       batch \subseteq {k \in Cited!Keys : resolution[k] # None /\ resolution[k].status \in Cited!Wanted}
  /\ reply # None => command = "resolve" /\ batch # {} /\ reply \in Cited!Statuses

CitedIInv ==
  /\ Cited!TypeOK /\ CitedPageFollowsPhase
  /\ IsFiniteSet(occurrences) /\ Cited!OccurrencesAreResolvable

CitedKept ==
  \A k \in Cited!Keys : resolution[k] # None /\ resolution[k].status \in {"ok", "not_found"}
    => resolution'[k] # None /\ resolution'[k].status = resolution[k].status

CitedAssumptions == Cited!BoundsAssumption /\ Cited!NoneAssumption

-----------------------------------------------------------------------------
(* The visas.                                                              *)

LEMMA CitedLatestIsArchived ==
  ASSUME CitedAssumptions, Cited!TypeOK, NEW d \in Cited!Decisions, Cited!Latest(d) # None
  PROVE  Cited!Latest(d) \in 1..Len(responses)
<1> DEFINE ids == {i \in 1..Len(responses) : responses[i].decision = d /\ responses[i].visa # <<>>}
<1>1. Len(responses) \in Nat
  BY DEF Cited!TypeOK
<1>2. ids # {} /\ Cited!Latest(d) = Cited!Max(ids)
  BY DEF Cited!Latest
<1>3. ids \in SUBSET Nat /\ \A y \in ids : y <= Len(responses)
  BY <1>1
<1> HIDE DEF ids
<1>4. PICK x \in ids : \A y \in ids : y <= x
  BY <1>1, <1>2, <1>3, GreatestExists
<1>5. \A y \in ids : x >= y
  BY <1>3, <1>4
<1>6. Cited!Max(ids) \in ids
  BY <1>4, <1>5, Zenon DEF Cited!Max
<1>7. QED
  BY <1>2, <1>6 DEF ids

LEMMA CitedEntriesTyped ==
  ASSUME CitedAssumptions, Cited!TypeOK, NEW d \in Cited!Decisions, Cited!Latest(d) # None
  PROVE  Cited!EntriesOf(d) \subseteq Cited!Entries
<1> DEFINE visa == responses[Cited!Latest(d)].visa
<1>1. visa \in Visas
  <2> DEFINE R == [decision : Cited!Decisions, visa : Visas]
  <2>1. responses \in Seq(R) /\ Cited!Latest(d) \in 1..Len(responses)
    BY CitedLatestIsArchived DEF Cited!TypeOK
  <2> HIDE DEF R
  <2>2. responses[Cited!Latest(d)] \in R
    BY <2>1
  <2>3. QED
    BY <2>2 DEF R
<1>2. visa \in Seq(Cited!Titles)
  BY <1>1 DEF CitedAssumptions, Cited!BoundsAssumption
<1>3. ASSUME NEW t \in Cited!Titles PROVE Cited!Parse(t) \in Articles \union {None}
  BY DEF Cited!Titles, Cited!Parse, Cited!Link, Cited!Words, Cited!OtherText
<1>4. \A i \in 1..Len(visa) : visa[i] \in Cited!Titles /\ i \in Nat
  BY <1>2
<1> HIDE DEF visa
<1>5. Cited!EntriesOf(d) = {[decision |-> d, index |-> i, key |-> Cited!Parse(visa[i])] : i \in 1..Len(visa)}
  BY DEF Cited!EntriesOf, visa
<1>6. QED
  BY <1>3, <1>4, <1>5 DEF Cited!Entries

-----------------------------------------------------------------------------
(* The resolutions.                                                        *)

LEMMA CitedCountTyped ==
  ASSUME IsFiniteSet(occurrences), NEW k \in Cited!Keys
  PROVE  Cited!Count(k) \in Nat
<1> DEFINE O == {o \in occurrences : Corpus[o.decision] = k[1] /\ o.key = k[2]}
<1>1. IsFiniteSet(O)
  BY FS_Subset
<1>2. QED
  BY <1>1, FS_CardinalityType, CitedSizes DEF Cited!Count

LEMMA CitedCountGrows ==
  ASSUME IsFiniteSet(occurrences'), occurrences \subseteq occurrences', NEW k \in Cited!Keys
  PROVE  Cited!Count(k) <= Cited!Count(k)' /\ Cited!Count(k) \in Nat /\ Cited!Count(k)' \in Nat
<1> DEFINE A == {o \in occurrences : Corpus[o.decision] = k[1] /\ o.key = k[2]}
           B == {o \in occurrences' : Corpus[o.decision] = k[1] /\ o.key = k[2]}
<1>1. A \subseteq B /\ B \subseteq occurrences'
  OBVIOUS
<1>2. Cited!Count(k) = Cardinality(A) /\ Cited!Count(k)' = Cardinality(B)
  BY CitedSizes DEF Cited!Count
<1> HIDE DEF A, B
<1>3. IsFiniteSet(B)
  BY <1>1, FS_Subset
<1>4. IsFiniteSet(A) /\ Cardinality(A) <= Cardinality(B)
  BY <1>1, <1>3, FS_Subset
<1>5. QED
  BY <1>2, <1>3, <1>4, FS_CardinalityType

LEMMA CitedKeyOf ==
  ASSUME NEW d \in Cited!Decisions, NEW key \in Articles
  PROVE  <<Corpus[d], key>> \in Cited!Keys
BY DEF Cited!Keys, Cited!Corpora

LEMMA CitedPendingTyped ==
  ASSUME CitedAssumptions
  PROVE  [status |-> "pending", count |-> 0] \in Cited!Resolutions /\ None \notin Cited!Resolutions
         /\ None \notin Cited!Statuses
BY DEF CitedAssumptions, Cited!NoneAssumption, Cited!Resolutions, Cited!Statuses

LEMMA CitedEnsureKeeps ==
  ASSUME CitedAssumptions, Cited!TypeOK, NEW d \in Cited!Decisions, NEW key \in Articles,
         resolution' = Cited!EnsurePending(d, key)
  PROVE  /\ resolution' \in [Cited!Keys -> Cited!Resolutions \union {None}]
         /\ resolution'[<<Corpus[d], key>>] # None
         /\ \A k \in Cited!Keys : /\ resolution[k] # None => resolution'[k] = resolution[k]
                                  /\ resolution[k] = None /\ resolution'[k] # None => resolution'[k].count = 0
<1> DEFINE k0 == <<Corpus[d], key>>
           fresh == [status |-> "pending", count |-> 0]
<1>1. k0 \in Cited!Keys /\ resolution \in [Cited!Keys -> Cited!Resolutions \union {None}]
  BY CitedKeyOf DEF Cited!TypeOK
<1>2. fresh \in Cited!Resolutions /\ fresh # None /\ fresh.count = 0
  BY CitedPendingTyped
<1>3. resolution' = IF resolution[k0] # None THEN resolution ELSE [resolution EXCEPT ![k0] = fresh]
  BY DEF Cited!EnsurePending
<1> HIDE DEF k0, fresh
<1>4. CASE resolution[k0] # None
  <2>1. resolution' = resolution
    BY <1>3, <1>4
  <2>2. QED
    BY <1>1, <1>4, <2>1 DEF k0
<1>5. CASE resolution[k0] = None
  <2>1. resolution' = [resolution EXCEPT ![k0] = fresh]
    BY <1>3, <1>5
  <2>2. /\ resolution' \in [Cited!Keys -> Cited!Resolutions \union {None}]
        /\ resolution'[k0] = fresh
        /\ \A k \in Cited!Keys : k # k0 => resolution'[k] = resolution[k]
    BY <1>1, <1>2, <2>1
  <2>3. QED
    BY <1>2, <1>5, <2>2 DEF k0
<1>6. QED
  BY <1>4, <1>5

LEMMA CitedUnchangedKeeps ==
  ASSUME CitedIInv, UNCHANGED <<occurrences, resolution>>
  PROVE  IsFiniteSet(occurrences') /\ Cited!OccurrencesAreResolvable' /\ CitedKept
<1>1. \A k \in Cited!Keys : Cited!Count(k)' = Cited!Count(k)
  BY CitedSizes DEF Cited!Count
<1>2. QED
  BY <1>1 DEF CitedIInv, Cited!OccurrencesAreResolvable, CitedKept

-----------------------------------------------------------------------------
(* The steps.                                                              *)

LEMMA CitedInitKeeps == ASSUME CitedAssumptions, Cited!Init PROVE CitedIInv
<1>1. Cited!TypeOK
  <2>1. responses \in Seq([decision : Cited!Decisions, visa : Visas])
    BY DEF Cited!Init
  <2>2. resolution \in [Cited!Keys -> Cited!Resolutions \union {None}]
    BY DEF Cited!Init
  <2>3. deaths \in 0..MaxDeaths
    BY DEF Cited!Init, CitedAssumptions, Cited!BoundsAssumption
  <2>4. occurrences \subseteq Cited!Entries /\ \A o \in occurrences : o.key # None
    BY DEF Cited!Init
  <2>5. QED
    BY <2>1, <2>2, <2>3, <2>4, Zenon DEF Cited!Init, Cited!TypeOK
<1>2. CitedPageFollowsPhase /\ Cited!OccurrencesAreResolvable
  BY DEF Cited!Init, CitedPageFollowsPhase, Cited!OccurrencesAreResolvable
<1>3. IsFiniteSet(occurrences)
  BY FS_EmptySet DEF Cited!Init
<1>4. QED
  BY <1>1, <1>2, <1>3 DEF CitedIInv

LEMMA CitedWorldKeeps ==
  ASSUME CitedAssumptions, CitedIInv,
         \/ \E d \in Cited!Decisions, v \in Visas : Cited!Archive(d, v)
         \/ \E state \in {"down", "garbled"} : Cited!Disturb(state)
         \/ Cited!Recover
  PROVE  CitedIInv' /\ CitedKept
<1>1. UNCHANGED <<occurrences, resolution, known, command, retry, batch, reply>>
  BY DEF Cited!Archive, Cited!Disturb, Cited!Recover
<1>2. responses' \in Seq([decision : Cited!Decisions, visa : Visas])
  <2> DEFINE R == [decision : Cited!Decisions, visa : Visas]
  <2>2. responses \in Seq(R)
    BY DEF CitedIInv, Cited!TypeOK
  <2>3. responses' = responses \/ \E x \in R : responses' = Append(responses, x)
    BY DEF Cited!Archive, Cited!Disturb, Cited!Recover
  <2> HIDE DEF R
  <2>4. responses' \in Seq(R)
    BY <2>2, <2>3
  <2>5. QED
    BY <2>4 DEF R
<1>3. legifrance' \in {"up", "down", "garbled"} /\ deaths' \in 0..MaxDeaths
  <2>1. MaxDeaths \in Nat /\ deaths \in 0..MaxDeaths /\ legifrance \in {"up", "down", "garbled"}
    BY DEF CitedAssumptions, Cited!BoundsAssumption, CitedIInv, Cited!TypeOK
  <2>2. /\ legifrance' = legifrance \/ legifrance' \in {"up", "down", "garbled"}
        /\ deaths' = deaths \/ (deaths < MaxDeaths /\ deaths' = deaths + 1)
    BY DEF Cited!Archive, Cited!Disturb, Cited!Recover
  <2>3. QED
    BY <2>1, <2>2
<1>4. Cited!TypeOK'
  BY <1>1, <1>2, <1>3 DEF CitedIInv, Cited!TypeOK
<1>5. CitedPageFollowsPhase'
  BY <1>1 DEF CitedIInv, CitedPageFollowsPhase, Cited!Wanted
<1>6. QED
  BY <1>1, <1>4, <1>5, CitedUnchangedKeeps DEF CitedIInv

LEMMA CitedBeginKeeps ==
  ASSUME CitedAssumptions, CitedIInv, NEW r \in BOOLEAN, Cited!BeginCollect \/ Cited!BeginResolve(r)
  PROVE  CitedIInv' /\ CitedKept
<1>1. UNCHANGED <<Cited!worldVars, occurrences, resolution, batch, reply, deaths>>
      /\ command = "idle" /\ command' \in {"collect", "resolve"} /\ retry' \in BOOLEAN
  BY DEF Cited!BeginCollect, Cited!BeginResolve, CitedIInv, Cited!TypeOK
<1>2. Cited!TypeOK'
  BY <1>1 DEF CitedIInv, Cited!TypeOK, Cited!worldVars
<1>3. CitedPageFollowsPhase'
  BY <1>1 DEF CitedIInv, CitedPageFollowsPhase
<1>4. QED
  BY <1>1, <1>2, <1>3, CitedUnchangedKeeps DEF CitedIInv

LEMMA CitedReadDecisionsKeeps ==
  ASSUME CitedAssumptions, CitedIInv, Cited!ReadDecisions
  PROVE  CitedIInv' /\ CitedKept
<1> DEFINE with == {d \in Cited!Decisions : Cited!Latest(d) # None /\ (from # None => d > from)}
           docs == {d \in with : Cited!Cardinality({e \in with : e < d}) < CitationPage}
<1>1. UNCHANGED <<Cited!worldVars, occurrences, resolution, retry, reply, deaths>> /\ command = "collect"
      /\ batch = {}
  BY DEF Cited!ReadDecisions
<1>2. \/ command' = "finalize" /\ batch' = batch
      \/ command' = command /\ batch' = UNION {Cited!EntriesOf(d) : d \in docs}
  BY DEF Cited!ReadDecisions
<1>3. \A d \in docs : Cited!EntriesOf(d) \subseteq Cited!Entries
  BY CitedEntriesTyped DEF CitedIInv
<1> HIDE DEF docs
<1>4. UNION {Cited!EntriesOf(d) : d \in docs} \subseteq Cited!Entries
  BY <1>3
<1>5. Cited!TypeOK'
  BY <1>1, <1>2 DEF CitedIInv, Cited!TypeOK, Cited!worldVars
<1>6. CitedPageFollowsPhase'
  <2>1. /\ batch' \subseteq Cited!Entries /\ command' \in {"collect", "finalize"}
        /\ (command' = "finalize" => batch' = {})
    BY <1>1, <1>2, <1>4
  <2>2. reply' = None
    BY <1>1 DEF CitedIInv, CitedPageFollowsPhase
  <2>3. QED
    BY <2>1, <2>2 DEF CitedPageFollowsPhase, Cited!Entries
<1>7. QED
  BY <1>1, <1>5, <1>6, CitedUnchangedKeeps DEF CitedIInv

LEMMA CitedRecordVisaKeeps ==
  ASSUME CitedAssumptions, CitedIInv, Cited!RecordVisa
  PROVE  CitedIInv' /\ CitedKept
<1>1. PICK e \in batch :
        /\ batch' = batch \ {e}
        /\ \/ e.key = None /\ UNCHANGED <<occurrences, resolution>>
           \/ /\ e.key # None /\ occurrences' = occurrences \union {e}
              /\ resolution' = Cited!EnsurePending(e.decision, e.key)
  BY DEF Cited!RecordVisa
<1>2. UNCHANGED <<Cited!worldVars, command, retry, from, reply, deaths>> /\ command = "collect"
  BY DEF Cited!RecordVisa
<1>3. batch \subseteq Cited!Entries /\ reply = None
  BY <1>2 DEF CitedIInv, CitedPageFollowsPhase
<1>4. e \in Cited!Entries /\ e.decision \in Cited!Decisions /\ e.key \in Articles \union {None}
  BY <1>3 DEF Cited!Entries
<1>5. CitedPageFollowsPhase'
  BY <1>1, <1>2, <1>3 DEF CitedPageFollowsPhase, Cited!Entries
<1>6. CASE UNCHANGED <<occurrences, resolution>>
  <2>1. Cited!TypeOK'
    BY <1>2, <1>6 DEF CitedIInv, Cited!TypeOK, Cited!worldVars
  <2>2. QED
    BY <1>5, <1>6, <2>1, CitedUnchangedKeeps DEF CitedIInv
<1>7. CASE e.key # None /\ occurrences' = occurrences \union {e} /\ resolution' = Cited!EnsurePending(e.decision, e.key)
  <2>1. e.key \in Articles /\ Cited!TypeOK
    BY <1>4, <1>7 DEF CitedIInv
  <2>2. /\ resolution' \in [Cited!Keys -> Cited!Resolutions \union {None}]
        /\ resolution'[<<Corpus[e.decision], e.key>>] # None
        /\ \A k \in Cited!Keys : /\ resolution[k] # None => resolution'[k] = resolution[k]
                                 /\ resolution[k] = None /\ resolution'[k] # None => resolution'[k].count = 0
    BY <1>4, <1>7, <2>1, CitedEnsureKeeps
  <2>3. Cited!TypeOK'
    BY <1>2, <1>4, <1>7, <2>1, <2>2 DEF Cited!TypeOK, Cited!worldVars
  <2>4. IsFiniteSet(occurrences') /\ occurrences \subseteq occurrences'
    BY <1>7, FS_AddElement DEF CitedIInv
  <2>5. \A k \in Cited!Keys : Cited!Count(k) <= Cited!Count(k)' /\ Cited!Count(k) \in Nat /\ Cited!Count(k)' \in Nat
    BY <2>4, CitedCountGrows
  <2>6. \A o \in occurrences' : resolution'[<<Corpus[o.decision], o.key>>] # None
    <3>1. ASSUME NEW o \in occurrences PROVE resolution'[<<Corpus[o.decision], o.key>>] # None
      <4>1. resolution[<<Corpus[o.decision], o.key>>] # None
        BY DEF CitedIInv, Cited!OccurrencesAreResolvable
      <4>2. o.decision \in Cited!Decisions /\ o.key \in Articles
        BY <2>1 DEF Cited!TypeOK, Cited!Entries
      <4>3. QED
        BY <2>2, <4>1, <4>2, CitedKeyOf
    <3>2. QED
      BY <1>7, <2>2, <3>1
  <2>7. ASSUME NEW k \in Cited!Keys, resolution'[k] # None PROVE resolution'[k].count <= Cited!Count(k)'
    <3>1. CASE resolution[k] # None
      <4>1. resolution'[k] = resolution[k] /\ resolution[k].count <= Cited!Count(k)
        BY <2>2, <3>1 DEF CitedIInv, Cited!OccurrencesAreResolvable
      <4>2. resolution[k].count \in Nat
        BY <2>1, <3>1 DEF Cited!TypeOK, Cited!Resolutions
      <4>3. resolution[k].count <= Cited!Count(k)'
        BY <2>5, <4>1, <4>2
      <4>4. QED
        BY <4>1, <4>3
    <3>2. CASE resolution[k] = None
      BY <2>2, <2>5, <2>7, <3>2
    <3>3. QED
      BY <3>1, <3>2
  <2>8. Cited!OccurrencesAreResolvable'
    BY <2>6, <2>7 DEF Cited!OccurrencesAreResolvable
  <2>9. CitedKept
    BY <2>2 DEF CitedKept
  <2>10. QED
    BY <1>5, <2>3, <2>4, <2>8, <2>9 DEF CitedIInv
<1>8. QED
  BY <1>1, <1>6, <1>7

LEMMA CitedFinalizeKeeps ==
  ASSUME CitedAssumptions, CitedIInv, Cited!Finalize
  PROVE  CitedIInv' /\ CitedKept
<1>1. /\ command = "finalize" /\ command' = "idle"
      /\ resolution' = [k \in Cited!Keys |-> IF resolution[k] = None THEN None
                                       ELSE [resolution[k] EXCEPT !.count = Cited!Count(k)]]
      /\ UNCHANGED <<Cited!worldVars, occurrences, retry, batch, reply, deaths>>
  BY DEF Cited!Finalize
<1>2. \A k \in Cited!Keys : Cited!Count(k) \in Nat /\ Cited!Count(k)' = Cited!Count(k)
  BY <1>1, CitedCountTyped DEF CitedIInv, Cited!Count
<1>3. ASSUME NEW k \in Cited!Keys
      PROVE  /\ resolution[k] = None => resolution'[k] = None
             /\ resolution[k] # None => /\ resolution'[k] \in Cited!Resolutions /\ resolution'[k].count = Cited!Count(k)
                                        /\ resolution'[k].status = resolution[k].status
  <2>1. resolution[k] \in Cited!Resolutions \union {None}
    BY DEF CitedIInv, Cited!TypeOK
  <2>2. resolution'[k] = IF resolution[k] = None THEN None ELSE [resolution[k] EXCEPT !.count = Cited!Count(k)]
    BY <1>1
  <2>3. QED
    BY <1>2, <2>1, <2>2 DEF Cited!Resolutions
<1>4. resolution' \in [Cited!Keys -> Cited!Resolutions \union {None}]
  <2>1. DOMAIN resolution' = Cited!Keys /\ resolution' = [k \in Cited!Keys |-> resolution'[k]]
    BY <1>1
  <2>2. \A k \in Cited!Keys : resolution'[k] \in Cited!Resolutions \union {None}
    BY <1>3
  <2>3. QED
    BY <2>1, <2>2
<1>5. Cited!TypeOK'
  BY <1>1, <1>4 DEF CitedIInv, Cited!TypeOK, Cited!worldVars
<1>6. CitedPageFollowsPhase'
  BY <1>1 DEF CitedIInv, CitedPageFollowsPhase
<1>7. Cited!OccurrencesAreResolvable'
  <2>1. ASSUME NEW o \in occurrences PROVE resolution'[<<Corpus[o.decision], o.key>>] # None
    <3>1. resolution[<<Corpus[o.decision], o.key>>] # None
      BY DEF CitedIInv, Cited!OccurrencesAreResolvable
    <3>2. o.decision \in Cited!Decisions /\ o.key \in Articles
      BY DEF CitedIInv, Cited!TypeOK, Cited!Entries
    <3>3. QED
      BY <1>3, <3>1, <3>2, CitedKeyOf, CitedPendingTyped
  <2>2. ASSUME NEW k \in Cited!Keys, resolution'[k] # None PROVE resolution'[k].count <= Cited!Count(k)'
    BY <1>2, <1>3, <2>2
  <2>3. QED
    BY <1>1, <2>1, <2>2 DEF Cited!OccurrencesAreResolvable
<1>8. CitedKept
  BY <1>3, CitedPendingTyped DEF CitedKept
<1>9. QED
  BY <1>1, <1>5, <1>6, <1>7, <1>8 DEF CitedIInv

LEMMA CitedReadPendingKeeps ==
  ASSUME CitedAssumptions, CitedIInv, Cited!ReadPending
  PROVE  CitedIInv' /\ CitedKept
<1> DEFINE todo == {k \in Cited!Keys : /\ resolution[k] # None
                                       /\ resolution[k].status \in Cited!Wanted
                                       /\ from # None => Cited!Before(from, k)}
<1>1. /\ command = "resolve" /\ batch = {}
      /\ UNCHANGED <<Cited!worldVars, occurrences, resolution, reply, deaths>>
  BY DEF Cited!ReadPending
<1>2. \/ command' = "idle" /\ retry' = FALSE /\ batch' = batch
      \/ batch' \subseteq todo /\ UNCHANGED <<command, retry>>
  BY DEF Cited!ReadPending
<1>3. Cited!TypeOK'
  BY <1>1, <1>2 DEF CitedIInv, Cited!TypeOK, Cited!worldVars
<1>5. ASSUME command' = "idle", batch' = batch PROVE CitedPageFollowsPhase'
  <2>1. reply = None
    BY <1>1 DEF CitedIInv, CitedPageFollowsPhase
  <2>2. QED
    BY <1>1, <1>5, <2>1 DEF CitedPageFollowsPhase
<1>6. ASSUME batch' \subseteq todo, UNCHANGED <<command, retry>> PROVE CitedPageFollowsPhase'
  <2>1. reply = None
    BY <1>1 DEF CitedIInv, CitedPageFollowsPhase
  <2>2. batch' \subseteq {k \in Cited!Keys : resolution'[k] # None /\ resolution'[k].status \in Cited!Wanted'}
    BY <1>1, <1>6 DEF Cited!Wanted
  <2>3. QED
    BY <1>1, <1>6, <2>1, <2>2 DEF CitedPageFollowsPhase
<1>7. CitedPageFollowsPhase'
  BY <1>2, <1>5, <1>6
<1>8. QED
  BY <1>1, <1>3, <1>7, CitedUnchangedKeeps DEF CitedIInv

LEMMA CitedAskKeeps ==
  ASSUME CitedAssumptions, CitedIInv, Cited!Ask
  PROVE  CitedIInv' /\ CitedKept
<1>1. /\ command = "resolve" /\ batch # {}
      /\ UNCHANGED <<Cited!worldVars, occurrences, resolution, command, retry, from, batch, deaths>>
      /\ reply' \in Cited!Statuses
  BY DEF Cited!Ask, Cited!Statuses
<1>2. Cited!TypeOK'
  BY <1>1 DEF CitedIInv, Cited!TypeOK, Cited!worldVars
<1>3. CitedPageFollowsPhase'
  BY <1>1 DEF CitedIInv, CitedPageFollowsPhase, Cited!Wanted
<1>4. QED
  BY <1>1, <1>2, <1>3, CitedUnchangedKeeps DEF CitedIInv

LEMMA CitedRecordAnswerKeeps ==
  ASSUME CitedAssumptions, CitedIInv, Cited!RecordAnswer
  PROVE  CitedIInv' /\ CitedKept
<1>1. PICK k \in batch : /\ resolution' = [resolution EXCEPT ![k].status = reply]
                         /\ batch' = batch \ {k}
  BY DEF Cited!RecordAnswer
<1>2. /\ reply # None /\ reply' = None
      /\ UNCHANGED <<Cited!worldVars, occurrences, command, retry, from, deaths>>
  BY DEF Cited!RecordAnswer
<1>3. /\ command = "resolve" /\ reply \in Cited!Statuses
      /\ batch \subseteq {q \in Cited!Keys : resolution[q] # None /\ resolution[q].status \in Cited!Wanted}
  BY <1>2 DEF CitedIInv, CitedPageFollowsPhase
<1>4. /\ k \in Cited!Keys /\ resolution \in [Cited!Keys -> Cited!Resolutions \union {None}]
      /\ resolution[k] \in Cited!Resolutions /\ resolution[k].status \in Cited!Wanted
  BY <1>3 DEF CitedIInv, Cited!TypeOK
<1> DEFINE new == [resolution[k] EXCEPT !.status = reply]
<1>5. new \in Cited!Resolutions /\ new.count = resolution[k].count /\ new # None
  <2>1. new \in Cited!Resolutions /\ new.count = resolution[k].count
    BY <1>3, <1>4 DEF Cited!Resolutions
  <2>2. QED
    BY <2>1, CitedPendingTyped
<1>6. resolution' = [resolution EXCEPT ![k] = new]
  BY <1>1, <1>4
<1> HIDE DEF new
<1>7. /\ resolution' \in [Cited!Keys -> Cited!Resolutions \union {None}]
      /\ resolution'[k] = new
      /\ \A q \in Cited!Keys : q # k => resolution'[q] = resolution[q]
  BY <1>4, <1>5, <1>6
<1>8. Cited!TypeOK'
  BY <1>2, <1>7 DEF CitedIInv, Cited!TypeOK, Cited!worldVars
<1>9. CitedPageFollowsPhase'
  <2>1. batch' \subseteq {q \in Cited!Keys : resolution'[q] # None /\ resolution'[q].status \in Cited!Wanted'}
    BY <1>1, <1>2, <1>3, <1>7 DEF Cited!Wanted
  <2>2. QED
    BY <1>2, <1>3, <2>1 DEF CitedPageFollowsPhase
<1>10. \A q \in Cited!Keys : Cited!Count(q)' = Cited!Count(q)
  BY <1>2 DEF Cited!Count
<1>11. Cited!OccurrencesAreResolvable'
  <2>1. ASSUME NEW o \in occurrences PROVE resolution'[<<Corpus[o.decision], o.key>>] # None
    <3>1. resolution[<<Corpus[o.decision], o.key>>] # None
      BY DEF CitedIInv, Cited!OccurrencesAreResolvable
    <3>2. o.decision \in Cited!Decisions /\ o.key \in Articles
      BY DEF CitedIInv, Cited!TypeOK, Cited!Entries
    <3>3. <<Corpus[o.decision], o.key>> \in Cited!Keys
      BY <3>2, CitedKeyOf
    <3>4. QED
      BY <1>5, <1>7, <3>1, <3>3
  <2>2. ASSUME NEW q \in Cited!Keys, resolution'[q] # None PROVE resolution'[q].count <= Cited!Count(q)'
    <3>1. resolution[q] # None /\ resolution'[q].count = resolution[q].count
      BY <1>3, <1>5, <1>7, <2>2
    <3>2. QED
      BY <1>10, <3>1 DEF CitedIInv, Cited!OccurrencesAreResolvable
  <2>3. QED
    BY <1>2, <2>1, <2>2 DEF Cited!OccurrencesAreResolvable
<1>12. CitedKept
  <2>1. resolution[k].status \notin {"ok", "not_found"}
    BY <1>4 DEF Cited!Wanted
  <2>2. QED
    BY <1>7, <2>1 DEF CitedKept
<1>13. QED
  BY <1>2, <1>8, <1>9, <1>11, <1>12 DEF CitedIInv

LEMMA CitedCrashKeeps ==
  ASSUME CitedAssumptions, CitedIInv, Cited!Crash
  PROVE  CitedIInv' /\ CitedKept
<1>1. /\ command' = "idle" /\ retry' = FALSE /\ batch' = {} /\ reply' = None
      /\ deaths < MaxDeaths /\ deaths' = deaths + 1 /\ UNCHANGED <<Cited!worldVars, occurrences, resolution>>
  BY DEF Cited!Crash
<1>2. deaths' \in 0..MaxDeaths
  BY <1>1 DEF CitedIInv, Cited!TypeOK, CitedAssumptions, Cited!BoundsAssumption
<1>3. Cited!TypeOK'
  BY <1>1, <1>2 DEF CitedIInv, Cited!TypeOK, Cited!worldVars
<1>4. CitedPageFollowsPhase'
  BY <1>1 DEF CitedPageFollowsPhase
<1>5. QED
  BY <1>1, <1>3, <1>4, CitedUnchangedKeeps DEF CitedIInv

LEMMA CitedStepKeeps ==
  ASSUME CitedAssumptions, CitedIInv, [Cited!Next]_(Cited!vars)
  PROVE  CitedIInv' /\ CitedKept
<1>1. CASE UNCHANGED Cited!vars
  <2>1. UNCHANGED <<occurrences, resolution>>
    BY <1>1 DEF Cited!vars
  <2>2. Cited!TypeOK' /\ CitedPageFollowsPhase'
    BY <1>1 DEF Cited!vars, CitedIInv, Cited!TypeOK, CitedPageFollowsPhase, Cited!Wanted
  <2>3. QED
    BY <2>1, <2>2, CitedUnchangedKeeps DEF CitedIInv
<1>2. CASE \/ \E d \in Cited!Decisions, v \in Visas : Cited!Archive(d, v)
           \/ \E state \in {"down", "garbled"} : Cited!Disturb(state)
           \/ Cited!Recover
  BY <1>2, CitedWorldKeeps
<1>4. CASE Cited!BeginCollect \/ \E r \in BOOLEAN : Cited!BeginResolve(r)
  BY <1>4, CitedBeginKeeps
<1>5. CASE Cited!CommandStep \/ Cited!Crash
  BY <1>5, CitedReadDecisionsKeeps, CitedRecordVisaKeeps, CitedFinalizeKeeps, CitedReadPendingKeeps,
     CitedAskKeeps, CitedRecordAnswerKeeps,
     CitedCrashKeeps DEF Cited!CommandStep
<1>6. QED
  BY <1>1, <1>2, <1>4, <1>5 DEF Cited!Next

LEMMA CitedInvariance == ASSUME CitedAssumptions PROVE Cited!Spec => []CitedIInv
<1>1. Cited!Init => CitedIInv
  BY CitedInitKeeps
<1>2. CitedIInv /\ [Cited!Next]_(Cited!vars) => CitedIInv'
  BY CitedStepKeeps
<1>3. QED
  BY <1>1, <1>2, PTL DEF Cited!Spec

(* What the variables of the collection and the resolution hold.           *)
LEMMA CitedTypeCorrect == ASSUME CitedAssumptions PROVE Cited!Spec => []Cited!TypeOK
<1>1. CitedIInv => Cited!TypeOK
  BY DEF CitedIInv
<1>2. QED
  BY CitedInvariance, <1>1, PTL

(* Every recorded occurrence has a resolution of its article in the corpus *)
(* of its decision, and no resolution counts more than there are, through  *)
(* any interleaving of commands, deaths and newly archived responses.      *)
THEOREM CitedOccurrencesAreResolvableAlways ==
  ASSUME CitedAssumptions
  PROVE  Cited!Spec => []Cited!OccurrencesAreResolvable
<1>1. CitedIInv => Cited!OccurrencesAreResolvable
  BY DEF CitedIInv
<1>2. QED
  BY CitedInvariance, <1>1, PTL

(* What Legifrance answered about an article is kept by every later step.  *)
THEOREM CitedAnswersAreKeptAlways == ASSUME CitedAssumptions PROVE Cited!Spec => Cited!AnswersAreKept
<1>1. CitedIInv /\ [Cited!Next]_(Cited!vars) => [CitedKept]_(Cited!vars)
  BY CitedStepKeeps
<1>2. QED
  BY CitedInvariance, <1>1, PTL DEF Cited!Spec, Cited!AnswersAreKept, CitedKept

-----------------------------------------------------------------------------
(* The exchange with an official API.  The client never counts the life of *)
(* a token that came in time longer than the server does.                  *)

(* The client counts a cached token's life, if it was named one, no longer *)
(* than the server does, unless the token took longer to arrive than the   *)
(* skew, or the server has taken one back.                                 *)
ApiCacheIsCautious ==
  token # None /\ revoked = 0 /\ token.expires_in # None /\ token.took <= Skew
    => token.client \in Nat /\ token.server >= token.client

(* Only what has been sent before waits, only Legifrance is asked for      *)
(* tokens, and a request to it carries one.                                *)
ApiExchangeIsFramed ==
  /\ call \in {"auth wait", "send wait"} => attempt > 0
  /\ call \in {"auth", "auth wait"} => provider = "legifrance"
  /\ call \in {"send", "send wait"} /\ provider = "legifrance" => bearer \in Nat

ApiAssumptions == Api!BoundsAssumption /\ Api!NoneAssumption

ApiIInv == Api!TypeOK /\ ApiCacheIsCautious /\ ApiExchangeIsFramed /\ Api!FirstAttemptIsAuthorised

-----------------------------------------------------------------------------
(* The back-off.                                                           *)

LEMMA ApiPowers ==
  ASSUME NEW n \in Nat
  PROVE  2^n \in Nat /\ 2^n < 2^(n + 1)
<1> DEFINE A == SUBSET (1..n)
           B == SUBSET (1..(n + 1))
<1>1. /\ IsFiniteSet(1..n) /\ Cardinality(1..n) = n
      /\ IsFiniteSet(1..(n + 1)) /\ Cardinality(1..(n + 1)) = n + 1
  <2>1. n \in Int /\ n + 1 \in Int /\ 1 \in Int
    OBVIOUS
  <2>2. IsFiniteSet(1..n) /\ Cardinality(1..n) = IF 1 > n THEN 0 ELSE n - 1 + 1
    BY <2>1, FS_Interval, Zenon
  <2>3. IsFiniteSet(1..(n + 1)) /\ Cardinality(1..(n + 1)) = IF 1 > n + 1 THEN 0 ELSE (n + 1) - 1 + 1
    BY <2>1, FS_Interval, Zenon
  <2>4. QED
    BY <2>2, <2>3
<1>2. /\ IsFiniteSet(A) /\ Cardinality(A) = 2^n
      /\ IsFiniteSet(B) /\ Cardinality(B) = 2^(n + 1)
  BY <1>1, FS_SUBSET
<1>3. A \subseteq B /\ A # B
  <2>1. \A x \in 1..n : x \in 1..(n + 1)
    OBVIOUS
  <2>2. n + 1 \in 1..(n + 1) /\ n + 1 \notin 1..n
    OBVIOUS
  <2>3. QED
    BY <2>1, <2>2, Zenon
<1>4. Cardinality(A) \in Nat /\ Cardinality(B) \in Nat
  BY <1>2, FS_CardinalityType
<1> HIDE DEF A, B
<1>5. Cardinality(A) <= Cardinality(B) /\ Cardinality(A) # Cardinality(B)
  BY <1>2, <1>3, FS_Subset
<1>6. QED
  BY <1>2, <1>4, <1>5

LEMMA ApiFactorGrows ==
  ASSUME Api!BoundsAssumption, NEW n \in Nat
  PROVE  Api!Factor(n) \in Nat /\ Api!Factor(n) <= Api!Factor(n + 1)
<1>1. Width \in Nat
  BY DEF Api!BoundsAssumption
<1>2. 2^n \in Nat /\ 2^n < 2^(n + 1) /\ 2^(n + 1) \in Nat /\ 2^Width \in Nat
  BY <1>1, ApiPowers
<1>3. 2^Width > 0
  <2>1. CASE Width = 0
    <3>1. 2^0 = 1
      OBVIOUS
    <3>2. QED
      BY <2>1, <3>1
  <2>2. CASE Width # 0
    <3>1. Width - 1 \in Nat /\ (Width - 1) + 1 = Width
      BY <1>1, <2>2
    <3>2. 2^(Width - 1) \in Nat /\ 2^(Width - 1) < 2^((Width - 1) + 1)
      BY <3>1, ApiPowers
    <3>3. QED
      BY <3>1, <3>2, <1>2
  <2>3. QED
    BY <2>1, <2>2
<1>4. Api!Factor(n) \in Nat
  <2>1. Api!Factor(n) = 2^n \/ Api!Factor(n) = 2^Width - 1
    BY DEF Api!Factor
  <2>2. QED
    BY <1>2, <1>3, <2>1
<1>5. CASE n + 1 < Width
  <2>1. n < Width
    BY <1>1, <1>5
  <2>2. Api!Factor(n) = 2^n /\ Api!Factor(n + 1) = 2^(n + 1)
    BY <1>5, <2>1 DEF Api!Factor
  <2>3. QED
    BY <1>2, <1>4, <2>2
<1>6. CASE n < Width /\ ~(n + 1 < Width)
  <2>1. Width = n + 1
    BY <1>1, <1>6
  <2>2. Api!Factor(n) = 2^n /\ Api!Factor(n + 1) = 2^(n + 1) - 1
    BY <1>6, <2>1 DEF Api!Factor
  <2>3. QED
    BY <1>2, <2>2
<1>7. CASE ~(n < Width)
  <2>3. ~(n + 1 < Width)
    BY <1>1, <1>7
  <2>1. Api!Factor(n) = 2^Width - 1 /\ Api!Factor(n + 1) = 2^Width - 1
    BY <1>7, <2>3 DEF Api!Factor
  <2>2. QED
    BY <1>2, <1>4, <2>1
<1>8. QED
  BY <1>4, <1>5, <1>6, <1>7

LEMMA ApiScaledGrows ==
  ASSUME NEW a \in Nat, NEW x \in Nat, NEW y \in Nat, x <= y
  PROVE  a * x \in Nat /\ a * y \in Nat /\ a * x <= a * y
<1>1. PICK d \in Nat : y = x + d
  <2>1. y - x \in Nat /\ y = x + (y - x)
    OBVIOUS
  <2>2. QED
    BY <2>1
<1>2. a * y = a * x + a * d
  BY <1>1
<1>3. a * d \in Nat /\ a * x \in Nat
  OBVIOUS
<1>4. QED
  BY <1>2, <1>3

LEMMA ApiDelayGrows ==
  ASSUME Api!BoundsAssumption, NEW n \in Nat
  PROVE  Api!RetryDelay(None, n) <= Api!RetryDelay(None, n + 1)
<1> DEFINE x == BaseDelay * Api!Factor(n)
           y == BaseDelay * Api!Factor(n + 1)
<1>1. BaseDelay \in Nat /\ MaxDelay \in Nat /\ Api!Factor(n) \in Nat /\ Api!Factor(n + 1) \in Nat
      /\ Api!Factor(n) <= Api!Factor(n + 1)
  BY ApiFactorGrows DEF Api!BoundsAssumption
<1>2. x \in Nat /\ y \in Nat /\ x <= y
  BY <1>1, ApiScaledGrows
<1>3. /\ Api!RetryDelay(None, n) = Api!Lower(x, MaxDelay)
      /\ Api!RetryDelay(None, n + 1) = Api!Lower(y, MaxDelay)
  BY DEF Api!RetryDelay
<1> HIDE DEF x, y
<1>4. QED
  BY <1>1, <1>2, <1>3 DEF Api!Lower

LEMMA ApiDelayTyped ==
  ASSUME Api!BoundsAssumption, NEW n \in Nat, NEW header \in Api!RetryAfters
  PROVE  Api!RetryDelay(header, n) \in 0..MaxDelay
<1>1. MaxDelay \in Nat /\ BaseDelay \in Nat /\ Api!Factor(n) \in Nat
  BY ApiFactorGrows DEF Api!BoundsAssumption
<1>2. BaseDelay * Api!Factor(n) \in Nat
  BY <1>1
<1>3. CASE header = None
  BY <1>1, <1>2, <1>3 DEF Api!RetryDelay, Api!Lower
<1>4. CASE header # None
  <2>1. header \in Nat
    BY <1>1, <1>4 DEF Api!RetryAfters
  <2>2. QED
    BY <1>1, <1>4, <2>1 DEF Api!RetryDelay, Api!Lower
<1>5. QED
  BY <1>3, <1>4

-----------------------------------------------------------------------------
(* The exchange.                                                           *)

LEMMA ApiLeftTyped ==
  ASSUME NEW d \in Nat
  PROVE  /\ \A x \in Nat : Api!Less(x, d) \in Nat
         /\ \A x \in Nat \cup {None} : Api!Left(x, d) \in Nat \cup {None}
<1>1. \A x \in Nat : Api!Less(x, d) \in Nat
  BY DEF Api!Less
<1>2. QED
  BY <1>1 DEF Api!Left

(* Time takes from what is left of a token, and nothing from what is told  *)
(* of it.                                                                  *)
LEMMA ApiAged ==
  ASSUME Api!TypeOK, NEW d \in Nat
  PROVE  /\ Api!Aged(token, d) \in Api!Tokens \cup {None}
         /\ token = None => Api!Aged(token, d) = None
         /\ token # None =>
              /\ token \in Api!Tokens
              /\ Api!Aged(token, d) =
                   [server |-> Api!Less(token.server, d), client |-> Api!Left(token.client, d),
                    expires_in |-> token.expires_in, took |-> token.took]
<1>1. CASE token = None
  BY <1>1 DEF Api!Aged
<1>2. CASE token # None
  <2>1. token \in Api!Tokens
    BY <1>2 DEF Api!TypeOK
  <2>2. Api!Aged(token, d) =
          [server |-> Api!Less(token.server, d), client |-> Api!Left(token.client, d),
           expires_in |-> token.expires_in, took |-> token.took]
    BY <1>2, <2>1 DEF Api!Aged, Api!Tokens
  <2>3. /\ token.server \in Nat /\ token.client \in Nat \cup {None}
        /\ token.expires_in \in Nat \cup {None} /\ token.took \in Nat
    BY <2>1 DEF Api!Tokens
  <2>4. Api!Less(token.server, d) \in Nat /\ Api!Left(token.client, d) \in Nat \cup {None}
    BY <2>3, ApiLeftTyped
  <2>5. Api!Aged(token, d) \in Api!Tokens
    BY <2>2, <2>3, <2>4 DEF Api!Tokens
  <2>6. QED
    BY <1>2, <2>1, <2>2, <2>5
<1>3. QED
  BY <1>1, <1>2

LEMMA ApiAgedCautious ==
  ASSUME Api!NoneAssumption, Api!TypeOK, ApiCacheIsCautious, NEW d \in Nat, token' = Api!Aged(token, d),
         revoked' = revoked
  PROVE  /\ ApiCacheIsCautious'
         /\ Api!TokenCameInTime' => Api!TokenCameInTime
<1>1. CASE token = None
  BY <1>1, ApiAged DEF ApiCacheIsCautious, Api!TokenCameInTime
<1>2. CASE token # None
  <2>1. token \in Api!Tokens
        /\ token' = [server |-> Api!Less(token.server, d), client |-> Api!Left(token.client, d),
                     expires_in |-> token.expires_in, took |-> token.took]
    BY <1>2, ApiAged
  <2>2. token.server \in Nat
    BY <2>1 DEF Api!Tokens
  <2>3. token.client \in Nat => token'.client = Api!Less(token.client, d)
    BY <2>1 DEF Api!Left, Api!NoneAssumption
  <2>4. ApiCacheIsCautious'
    BY <1>2, <2>1, <2>2, <2>3 DEF ApiCacheIsCautious, Api!Less
  <2>5. QED
    BY <2>1, <2>4 DEF Api!TokenCameInTime
<1>3. QED
  BY <1>1, <1>2

LEMMA ApiZeroIsBounded ==
  ASSUME Api!BoundsAssumption
  PROVE  0 \in 0..MaxRetries /\ 0 \in 0..MaxDelay /\ 0 \in 0..MaxLatency /\ 0 \in 0..MaxRevoked
  BY DEF Api!BoundsAssumption

LEMMA ApiInitKeeps == ASSUME ApiAssumptions, Api!Init PROVE ApiIInv
  BY ApiZeroIsBounded
     DEF ApiAssumptions, Api!Init, ApiIInv, Api!TypeOK, ApiCacheIsCautious, ApiExchangeIsFramed,
         Api!FirstAttemptIsAuthorised, Api!Providers

LEMMA ApiBeginKeeps ==
  ASSUME ApiAssumptions, ApiIInv, NEW p \in Api!Providers, Api!Begin(p)
  PROVE  ApiIInv'
<1>1. /\ call' \in {"idle", "auth", "send"} /\ provider' = p
      /\ attempt' = 0 /\ delay' = 0 /\ late' = 0
      /\ result' \in Api!Outcomes \cup {None} /\ UNCHANGED <<keys, token, revoked>>
      /\ call' = "auth" => p = "legifrance"
      /\ call' = "send" /\ p = "legifrance" => Api!CacheIsValid /\ bearer' = token.server
      /\ ~(call' = "send" /\ p = "legifrance") => bearer' = None
  BY DEF Api!Begin, Api!End, Api!Outcomes, Api!Providers
<1>2. token # None => token.server \in Nat
  BY DEF ApiIInv, Api!TypeOK, Api!Tokens
<1>3. bearer' \in Nat \cup {None}
  BY <1>1, <1>2 DEF Api!CacheIsValid
<1>4. Api!TypeOK'
  BY <1>1, <1>3, ApiZeroIsBounded DEF ApiAssumptions, ApiIInv, Api!TypeOK
<1>5. ApiCacheIsCautious' /\ ApiExchangeIsFramed'
  BY <1>1, <1>2 DEF ApiIInv, ApiCacheIsCautious, ApiExchangeIsFramed, Api!CacheIsValid
<1>6. Api!FirstAttemptIsAuthorised'
  <2>1. SUFFICES ASSUME call' = "send", p = "legifrance", revoked = 0, Api!TokenCameInTime
                 PROVE  bearer' > 0
    BY <1>1 DEF Api!FirstAttemptIsAuthorised, Api!TokenCameInTime
  <2>2. token # None /\ token.client # 0 /\ bearer' = token.server
    BY <1>1, <2>1 DEF Api!CacheIsValid
  <2>3. token.client \in Nat /\ token.server >= token.client
    BY <2>1, <2>2 DEF ApiIInv, ApiCacheIsCautious, Api!TokenCameInTime
  <2>4. QED
    BY <1>2, <2>2, <2>3
<1>7. QED
  BY <1>4, <1>5, <1>6 DEF ApiIInv

(* An exchange that ends keeps the cache as it is.                         *)
LEMMA ApiEndKeeps ==
  ASSUME ApiAssumptions, ApiIInv, NEW o \in Api!Outcomes, Api!End(o),
         UNCHANGED <<keys, provider, token, revoked>>
  PROVE  ApiIInv'
<1>1. Api!TypeOK'
  BY ApiZeroIsBounded DEF ApiAssumptions, ApiIInv, Api!TypeOK, Api!End
<1>2. ApiCacheIsCautious' /\ ApiExchangeIsFramed' /\ Api!FirstAttemptIsAuthorised'
  BY DEF ApiIInv, Api!End, ApiCacheIsCautious, ApiExchangeIsFramed, Api!FirstAttemptIsAuthorised
<1>3. QED
  BY <1>1, <1>2 DEF ApiIInv

LEMMA ApiTimesTyped ==
  ASSUME ApiAssumptions, ApiIInv
  PROVE  late \in Nat /\ Skew \in Nat /\ \A life \in Lifetimes : life \in Nat
<1>1. MaxLatency \in Nat /\ Skew \in Nat /\ Lifetimes \subseteq Nat
  BY DEF ApiAssumptions, Api!BoundsAssumption
<1>2. late \in 0 .. MaxLatency
  BY DEF ApiIInv, Api!TypeOK
<1>3. QED
  BY <1>1, <1>2

LEMMA ApiTokenTyped ==
  ASSUME NEW server \in Nat, NEW client \in Nat \cup {None}, NEW expires_in \in Nat \cup {None}, NEW took \in Nat
  PROVE  [server |-> server, client |-> client, expires_in |-> expires_in, took |-> took] \in Api!Tokens
BY DEF Api!Tokens

(* An error is waited out, or it ends the exchange.                        *)
LEMMA ApiErrorKeeps ==
  ASSUME ApiAssumptions, ApiIInv, call \in {"auth", "send"}, Api!ErrorAnswer,
         UNCHANGED <<keys, provider, token, revoked>>
  PROVE  ApiIInv'
<1>1. ASSUME NEW header \in Api!RetryAfters, Api!Retryable(header) PROVE ApiIInv'
  <2>1. attempt < MaxRetries /\ attempt' = attempt + 1 /\ late' = 0 /\ UNCHANGED result
        /\ bearer' = Api!Left(bearer, late)
        /\ call' = IF call = "auth" THEN "auth wait" ELSE "send wait"
    BY <1>1 DEF Api!Retryable
  <2>2. attempt \in Nat /\ attempt' \in 0..MaxRetries /\ attempt' > 0
    <3>1. MaxRetries \in Nat
      BY DEF ApiAssumptions, Api!BoundsAssumption
    <3>2. attempt \in 0..MaxRetries
      BY DEF ApiIInv, Api!TypeOK
    <3>3. attempt < MaxRetries /\ attempt' = attempt + 1
      BY <2>1
    <3>4. attempt \in Nat /\ attempt + 1 \in 0..MaxRetries /\ attempt + 1 > 0
      BY <3>1, <3>2, <3>3
    <3>5. QED
      BY <3>3, <3>4, Zenon
  <2>3. delay' \in 0..MaxDelay
    BY <1>1, <2>2, ApiDelayTyped DEF ApiAssumptions, Api!Retryable
  <2>4. late \in Nat
    BY ApiTimesTyped
  <2>5. bearer \in Nat \cup {None} /\ bearer' \in Nat \cup {None} /\ (bearer \in Nat => bearer' \in Nat)
    <3>1. bearer \in Nat \cup {None}
      BY DEF ApiIInv, Api!TypeOK
    <3>2. bearer \in Nat => Api!Left(bearer, late) = Api!Less(bearer, late)
      BY DEF Api!Left, ApiAssumptions, Api!NoneAssumption
    <3>3. QED
      BY <2>1, <2>4, <3>1, <3>2, ApiLeftTyped
  <2>6. Api!TypeOK'
    BY <2>1, <2>2, <2>3, <2>5, ApiZeroIsBounded DEF ApiAssumptions, ApiIInv, Api!TypeOK
  <2>7. attempt' # 0
    BY <2>2
  <2>8. call' \in {"auth wait", "send wait"} /\ (call' = "send wait" => call = "send")
        /\ (call' = "auth wait" => call = "auth")
    BY <2>1
  <2>9. ApiExchangeIsFramed' /\ Api!FirstAttemptIsAuthorised'
    BY <2>2, <2>5, <2>7, <2>8 DEF ApiIInv, ApiExchangeIsFramed, Api!FirstAttemptIsAuthorised
  <2>10. ApiCacheIsCautious'
    BY DEF ApiIInv, ApiCacheIsCautious
  <2>11. QED
    BY <2>6, <2>9, <2>10 DEF ApiIInv
<1>2. ASSUME Api!Rejected PROVE ApiIInv'
  BY <1>2, ApiEndKeeps DEF Api!Rejected, Api!Outcomes
<1>3. QED
  BY <1>1, <1>2 DEF Api!ErrorAnswer

LEMMA ApiAuthenticateKeeps == ASSUME ApiAssumptions, ApiIInv, Api!Authenticate PROVE ApiIInv'
<1>1. CASE Api!ErrorAnswer /\ UNCHANGED token
  BY <1>1, ApiErrorKeeps DEF Api!Authenticate
<1>2. CASE Api!TokenArrives
  <2>0. PICK life \in Lifetimes : \E n \in {life, None} :
          /\ token' = [server |-> Api!Less(life, late), client |-> Api!ExpiresIn(n),
                       expires_in |-> n, took |-> late]
          /\ bearer' = Api!Less(life, late)
    BY <1>2 DEF Api!TokenArrives
  <2>1. PICK expires_in \in {life, None} :
          /\ token' = [server |-> Api!Less(life, late), client |-> Api!ExpiresIn(expires_in),
                       expires_in |-> expires_in, took |-> late]
          /\ bearer' = Api!Less(life, late)
    BY <2>0
  <2>2. /\ call' = "send" /\ attempt' = 0 /\ delay' = 0 /\ late' = 0 /\ result' = result
        /\ UNCHANGED <<keys, provider, revoked>>
    BY <1>2 DEF Api!TokenArrives, Api!Authenticate
  <2>3. life \in Nat /\ late \in Nat /\ Skew \in Nat
    BY ApiTimesTyped
  <2>4. /\ Api!Less(life, late) \in Nat
        /\ late < life => Api!Less(life, late) > 0
    BY <2>3 DEF Api!Less
  <2>5. /\ expires_in = life => Api!ExpiresIn(expires_in) = Api!Less(life, Skew)
        /\ expires_in = None => Api!ExpiresIn(expires_in) = None
    BY <2>3 DEF Api!ExpiresIn, ApiAssumptions, Api!NoneAssumption
  <2>6. /\ Api!Less(life, Skew) \in Nat
        /\ late <= Skew => Api!Less(life, late) >= Api!Less(life, Skew)
    BY <2>3 DEF Api!Less
  <2>7. token' \in Api!Tokens
    <3>1. Api!ExpiresIn(expires_in) \in Nat \cup {None} /\ expires_in \in Nat \cup {None}
      BY <2>1, <2>3, <2>5, <2>6
    <3>2. QED
      BY <2>1, <2>3, <2>4, <3>1, ApiTokenTyped
  <2>8. Api!TypeOK'
    BY <2>1, <2>2, <2>4, <2>7, ApiZeroIsBounded DEF ApiAssumptions, ApiIInv, Api!TypeOK
  <2>9. /\ token'.server = Api!Less(life, late) /\ token'.client = Api!ExpiresIn(expires_in)
        /\ token'.expires_in = expires_in /\ token'.took = late
    BY <2>1
  <2>10. ApiCacheIsCautious'
    <3>1. ASSUME token' # None, token'.expires_in # None, token'.took <= Skew
          PROVE  token'.client \in Nat /\ token'.server >= token'.client
      <4>1. expires_in = life
        BY <2>1, <2>9, <3>1
      <4>2. token'.client = Api!Less(life, Skew) /\ token'.server = Api!Less(life, late) /\ late <= Skew
        BY <2>5, <2>9, <3>1, <4>1
      <4>3. QED
        BY <2>4, <2>6, <4>2
    <3>2. QED
      BY <3>1, Zenon DEF ApiCacheIsCautious
  <2>11. Api!FirstAttemptIsAuthorised'
    BY <2>1, <2>3, <2>4, <2>9 DEF Api!FirstAttemptIsAuthorised, Api!TokenCameInTime
  <2>12. ApiExchangeIsFramed'
    BY <2>1, <2>2, <2>4 DEF ApiExchangeIsFramed
  <2>13. QED
    BY <2>8, <2>10, <2>11, <2>12 DEF ApiIInv
<1>3. QED
  BY <1>1, <1>2 DEF Api!Authenticate

LEMMA ApiSendKeeps == ASSUME ApiAssumptions, ApiIInv, Api!Send PROVE ApiIInv'
<1>1. CASE Api!ErrorAnswer
  BY <1>1, ApiErrorKeeps DEF Api!Send
<1>2. CASE Api!Rejected
  BY <1>2, ApiErrorKeeps DEF Api!Send, Api!ErrorAnswer
<1>3. ASSUME NEW o \in {"ok", "parse_error"}, Api!End(o) PROVE ApiIInv'
  BY <1>3, ApiEndKeeps DEF Api!Send, Api!Outcomes
<1>4. QED
  BY <1>1, <1>2, <1>3 DEF Api!Send

LEMMA ApiTrickleKeeps == ASSUME ApiAssumptions, ApiIInv, Api!Trickle PROVE ApiIInv'
<1>1. PICK d \in 1..ReadTimeout :
        late + d <= MaxLatency /\ late' = late + d /\ token' = Api!Aged(token, d)
  BY DEF Api!Trickle
<1>2. UNCHANGED <<keys, call, provider, attempt, delay, bearer, result, revoked>>
  BY DEF Api!Trickle
<1>3. d \in Nat /\ late' \in 0..MaxLatency
  <2>1. ReadTimeout \in Nat /\ MaxLatency \in Nat /\ late \in 0..MaxLatency
    BY DEF ApiIInv, Api!TypeOK, ApiAssumptions, Api!BoundsAssumption
  <2>2. d \in Nat /\ late + d \in 0..MaxLatency
    BY <1>1, <2>1
  <2>3. QED
    BY <1>1, <2>2
<1>4. token' \in Api!Tokens \cup {None} /\ ApiCacheIsCautious'
      /\ (Api!TokenCameInTime' => Api!TokenCameInTime)
  BY <1>1, <1>2, <1>3, ApiAged, ApiAgedCautious DEF ApiIInv, ApiAssumptions
<1>5. Api!TypeOK'
  BY <1>2, <1>3, <1>4 DEF ApiIInv, Api!TypeOK
<1>6. ApiExchangeIsFramed' /\ Api!FirstAttemptIsAuthorised'
  BY <1>2, <1>4 DEF ApiIInv, ApiExchangeIsFramed, Api!FirstAttemptIsAuthorised
<1>7. QED
  BY <1>4, <1>5, <1>6 DEF ApiIInv

LEMMA ApiWaitKeeps == ASSUME ApiAssumptions, ApiIInv, Api!Wait PROVE ApiIInv'
<1>1. delay \in Nat /\ attempt \in Nat
  <2>1. MaxDelay \in Nat /\ MaxRetries \in Nat
    BY DEF ApiAssumptions, Api!BoundsAssumption
  <2>2. delay \in 0..MaxDelay /\ attempt \in 0..MaxRetries
    BY DEF ApiIInv, Api!TypeOK
  <2>3. QED
    BY <2>1, <2>2
<1>2. token' = Api!Aged(token, delay) /\ bearer' = Api!Left(bearer, delay) /\ revoked' = revoked
  BY DEF Api!Wait
<1>3. ApiCacheIsCautious' /\ token' \in Api!Tokens \cup {None}
  BY <1>1, <1>2, ApiAgedCautious, ApiAged DEF ApiIInv, ApiAssumptions
<1>4. bearer' \in Nat \cup {None} /\ (bearer \in Nat => bearer' \in Nat)
  <2>1. bearer \in Nat \cup {None}
    BY DEF ApiIInv, Api!TypeOK
  <2>2. bearer \in Nat => Api!Left(bearer, delay) = Api!Less(bearer, delay)
    BY DEF Api!Left, ApiAssumptions, Api!NoneAssumption
  <2>3. QED
    BY <1>1, <1>2, <2>1, <2>2, ApiLeftTyped
<1>5. Api!TypeOK'
  BY <1>3, <1>4 DEF ApiIInv, Api!TypeOK, Api!Wait
<1>6. attempt > 0 /\ attempt' # 0 /\ attempt' = attempt /\ call' = (IF call = "auth wait" THEN "auth" ELSE "send")
      /\ UNCHANGED <<provider, revoked>> /\ call \in {"auth wait", "send wait"}
  <2>1. attempt > 0
    BY DEF ApiIInv, ApiExchangeIsFramed, Api!Wait
  <2>2. attempt > 0 /\ attempt # 0
    BY <1>1, <2>1
  <2>3. QED
    BY <2>2 DEF Api!Wait
<1>7. ApiExchangeIsFramed'
  BY <1>4, <1>6 DEF ApiIInv, ApiExchangeIsFramed
<1>8. Api!FirstAttemptIsAuthorised'
  BY <1>6 DEF Api!FirstAttemptIsAuthorised
<1>9. QED
  BY <1>3, <1>5, <1>7, <1>8 DEF ApiIInv

LEMMA ApiTimeKeeps == ASSUME ApiAssumptions, ApiIInv, Api!Revoke \/ Api!Idle PROVE ApiIInv'
<1>1. CASE Api!Revoke
  <2>1. token \in Api!Tokens /\ token' = [token EXCEPT !.server = 0]
    BY <1>1 DEF ApiIInv, Api!TypeOK, Api!Revoke
  <2>2. token' \in Api!Tokens
    BY <2>1 DEF Api!Tokens
  <2>3. revoked' \in 1..MaxRevoked
    BY <1>1 DEF ApiIInv, Api!TypeOK, Api!Revoke, ApiAssumptions, Api!BoundsAssumption
  <2>4. Api!TypeOK'
    BY <1>1, <2>2, <2>3 DEF ApiIInv, Api!TypeOK, Api!Revoke, ApiAssumptions, Api!BoundsAssumption
  <2>5. ApiCacheIsCautious' /\ ApiExchangeIsFramed' /\ Api!FirstAttemptIsAuthorised'
    BY <1>1, <2>3
       DEF ApiIInv, Api!Revoke, ApiCacheIsCautious, ApiExchangeIsFramed, Api!FirstAttemptIsAuthorised
  <2>6. QED
    BY <2>4, <2>5 DEF ApiIInv
<1>2. CASE Api!Idle
  <2>1. ApiCacheIsCautious' /\ token' \in Api!Tokens \cup {None}
    BY <1>2, ApiAgedCautious, ApiAged DEF ApiIInv, ApiAssumptions, Api!Idle
  <2>2. Api!TypeOK'
    BY <1>2, <2>1 DEF ApiIInv, Api!TypeOK, Api!Idle
  <2>3. ApiExchangeIsFramed' /\ Api!FirstAttemptIsAuthorised'
    BY <1>2 DEF ApiIInv, Api!Idle, ApiExchangeIsFramed, Api!FirstAttemptIsAuthorised
  <2>4. QED
    BY <2>1, <2>2, <2>3 DEF ApiIInv
<1>3. QED
  BY <1>1, <1>2

LEMMA ApiNextKeeps == ASSUME ApiAssumptions, ApiIInv, [Api!Next]_(Api!apiVars) PROVE ApiIInv'
<1>1. CASE UNCHANGED Api!apiVars
  BY <1>1
     DEF Api!apiVars, ApiIInv, Api!TypeOK, ApiCacheIsCautious, ApiExchangeIsFramed,
         Api!FirstAttemptIsAuthorised, Api!TokenCameInTime
<1>2. QED
  BY <1>1, ApiBeginKeeps, ApiAuthenticateKeeps, ApiSendKeeps, ApiWaitKeeps, ApiTrickleKeeps, ApiTimeKeeps
     DEF Api!Next, Api!ApiStep

LEMMA ApiInvariance == ASSUME ApiAssumptions PROVE Api!Spec => []ApiIInv
<1>1. Api!Init => ApiIInv
  BY ApiInitKeeps
<1>2. ApiIInv /\ [Api!Next]_(Api!apiVars) => ApiIInv'
  BY ApiNextKeeps
<1>3. QED
  BY <1>1, <1>2, PTL DEF Api!Spec

LEMMA ApiTypeCorrect == ASSUME ApiAssumptions PROVE Api!Spec => []Api!TypeOK
<1>1. ApiIInv => Api!TypeOK
  BY DEF ApiIInv
<1>2. QED
  BY ApiInvariance, <1>1, PTL

(* The first attempt of a request to Legifrance carries a live token, as   *)
(* long as the server takes none back, if that token named its life and    *)
(* came in within the skew and within that life: for any skew, any lives   *)
(* of tokens, and answers that take any time.                              *)
THEOREM ApiFirstAttemptIsAuthorisedAlways ==
  ASSUME ApiAssumptions
  PROVE  Api!Spec => []Api!FirstAttemptIsAuthorised
<1>1. ApiIInv => Api!FirstAttemptIsAuthorised
  BY DEF ApiIInv
<1>2. QED
  BY ApiInvariance, <1>1, PTL

(* The client's own back-off never shrinks from one retry to the next, for *)
(* any base, cap and width of the factor, past the width too.              *)
THEOREM ApiBackoffNeverShrinksAlways ==
  ASSUME ApiAssumptions
  PROVE  Api!Spec => []Api!BackoffNeverShrinks
<1>1. ApiIInv => Api!BackoffNeverShrinks
  <2>1. SUFFICES ASSUME ApiIInv, NEW n \in 1..(attempt - 1)
                 PROVE  Api!RetryDelay(None, n) >= Api!RetryDelay(None, n - 1)
    BY DEF Api!BackoffNeverShrinks
  <2>2. n - 1 \in Nat /\ (n - 1) + 1 = n /\ n \in Nat
    BY DEF ApiIInv, Api!TypeOK, ApiAssumptions, Api!BoundsAssumption
  <2>3. Api!RetryDelay(None, n - 1) <= Api!RetryDelay(None, (n - 1) + 1)
    BY <2>2, ApiDelayGrows DEF ApiAssumptions
  <2>4. Api!RetryDelay(None, n) \in Nat /\ Api!RetryDelay(None, n - 1) \in Nat
    BY <2>2, ApiDelayTyped DEF Api!RetryAfters, ApiAssumptions, Api!BoundsAssumption
  <2>5. QED
    BY <2>2, <2>3, <2>4
<1>2. QED
  BY ApiInvariance, <1>1, PTL

-----------------------------------------------------------------------------
(* The local index.  A stamped chunk has the vector of its present text,   *)
(* and a cached report outlives no writer.                                 *)

(* Sizes are those the theorems on finite sets are about.                  *)
LEMMA LocalSizes ==
  ASSUME NEW S
  PROVE  Local!Cardinality(S) = Cardinality(S) /\ (Local!IsFiniteSet(S) <=> IsFiniteSet(S))
BY DEF Local!Cardinality, Cardinality, Local!IsFiniteSet, IsFiniteSet

(* A stamped chunk has the vector of the text it has now.                  *)
LocalStampsAreTrue ==
  \A d \in Docs : stamp[d] # None =>
    text[d] # 0 /\ embedded[d] # None /\ embedded[d].text = text[d]

(* A cached report, and a search that was let through, outlive nothing     *)
(* that changes a text.                                                    *)
LocalReadyStandsStill ==
  /\ cache # None => task = "none" /\ Local!AllCurrent
  /\ answered = "search" => task = "none" /\ Local!AllCurrent

LocalIInv == Local!TypeOK /\ LocalStampsAreTrue /\ LocalReadyStandsStill

LocalAssumptions == Local!BoundsAssumption /\ Local!NoneAssumption

LEMMA LocalCompleteIsCurrent ==
  ASSUME LocalAssumptions, Local!TypeOK, LocalStampsAreTrue, Local!Complete(Local!Report.embedding)
  PROVE  Local!AllCurrent
<1>1. Local!Covered \subseteq Local!Present /\ Local!Present \subseteq Docs /\ IsFiniteSet(Docs)
  BY LocalSizes DEF Local!Covered, Local!Present, LocalAssumptions, Local!BoundsAssumption
<1>2. IsFiniteSet(Local!Present) /\ IsFiniteSet(Local!Covered)
  BY <1>1, FS_Subset
<1>3. Cardinality(Local!Present) > 0 /\ Cardinality(Local!Covered) = Cardinality(Local!Present)
  BY LocalSizes DEF Local!Complete, Local!Report
<1>4. Local!Covered = Local!Present
  BY <1>1, <1>2, <1>3, FS_Subset
<1>5. Local!Present # {}
  BY <1>3, FS_EmptySet
<1>6. \A d \in Local!Present : stamp[d] # None /\ d \in Docs
  BY <1>4, <1>1 DEF Local!Covered
<1>7. QED
  BY <1>5, <1>6 DEF Local!AllCurrent, LocalStampsAreTrue

LEMMA LocalInitKeeps == ASSUME LocalAssumptions, Local!Init PROVE LocalIInv
<1>1. Local!TypeOK
  BY DEF LocalAssumptions, Local!BoundsAssumption, Local!Init, Local!TypeOK
<1>2. QED
  BY <1>1
     DEF LocalIInv, Local!Init, LocalStampsAreTrue, LocalReadyStandsStill, Local!Gates,
         LocalAssumptions, Local!NoneAssumption

(* What stands still when no text, stamp or vector moves.                  *)
LEMMA LocalStillKeeps ==
  ASSUME UNCHANGED <<text, stamp, embedded>>
  PROVE  Local!AllCurrent' = Local!AllCurrent /\ LocalStampsAreTrue' = LocalStampsAreTrue
BY DEF Local!AllCurrent, LocalStampsAreTrue, Local!Present

LEMMA LocalQueryKeeps ==
  ASSUME LocalAssumptions, LocalIInv, NEW gate \in Local!Gates, Local!Query(gate)
  PROVE  LocalIInv'
<1>1. /\ task = "none" /\ UNCHANGED <<text, stamp, embedded, dense, model, task, kills, switches>>
      /\ cache' = cache \/ (cache' = Local!Report /\ Local!Cacheable(Local!Report))
      /\ answered' = gate \/ answered' = None
      /\ answered' = "search" => gate = "search" /\ Local!Passes(gate, Local!Resolved)
  BY DEF Local!Query, Local!Gates, LocalAssumptions, Local!NoneAssumption
<1>2. Local!AllCurrent' = Local!AllCurrent /\ LocalStampsAreTrue' = LocalStampsAreTrue
  BY <1>1, LocalStillKeeps
<1>3. cache' # None => Local!AllCurrent
  BY <1>1, LocalCompleteIsCurrent DEF Local!Cacheable, LocalIInv, LocalReadyStandsStill
<1>4. Local!Passes("search", Local!Resolved) => Local!AllCurrent
  BY LocalCompleteIsCurrent DEF Local!Passes, Local!Resolved, LocalIInv, LocalReadyStandsStill
<1>5. Local!TypeOK'
  <2>1. cache' = None \/ DOMAIN cache' = {"projection", "embedding"}
    BY <1>1 DEF LocalIInv, Local!TypeOK, Local!Report
  <2>2. QED
    BY <1>1, <2>1 DEF LocalIInv, Local!TypeOK
<1>6. QED
  BY <1>1, <1>2, <1>3, <1>4, <1>5 DEF LocalIInv, LocalReadyStandsStill

LEMMA LocalFlushKeeps ==
  ASSUME LocalAssumptions, LocalIInv, NEW d \in Docs, Local!Flush(d)
  PROVE  LocalIInv'
<1>1. /\ task = "ingest" /\ text[d] < MaxTextEdits
      /\ text' = [text EXCEPT ![d] = text[d] + 1] /\ stamp' = [stamp EXCEPT ![d] = None]
      /\ UNCHANGED <<embedded, dense, cache, model, task, answered, kills, switches>>
  BY DEF Local!Flush
<1>2. /\ text \in [Docs -> 0..MaxTextEdits] /\ stamp \in [Docs -> Models \cup {None}]
      /\ MaxTextEdits \in Nat
  BY DEF LocalIInv, Local!TypeOK, LocalAssumptions, Local!BoundsAssumption
<1>3. text' \in [Docs -> 0..MaxTextEdits] /\ stamp' \in [Docs -> Models \cup {None}]
  BY <1>1, <1>2
<1>4. Local!TypeOK'
  BY <1>1, <1>3 DEF LocalIInv, Local!TypeOK
<1>5. LocalStampsAreTrue'
  BY <1>1, <1>2 DEF LocalIInv, LocalStampsAreTrue
<1>6. QED
  BY <1>1, <1>4, <1>5 DEF LocalIInv, LocalReadyStandsStill

LEMMA LocalBackfillKeeps ==
  ASSUME LocalAssumptions, LocalIInv, NEW D \in SUBSET Docs, Local!Backfill(D)
  PROVE  LocalIInv'
<1>1. /\ task = "backfill" /\ task' = "none" /\ D \subseteq Local!Present
      /\ \A d \in D : text[d] < MaxTextEdits
      /\ text' = [d \in Docs |-> IF d \in D THEN text[d] + 1 ELSE text[d]]
      /\ stamp' = [d \in Docs |-> IF d \in D THEN None ELSE stamp[d]]
      /\ embedded' = [d \in Docs |-> IF d \in D THEN None ELSE embedded[d]]
      /\ UNCHANGED <<dense, cache, model, answered, kills, switches>>
  BY DEF Local!Backfill
<1>2. text \in [Docs -> 0..MaxTextEdits] /\ MaxTextEdits \in Nat
  BY DEF LocalIInv, Local!TypeOK, LocalAssumptions, Local!BoundsAssumption
<1>3. text' \in [Docs -> 0..MaxTextEdits]
  BY <1>1, <1>2
<1>4. stamp' \in [Docs -> Models \cup {None}] /\ embedded' \in [Docs -> Local!Vectors \cup {None}]
  BY <1>1 DEF LocalIInv, Local!TypeOK
<1>5. Local!TypeOK'
  BY <1>1, <1>3, <1>4 DEF LocalIInv, Local!TypeOK
<1>6. LocalStampsAreTrue'
  <2>1. SUFFICES ASSUME NEW d \in Docs, stamp'[d] # None
                 PROVE  text'[d] # 0 /\ embedded'[d] # None /\ embedded'[d].text = text'[d]
    BY DEF LocalStampsAreTrue
  <2>2. d \notin D /\ stamp[d] # None /\ text'[d] = text[d] /\ embedded'[d] = embedded[d]
    BY <1>1, <2>1
  <2>3. QED
    BY <2>2 DEF LocalIInv, LocalStampsAreTrue
<1>7. QED
  BY <1>1, <1>5, <1>6 DEF LocalIInv, LocalReadyStandsStill

LEMMA LocalEmbedKeeps ==
  ASSUME LocalAssumptions, LocalIInv, NEW chosen \in SUBSET Docs, Local!Embed(chosen)
  PROVE  LocalIInv'
<1>1. /\ task \in {"embed", "embedding"} /\ task' = "embedding" /\ chosen \subseteq Local!Pending
      /\ stamp' = [d \in Docs |-> IF d \in chosen THEN model ELSE stamp[d]]
      /\ embedded' = [d \in Docs |-> IF d \in chosen THEN [model |-> model, text |-> text[d]] ELSE embedded[d]]
      /\ UNCHANGED <<text, dense, cache, model, answered, kills, switches>>
  BY DEF Local!Embed
<1>2. \A d \in chosen : text[d] # 0 /\ text[d] \in 1..MaxTextEdits
  <2>1. chosen \subseteq Local!Present
    BY <1>1 DEF Local!Pending, Local!Missing
  <2>2. \A d \in chosen : text[d] # 0 /\ text[d] \in 0..MaxTextEdits
    BY <2>1 DEF Local!Present, LocalIInv, Local!TypeOK
  <2>3. QED
    BY <2>2 DEF LocalAssumptions, Local!BoundsAssumption
<1>3. model \in Models /\ model # None
  BY DEF LocalIInv, Local!TypeOK, LocalAssumptions, Local!NoneAssumption
<1>4. \A d \in chosen : /\ [model |-> model, text |-> text[d]] \in Local!Vectors
                       /\ [model |-> model, text |-> text[d]] # None
  BY <1>2, <1>3 DEF Local!Vectors, LocalAssumptions, Local!NoneAssumption
<1>5. stamp' \in [Docs -> Models \cup {None}] /\ embedded' \in [Docs -> Local!Vectors \cup {None}]
  BY <1>1, <1>3, <1>4 DEF LocalIInv, Local!TypeOK
<1>6. Local!TypeOK'
  BY <1>1, <1>5 DEF LocalIInv, Local!TypeOK
<1>7. LocalStampsAreTrue'
  <2>1. SUFFICES ASSUME NEW d \in Docs, stamp'[d] # None
                 PROVE  text[d] # 0 /\ embedded'[d] # None /\ embedded'[d].text = text[d]
    BY <1>1 DEF LocalStampsAreTrue
  <2>2. CASE d \in chosen
    BY <1>1, <1>2, <1>4, <2>2
  <2>3. CASE d \notin chosen
    <3>1. stamp[d] # None /\ embedded'[d] = embedded[d]
      BY <1>1, <2>1, <2>3
    <3>2. QED
      BY <3>1 DEF LocalIInv, LocalStampsAreTrue
  <2>4. QED
    BY <2>2, <2>3
<1>8. QED
  BY <1>1, <1>6, <1>7 DEF LocalIInv, LocalReadyStandsStill

LEMMA LocalFinalizeKeeps ==
  ASSUME LocalAssumptions, LocalIInv, Local!Finalize
  PROVE  LocalIInv'
<1>1. /\ task = "embedding" /\ task' = "none" /\ Local!Pending = {} /\ dense' = model
      /\ stamp' = [d \in Docs |-> IF d \in Local!Present THEN model ELSE stamp[d]]
      /\ UNCHANGED <<text, embedded, cache, model, answered, kills, switches>>
  BY DEF Local!Finalize
<1>2. stamp' \in [Docs -> Models \cup {None}]
  BY <1>1 DEF LocalIInv, Local!TypeOK
<1>3. Local!TypeOK'
  BY <1>1, <1>2 DEF LocalIInv, Local!TypeOK
<1>4. LocalStampsAreTrue'
  <2>1. SUFFICES ASSUME NEW d \in Docs, stamp'[d] # None
                 PROVE  text[d] # 0 /\ embedded[d] # None /\ embedded[d].text = text[d]
    BY <1>1 DEF LocalStampsAreTrue
  <2>2. stamp[d] # None
    BY <1>1, <2>1 DEF Local!Pending, Local!Present
  <2>3. QED
    BY <2>2 DEF LocalIInv, LocalStampsAreTrue
<1>5. QED
  BY <1>1, <1>3, <1>4 DEF LocalIInv, LocalReadyStandsStill

(* The other steps move no text, stamp or vector; a command that starts    *)
(* drops the report.                                                       *)
LEMMA LocalOtherKeeps ==
  ASSUME LocalAssumptions, LocalIInv,
         \/ \E name \in {"ingest", "backfill", "embed"} : Local!Start(name)
         \/ Local!EmbedFails \/ Local!Finish \/ Local!Die
         \/ \E m \in Models : Local!Reconfigure(m)
  PROVE  LocalIInv'
<1>1. UNCHANGED <<text, stamp, embedded, dense>>
  BY DEF Local!Start, Local!EmbedFails, Local!Finish, Local!Die, Local!Reconfigure
<1>2. Local!AllCurrent' = Local!AllCurrent /\ LocalStampsAreTrue' = LocalStampsAreTrue
  BY <1>1, LocalStillKeeps
<1>3. /\ \/ cache' = None /\ answered' = None
         \/ UNCHANGED <<cache, answered>> /\ task' = "none"
      /\ task' \in {"none", "ingest", "backfill", "embed"}
      /\ model' \in Models
  BY DEF Local!Start, Local!EmbedFails, Local!Finish, Local!Die, Local!Reconfigure, LocalIInv,
     Local!TypeOK
<1>4. kills' \in 0..MaxKills /\ switches' \in 0..MaxModels
  <2>1. /\ kills' = kills \/ (kills < MaxKills /\ kills' = kills + 1)
        /\ switches' = switches \/ (switches < MaxModels /\ switches' = switches + 1)
    BY DEF Local!Start, Local!EmbedFails, Local!Finish, Local!Die, Local!Reconfigure
  <2>2. kills \in 0..MaxKills /\ switches \in 0..MaxModels /\ MaxKills \in Nat /\ MaxModels \in Nat
    BY DEF LocalIInv, Local!TypeOK, LocalAssumptions, Local!BoundsAssumption
  <2>3. QED
    BY <2>1, <2>2
<1>5. Local!TypeOK'
  BY <1>1, <1>3, <1>4 DEF LocalIInv, Local!TypeOK
<1>6. LocalReadyStandsStill'
  BY <1>2, <1>3
     DEF LocalIInv, LocalReadyStandsStill, LocalAssumptions, Local!NoneAssumption, Local!Gates
<1>7. QED
  BY <1>2, <1>5, <1>6 DEF LocalIInv

LEMMA LocalNextKeeps ==
  ASSUME LocalAssumptions, LocalIInv, [Local!Next]_(Local!indexVars)
  PROVE  LocalIInv'
<1>1. CASE UNCHANGED Local!indexVars
  <2>1. Local!AllCurrent' = Local!AllCurrent /\ LocalStampsAreTrue' = LocalStampsAreTrue
    BY <1>1, LocalStillKeeps DEF Local!indexVars
  <2>2. QED
    BY <1>1, <2>1 DEF Local!indexVars, LocalIInv, Local!TypeOK, LocalReadyStandsStill
<1>2. QED
  BY <1>1, LocalQueryKeeps, LocalFlushKeeps, LocalBackfillKeeps, LocalEmbedKeeps, LocalFinalizeKeeps,
     LocalOtherKeeps
     DEF Local!Next, Local!CommandStep, Local!EmbedStep

LEMMA LocalInvariance == ASSUME LocalAssumptions PROVE Local!SafetySpec => []LocalIInv
<1>1. Local!Init => LocalIInv
  BY LocalInitKeeps
<1>2. LocalIInv /\ [Local!Next]_(Local!indexVars) => LocalIInv'
  BY LocalNextKeeps
<1>3. QED
  BY <1>1, <1>2, PTL DEF Local!SafetySpec

(* What the variables of a local index may hold.                           *)
LEMMA LocalTypeCorrect == ASSUME LocalAssumptions PROVE Local!SafetySpec => []Local!TypeOK
<1>1. LocalIInv => Local!TypeOK
  BY DEF LocalIInv
<1>2. QED
  BY LocalInvariance, <1>1, PTL

(* A search the gate lets through runs over vectors of the texts the index *)
(* holds, by the cached report or the counted one, whichever commands died *)
(* before it and however often the model was changed.                      *)
THEOREM LocalReadyIsCurrentAlways ==
  ASSUME LocalAssumptions
  PROVE  Local!SafetySpec => Local!ReadyIsCurrent
<1>1. LocalIInv /\ LocalIInv' /\ [Local!Next]_(Local!indexVars) => [answered' = "search" => Local!AllCurrent']_(Local!indexVars)
  BY DEF LocalIInv, LocalReadyStandsStill
<1>2. QED
  BY LocalInvariance, <1>1, PTL DEF Local!SafetySpec, Local!ReadyIsCurrent

-----------------------------------------------------------------------------
(* The suite: a behaviour of the suite is one of each part, for the parts  *)
(* that do not run stand still.                                            *)

LEMMA PartsBegin ==
  ASSUME SuiteInit
  PROVE  Init /\ Pool!Init /\ Zones!Init /\ Cited!Init /\ Api!Init /\ Local!Init
BY DEF SuiteInit

LEMMA PartsMove ==
  ASSUME [SuiteNext]_suiteVars
  PROVE  /\ [Next]_vars /\ [Pool!Next]_(Pool!vars) /\ [Zones!Next]_(Zones!vars)
         /\ [Cited!Next]_(Cited!vars) /\ [Api!Next]_(Api!apiVars)
         /\ [Local!Next]_(Local!indexVars)
<1>1. /\ Next \/ UNCHANGED vars
      /\ Pool!Next \/ UNCHANGED poolVars
      /\ Zones!Next \/ UNCHANGED zoneVars
      /\ Cited!Next \/ UNCHANGED citationVars
      /\ Api!Next \/ UNCHANGED callVars
      /\ Local!Next \/ UNCHANGED localVars
  <2>1. CASE UNCHANGED suiteVars
    BY <2>1 DEF suiteVars
  <2>2. CASE SuiteNext
    BY <2>2 DEF SuiteNext, InUpdate, InPool, InZones, InCitations, InApi, InLocal
  <2>3. QED
    BY <2>1, <2>2
<1>2. UNCHANGED poolVars => UNCHANGED Pool!vars
  BY DEF poolVars, Pool!vars, Pool!poolVars
<1>3. UNCHANGED zoneVars => UNCHANGED Zones!vars
  BY DEF zoneVars, Zones!vars, Zones!passVars, Zones!workVars
<1>4. UNCHANGED citationVars => UNCHANGED Cited!vars
  BY DEF citationVars, Cited!vars
<1>5. UNCHANGED callVars => UNCHANGED Api!apiVars
  BY DEF callVars, Api!apiVars
<1>6. UNCHANGED localVars => UNCHANGED Local!indexVars
  BY DEF localVars, Local!indexVars
<1>7. QED
  BY <1>1, <1>2, <1>3, <1>4, <1>5, <1>6

LEMMA SuiteHasParts ==
  SuiteSpec => /\ Spec /\ Pool!Spec /\ Zones!Spec
               /\ Cited!Spec /\ Api!Spec /\ Local!SafetySpec
<1>1. SuiteInit => Init /\ Pool!Init /\ Zones!Init /\ Cited!Init /\ Api!Init /\ Local!Init
  BY PartsBegin
<1>2. [SuiteNext]_suiteVars =>
        /\ [Next]_vars /\ [Pool!Next]_(Pool!vars) /\ [Zones!Next]_(Zones!vars)
        /\ [Cited!Next]_(Cited!vars) /\ [Api!Next]_(Api!apiVars)
        /\ [Local!Next]_(Local!indexVars)
  BY PartsMove
<1>3. QED
  BY <1>1, <1>2, PTL
     DEF SuiteSpec, Spec, Pool!Spec, Zones!Spec, Cited!Spec, Api!Spec, Local!SafetySpec

LEMMA SuiteAssumptions ==
  /\ Pool!BoundsAssumption /\ ZonesAssumptions /\ CitedAssumptions
  /\ ApiAssumptions /\ LocalAssumptions
BY PoolAssumption, ZonesAssumption, CitedAssumption, ApiAssumption, LocalAssumption
   DEF ZonesAssumptions, CitedAssumptions, ApiAssumptions, LocalAssumptions

(* What the variables of the producer may hold, whichever of its commands  *)
(* run, fail or die: a list of downloads only while a fetch is under way,  *)
(* no more retries than configured, no unit or vector of an unknown text.  *)
THEOREM TypesOKAlways == SuiteSpec => []TypesOK
<1>1. /\ Spec => []TypeOK
      /\ Pool!Spec => []Pool!TypeOK
      /\ Zones!Spec => []Zones!TypeOK
      /\ Cited!Spec => []Cited!TypeOK
      /\ Api!Spec => []Api!TypeOK
      /\ Local!SafetySpec => []Local!TypeOK
  BY SuiteAssumptions, TypeCorrect, PoolTypeCorrect, ZonesTypeCorrect, CitedTypeCorrect,
     ApiTypeCorrect, LocalTypeCorrect
<1>2. QED
  BY <1>1, SuiteHasParts, PTL DEF TypesOK

(* What the producer asks others for and what it keeps of the answers: the *)
(* batches of a page (embed.rs), the zones of a decision (enrich.rs), the  *)
(* articles decisions cite (legislation_citations.rs), the tokens and the  *)
(* delays of the official APIs (official-api), and the vectors a local     *)
(* search runs over (query_readiness.rs).                                  *)
THEOREM WorkIsSoundAlways == SuiteSpec => WorkIsSound
<1>1. /\ Pool!Spec => []Pool!EvenlyOutstanding
      /\ Pool!Spec => Pool!PoolStoresItsPage
      /\ Zones!Spec => []Zones!ZonesAreSound
      /\ Cited!Spec => []Cited!OccurrencesAreResolvable
      /\ Cited!Spec => Cited!AnswersAreKept
      /\ Api!Spec => []Api!FirstAttemptIsAuthorised
      /\ Api!Spec => []Api!BackoffNeverShrinks
      /\ Local!SafetySpec => Local!ReadyIsCurrent
  BY SuiteAssumptions, PoolEvenlyOutstandingAlways, PoolStoresItsPageAlways,
     ZonesAreSoundAlways, CitedOccurrencesAreResolvableAlways, CitedAnswersAreKeptAlways,
     ApiFirstAttemptIsAuthorisedAlways, ApiBackoffNeverShrinksAlways, LocalReadyIsCurrentAlways
<1>2. QED
  BY <1>1, SuiteHasParts, PTL DEF WorkIsSound

(* The mirror and the journal of a source agree, with whatever else the    *)
(* producer does.                                                          *)
THEOREM UpdatesAgree == SuiteSpec => MirrorAndJournalAgree
BY SuiteHasParts, MirrorAndJournalAgreeAlways, PTL
=============================================================================
