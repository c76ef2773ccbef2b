----------------------------- MODULE ClientSuite -----------------------------
(***************************************************************************)
(* A client of the distribution, one part of it per behaviour (variable    *)
(* part): the writers of its replica, the processes that follow the feed,  *)
(* the trust roots, and a walk over the pages of a search.  The parts that *)
(* do not run stay in one initial state.                                   *)
(***************************************************************************)
EXTENDS ClientReplica

CONSTANTS
  Parts,
  Daemons, Updates, Polled, MaxRetained, MaxChain, MaxBurst, SchemaAhead, MaxSeq,
  Quiet, MaxFaults,                                                     \* CatchupFeed
  PackageKeys, LicenseKeys, Materials, SignedPackages, Licenses,
  Bootstraps, MaxEdits, MaxCrashes,                                     \* Trust
  Chunks, DocOf, Contents, Requests, PoolMultiplier, WindowFactor, K,
  LexicalWeight, DenseWeight, Scale, BandPercent, Weight, Source, Marker,
  MaxApplies                                                            \* SearchPages

VARIABLES part,
  catalog, served, position, lease, at, task, manifest, chain, queue, burst, shutdown, faults,
  config, anchors, tokens, clock, planned, raced, verifier, known, applied, edits, crashes,
  contents, active, fingerprint, walk, applies

feedVars == <<catalog, served, position, lease, at, task, manifest, chain, queue, burst,
              shutdown, faults>>
trustVars == <<config, anchors, tokens, clock, planned, raced, verifier, known, applied,
               edits, crashes>>
searchVars == <<contents, active, fingerprint, walk, applies>>
suiteVars == <<vars, feedVars, trustVars, searchVars, part>>

(* The feed and the search are instances of the modules that prove their   *)
(* components' theorems, so that they are theorems about the part.         *)
Feed == INSTANCE CatchupFeed_proofs WITH cursor <- position, pc <- at, job <- task

TrustRoots == INSTANCE Trust WITH Packages <- SignedPackages, Tokens <- Licenses

Search == INSTANCE SearchPages_proofs

ASSUME FeedAssumption ==
  /\ Feed!BoundsAssumption /\ Feed!ProcsAssumption
  /\ Feed!PolledAssumption /\ Feed!NoneAssumption
ASSUME TrustAssumption == TrustRoots!PackagesAssumption /\ TrustRoots!BoundsAssumption
ASSUME SearchAssumption ==
  /\ Search!BoundsAssumption /\ Search!ContentsAssumption
  /\ Search!ScoresAssumption /\ Search!NoneAssumption

SuiteInit ==
  /\ Init /\ Feed!Init /\ TrustRoots!Init /\ Search!Init
  /\ part \in Parts
  /\ part # "trust" => config = [k \in TrustRoots!Keys |-> CHOOSE m \in Materials : TRUE]
  /\ part # "search" =>
       /\ active = Search!Searchable
       /\ \A c \in Search!Searchable : contents[c] = CHOOSE x \in Contents[c] : TRUE

(* The rest of the suite stands still while a part runs.                    *)
InReplica == part = "replica" /\ UNCHANGED <<part, feedVars, trustVars, searchVars>>
InFeed == part = "feed" /\ UNCHANGED <<part, vars, trustVars, searchVars>>
InTrust == part = "trust" /\ UNCHANGED <<part, vars, feedVars, searchVars>>
InSearch == part = "search" /\ UNCHANGED <<part, vars, feedVars, trustVars>>

SuiteNext ==
  \/ InReplica /\ Next
  \/ InFeed /\ Feed!Next
  \/ InTrust /\ TrustRoots!Next
  \/ InSearch /\ Search!Next

SuiteSpec == SuiteInit /\ [][SuiteNext]_suiteVars

-----------------------------------------------------------------------------
(* The safety properties of the parts beside the replica; each is stated,  *)
(* with the code it is about, in the module of the part.                   *)

(* What the variables of every part may hold.                              *)
TypesOK == TypeOK /\ Feed!TypeOK /\ TrustRoots!TypeOK /\ Search!TypeOK

(* Next to a one-shot update, too, the daemons follow the chain of the     *)
(* producer and never run ahead of what it serves.                         *)
UpdatesFollowFeed == Feed!FeedIsFollowed

(* No bootstrap replaces a trust root, a removed one trusts nothing, and   *)
(* what is licensed needs its license when it is applied.                  *)
TrustHolds == TrustRoots!TrustHolds

(* The pages of a search show what stood still once, and never the less    *)
(* relevant first.                                                         *)
PagesAreSound == Search!SteadyRowsShownOnce /\ Search!RelevanceDominates
=============================================================================
