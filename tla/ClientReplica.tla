--------------------------- MODULE ClientReplica ---------------------------
(***************************************************************************)
(* The consumer side of package replication (jurisearch-syncd/apply.rs on  *)
(* jurisearch-storage/generations.rs): several writers (the daemon, a      *)
(* one-shot `apply`) install signed packages into one PostgreSQL database. *)
(*                                                                         *)
(* A media package (baseline, rebaseline) is loaded, step by step and with *)
(* autocommit, into a generation nobody reads, then made live by one       *)
(* transaction.  An incremental is one transaction on the live generation. *)
(* A writer may fail or crash between any two steps: its session ends, its *)
(* locks are freed, an open transaction leaves nothing behind, and what    *)
(* was committed stays.                                                    *)
(***************************************************************************)
EXTENDS Naturals, FiniteSets

CONSTANTS
  Procs,        \* writers: database sessions that apply packages
  Corpora,      \* corpora the site subscribes to
  Generations,  \* generation labels
  CorpusOf,     \* generation label -> the corpus it names (<corpus>_g<NNNN>)
  Docs,         \* documents; a row of a table is known by its document
  Packages,     \* every signed package a writer may be handed
  None          \* no row / no holder / no schema

(* The FK chain of the replicated tables, parents first.                   *)
Tables == {"documents", "chunks", "chunk_embeddings"}

Ancestors(t) == CASE t = "documents" -> {"documents"}
                  [] t = "chunks" -> {"documents", "chunks"}
                  [] t = "chunk_embeddings" -> Tables

Content == [Tables -> SUBSET Docs]
EmptyContent == [t \in Tables |-> {}]

MediaKinds == {"baseline", "rebaseline"}

(* What the signed manifest of a package says.  `upserts` and `deletes`    *)
(* are its payload files, `post` the declared postcondition digests,       *)
(* `compat` the schema version, embedding fingerprint and builder versions.*)
PackageType ==
  [corpus : Corpora, id : STRING, digest : STRING,
   kind : MediaKinds \cup {"incremental"},
   from : Nat, to : Nat \ {0}, prevId : STRING, prevDigest : STRING,
   gen : Generations, baseline : STRING, compat : STRING,
   upserts : Content, deletes : Content, post : Content]

(* A row of jurisearch_control.corpus_state.                               *)
CursorType ==
  [seq : Nat \ {0}, gen : Generations, id : STRING, digest : STRING,
   baseline : STRING, compat : STRING]

(* A physical generation schema.                                           *)
SchemaType == [rows : Content, indexed : BOOLEAN]

(* What a reader can tell of an installed corpus.                          *)
SiteType == [seq : Nat \ {0}, id : STRING, digest : STRING, rows : Content]

ASSUME PackagesAssumption == Packages \subseteq PackageType

ASSUME NoneAssumption ==
  /\ None \notin Procs
  /\ None \notin Generations
  /\ None \notin CursorType
  /\ None \notin SchemaType
  /\ None \notin SiteType
  /\ None \notin Packages

ASSUME LabelAssumption == CorpusOf \in [Generations -> Corpora]

VARIABLES
  corpusState,  \* corpus -> its cursor row, or None
  registry,     \* generation -> "absent", "building", "active", "retired"
  schemas,      \* generation -> its physical tables, or None
  views,        \* corpus -> the generation the stable views select, or None
  stamp,        \* the query_readiness stamp: the signature it was made for
  corpusLock,   \* corpus -> holder of the per-corpus apply lock
  applyLock,    \* holder of the global apply/switch lock
  pc, job,      \* where each writer is, and with which package
  left,         \* tables a loading writer has still to copy
  captured      \* signature read by a restamp before it writes

shared == <<corpusState, registry, schemas, views, stamp>>
locks == <<corpusLock, applyLock>>
local == <<pc, job, left, captured>>
vars == <<corpusState, registry, schemas, views, stamp,
          corpusLock, applyLock, pc, job, left, captured>>

-----------------------------------------------------------------------------
(* Signatures, coverage and the readiness stamp.                           *)

(* active_read_signature: corpus:generation:sequence of every installed    *)
(* corpus.                                                                 *)
Signature(state) ==
  [c \in Corpora |-> IF state[c] = None THEN None
                     ELSE [gen |-> state[c].gen, seq |-> state[c].seq]]

(* Every document has a chunk and every chunk an embedding.                *)
Covered(rows) == /\ rows["documents"] \subseteq rows["chunks"]
                 /\ rows["chunks"] \subseteq rows["chunk_embeddings"]

NonEmpty(rows) == rows["documents"] # {} /\ rows["chunks"] # {}

(* Fault: dense coverage is not looked at.                                 *)
StampAllowed_ProjectionOnly(state, sch, g) ==
  /\ \E c \in Corpora : state[c] # None /\ state[c].gen = g
  /\ \A c \in Corpora : state[c] # None =>
       /\ sch[state[c].gen].rows["documents"] \subseteq
            sch[state[c].gen].rows["chunks"]
       /\ state[c].gen = g => NonEmpty(sch[state[c].gen].rows)

(* stamp_query_readiness refuses unless the generation just applied is     *)
(* live, covered and not empty, and every other live one is covered.       *)
StampAllowed(state, sch, g) ==
  /\ \E c \in Corpora : state[c] # None /\ state[c].gen = g
  /\ \A c \in Corpora : state[c] # None =>
       /\ Covered(sch[state[c].gen].rows)
       /\ state[c].gen = g => NonEmpty(sch[state[c].gen].rows)

-----------------------------------------------------------------------------
(* What the payload files do to a generation.                              *)

(* Deletes cascade to the child tables, then the package's rows go in.     *)
ApplyFiles(rows, k) ==
  [t \in Tables |-> (rows[t] \ UNION {k.deletes[u] : u \in Ancestors(t)})
                      \cup k.upserts[t]]

(* Fault: row counts only, no digest of the rows.                          *)
PostconditionsHold_CountOnly(rows, k) ==
  \A t \in Tables : Cardinality(rows[t]) = Cardinality(k.post[t])

(* Per-table row count and digest equal the declared ones.                 *)
PostconditionsHold(rows, k) == rows = k.post

-----------------------------------------------------------------------------
(* How a package relates to the corpus cursor.                             *)

(* The cursor was left by this very package: id and artifact digest.       *)
SameIdentity(cur, k) == cur.id = k.id /\ cur.digest = k.digest

(* idempotency_decision: nothing to do, the package is installed.          *)
AlreadyInstalled(cur, k) ==
  cur # None /\ cur.seq = k.to /\ SameIdentity(cur, k)

(* idempotency_decision: load the package.  A baseline needs a corpus      *)
(* without a cursor, a rebaseline may supersede a cursor that is behind.   *)
MediaApplicable(cur, k) ==
  cur # None => (k.kind = "rebaseline" /\ cur.seq < k.to)

(* Fault: the switch trusts the decision taken before the long load.       *)
CursorGuard_Trusting(cur, k) == TRUE

(* FirstBaseline / RebaselineForward, re-read inside the switch.           *)
CursorGuard(cur, k) ==
  CASE k.kind = "baseline" -> cur = None
    [] k.kind = "rebaseline" -> (cur # None => cur.seq < k.to)
    [] OTHER -> FALSE

(* Fault: the sequence numbers alone are compared.                         *)
ChainLink_SequenceOnly(cur, k) == cur # None /\ cur.seq = k.from

(* An incremental extends the cursor it was built on: sequence, previous   *)
(* package id and digest, baseline, generation and compatibility stamps.   *)
ChainLink(cur, k) ==
  /\ cur # None
  /\ cur.seq = k.from
  /\ cur.seq < k.to
  /\ cur.id = k.prevId
  /\ cur.digest = k.prevDigest
  /\ cur.baseline = k.baseline
  /\ cur.gen = k.gen
  /\ cur.compat = k.compat

(* Fault: the sequence the package starts from is stored, not its end.     *)
SwitchedCursor_LowSequence(k) ==
  [seq |-> k.from, gen |-> k.gen, id |-> k.id, digest |-> k.digest,
   baseline |-> k.baseline, compat |-> k.compat]

SwitchedCursor(k) ==
  [seq |-> k.to, gen |-> k.gen, id |-> k.id, digest |-> k.digest,
   baseline |-> k.baseline, compat |-> k.compat]

(* Fault: the rows of an incremental are committed without its cursor.     *)
AdvancedCursor_Forgotten(cur, k) == cur

AdvancedCursor(cur, k) ==
  [cur EXCEPT !.seq = k.to, !.id = k.id, !.digest = k.digest]

-----------------------------------------------------------------------------
Init ==
  /\ corpusState = [c \in Corpora |-> None]
  /\ registry = [g \in Generations |-> "absent"]
  /\ schemas = [g \in Generations |-> None]
  /\ views = [c \in Corpora |-> None]
  /\ stamp = None
  /\ corpusLock = [c \in Corpora |-> None]
  /\ applyLock = None
  /\ pc = [p \in Procs |-> "idle"]
  /\ job = [p \in Procs |-> None]
  /\ left = [p \in Procs |-> {}]
  /\ captured = [p \in Procs |-> None]

Goto(p, here, there) == pc[p] = here /\ pc' = [pc EXCEPT ![p] = there]

(* Fault: an early return that skips release_corpus_apply_lock.            *)
Finish_KeepsLock(p) ==
  /\ pc' = [pc EXCEPT ![p] = "idle"]
  /\ job' = [job EXCEPT ![p] = None]
  /\ left' = [left EXCEPT ![p] = {}]
  /\ captured' = [captured EXCEPT ![p] = None]
  /\ applyLock' = IF applyLock = p THEN None ELSE applyLock
  /\ UNCHANGED corpusLock

(* The call returns, with a result or an error, or its session ends: every *)
(* lock it held is free again.                                             *)
Finish(p) ==
  /\ pc' = [pc EXCEPT ![p] = "idle"]
  /\ job' = [job EXCEPT ![p] = None]
  /\ left' = [left EXCEPT ![p] = {}]
  /\ captured' = [captured EXCEPT ![p] = None]
  /\ applyLock' = IF applyLock = p THEN None ELSE applyLock
  /\ corpusLock' = [c \in Corpora |->
                      IF corpusLock[c] = p THEN None ELSE corpusLock[c]]

-----------------------------------------------------------------------------
(* Media packages.                                                         *)

(* A writer is handed a media package; manifest signature, compatibility,  *)
(* entitlement and payload digests are checked before any state is read.   *)
BeginMedia(p, k) ==
  /\ k.kind \in MediaKinds
  /\ Goto(p, "idle", "await_lock")
  /\ job' = [job EXCEPT ![p] = k]
  /\ UNCHANGED <<shared, locks, left, captured>>

(* Fault: the per-corpus lock is taken without waiting for its holder.     *)
AcquireCorpusApplyLock_NoWait(p) ==
  /\ Goto(p, "await_lock", "locked")
  /\ corpusLock' = [corpusLock EXCEPT ![job[p].corpus] = p]
  /\ UNCHANGED <<shared, applyLock, job, left, captured>>

(* acquire_corpus_apply_lock blocks until the lock is free.                *)
AcquireCorpusApplyLock(p) ==
  /\ Goto(p, "await_lock", "locked")
  /\ corpusLock[job[p].corpus] = None
  /\ corpusLock' = [corpusLock EXCEPT ![job[p].corpus] = p]
  /\ UNCHANGED <<shared, applyLock, job, left, captured>>

DecideAlreadyApplied(p) ==
  /\ Goto(p, "locked", "restamp")
  /\ AlreadyInstalled(corpusState[job[p].corpus], job[p])
  /\ UNCHANGED <<shared, locks, job, left, captured>>

(* A manifest whose generation is not a label of its corpus is refused.    *)
DecideApply(p) ==
  /\ Goto(p, "locked", "reset")
  /\ CorpusOf[job[p].gen] = job[p].corpus
  /\ MediaApplicable(corpusState[job[p].corpus], job[p])
  /\ UNCHANGED <<shared, locks, job, left, captured>>

(* Another package is installed at the sequence, or the cursor is ahead,   *)
(* or a baseline meets an installed corpus.                                *)
DecideRefuse(p) ==
  /\ pc[p] = "locked"
  /\ ~AlreadyInstalled(corpusState[job[p].corpus], job[p])
  /\ ~MediaApplicable(corpusState[job[p].corpus], job[p])
  /\ Finish(p)
  /\ UNCHANGED shared

(* restamp_active_readiness, under the per-corpus lock only: the signature *)
(* is read and the coverage gated ...                                      *)
RestampRead(p) ==
  /\ Goto(p, "restamp", "restamp_write")
  /\ corpusState[job[p].corpus] # None
  /\ StampAllowed(corpusState, schemas, corpusState[job[p].corpus].gen)
  /\ captured' = [captured EXCEPT ![p] = Signature(corpusState)]
  /\ UNCHANGED <<shared, locks, job, left>>

(* ... then the stamp row is written; the upsert waits for a transaction   *)
(* that has it written and not yet committed, and then overwrites it.      *)
RestampWrite(p) ==
  /\ pc[p] = "restamp_write"
  /\ stamp' = captured[p]
  /\ Finish(p)
  /\ UNCHANGED <<corpusState, registry, schemas, views>>

(* reset_building_generation, one transaction.                             *)
ResetBuildingGeneration(p) ==
  /\ Goto(p, "reset", "register")
  /\ registry[job[p].gen] \in {"absent", "building"}
  /\ registry' = [registry EXCEPT ![job[p].gen] = "absent"]
  /\ schemas' = [schemas EXCEPT ![job[p].gen] =
                   IF registry[job[p].gen] = "building" THEN None ELSE @]
  /\ UNCHANGED <<corpusState, views, stamp, locks, job, left, captured>>

(* create_generation_load_tables: the registry row first, its primary key  *)
(* refuses a label in use; then one batch creates the schema and tables.   *)
RegisterGeneration(p) ==
  /\ Goto(p, "register", "create")
  /\ registry[job[p].gen] = "absent"
  /\ registry' = [registry EXCEPT ![job[p].gen] = "building"]
  /\ UNCHANGED <<corpusState, schemas, views, stamp, locks, job, left, captured>>

CreateLoadTables(p) ==
  /\ Goto(p, "create", "copy")
  /\ schemas[job[p].gen] = None
  /\ schemas' = [schemas EXCEPT ![job[p].gen] =
                   [rows |-> EmptyContent, indexed |-> FALSE]]
  /\ left' = [left EXCEPT ![p] = Tables]
  /\ UNCHANGED <<corpusState, registry, views, stamp, locks, job, captured>>

(* copy_payload_in, one COPY per table; no foreign key is built yet, so    *)
(* the order of the files is immaterial.                                   *)
CopyTable(p, t) ==
  /\ pc[p] = "copy"
  /\ t \in left[p]
  /\ schemas[job[p].gen] # None
  /\ schemas' = [schemas EXCEPT ![job[p].gen].rows[t] = @ \cup job[p].upserts[t]]
  /\ left' = [left EXCEPT ![p] = @ \ {t}]
  /\ UNCHANGED <<corpusState, registry, views, stamp, locks, pc, job, captured>>

(* build_generation_indexes and validate_index_contract.                   *)
BuildGenerationIndexes(p) ==
  /\ Goto(p, "copy", "validate")
  /\ left[p] = {}
  /\ schemas[job[p].gen] # None
  /\ schemas' = [schemas EXCEPT ![job[p].gen].indexed = TRUE]
  /\ UNCHANGED <<corpusState, registry, views, stamp, locks, job, left, captured>>

ValidatePostconditions(p) ==
  /\ Goto(p, "validate", "switch")
  /\ schemas[job[p].gen] # None
  /\ PostconditionsHold(schemas[job[p].gen].rows, job[p])
  /\ UNCHANGED <<shared, locks, job, left, captured>>

(* activate_generation_inner opens its transaction with the apply lock.    *)
BeginSwitch(p) ==
  /\ Goto(p, "switch", "switching")
  /\ applyLock = None
  /\ applyLock' = p
  /\ UNCHANGED <<shared, corpusLock, job, left, captured>>

(* Fault: only the corpus that is switched keeps its view.                 *)
RebuiltViews_OwnCorpusOnly(state, k) ==
  [c \in Corpora |-> IF c = k.corpus THEN k.gen ELSE None]

(* rebuild_server_views: UNION ALL over the live generations.              *)
RebuiltViews(state, k) ==
  [c \in Corpora |-> IF state[c] = None THEN None ELSE state[c].gen]

(* Fault: the superseded generation is not retired.                        *)
SwitchedRegistry_KeepsOld(k) == [registry EXCEPT ![k.gen] = "active"]

SwitchedRegistry(k) ==
  [g \in Generations |->
     IF g = k.gen THEN "active"
     ELSE IF registry[g] = "active" /\ CorpusOf[g] = k.corpus
     THEN "retired" ELSE registry[g]]

SwitchAllowed(k, newState) ==
  /\ registry[k.gen] = "building"
  /\ CursorGuard(corpusState[k.corpus], k)
  /\ StampAllowed(newState, schemas, k.gen)

(* The switch: target and cursor checked, the old generation retired, the  *)
(* new one active, cursor, views and readiness stamp written, committed as *)
(* one transaction.                                                        *)
CommitSwitch(p) ==
  LET k == job[p]
      newState == [corpusState EXCEPT ![k.corpus] = SwitchedCursor(k)]
  IN /\ pc[p] = "switching"
     /\ SwitchAllowed(k, newState)
     /\ corpusState' = newState
     /\ registry' = SwitchedRegistry(k)
     /\ views' = RebuiltViews(newState, k)
     /\ stamp' = Signature(newState)
     /\ Finish(p)
     /\ UNCHANGED schemas

-----------------------------------------------------------------------------
(* Incremental packages: no per-corpus lock, one transaction.              *)

BeginIncremental(p, k) ==
  /\ k.kind = "incremental"
  /\ Goto(p, "idle", "increment")
  /\ job' = [job EXCEPT ![p] = k]
  /\ UNCHANGED <<shared, locks, left, captured>>

TakeApplyLock(p) ==
  /\ Goto(p, "increment", "incrementing")
  /\ applyLock = None
  /\ applyLock' = p
  /\ UNCHANGED <<shared, corpusLock, job, left, captured>>

IncrementAllowed(k, newState, newSchemas) ==
  /\ ChainLink(corpusState[k.corpus], k)
  /\ schemas[corpusState[k.corpus].gen].indexed
  /\ PostconditionsHold(newSchemas[corpusState[k.corpus].gen].rows, k)
  /\ StampAllowed(newState, newSchemas, corpusState[k.corpus].gen)

(* Rows, postconditions, cursor and stamp in one transaction.              *)
CommitIncremental(p) ==
  LET k == job[p]
      cur == corpusState[k.corpus]
      newState == [corpusState EXCEPT ![k.corpus] = AdvancedCursor(cur, k)]
      newSchemas == [schemas EXCEPT ![cur.gen].rows = ApplyFiles(@, k)]
  IN /\ pc[p] = "incrementing"
     /\ cur # None
     /\ IncrementAllowed(k, newState, newSchemas)
     /\ corpusState' = newState
     /\ schemas' = newSchemas
     /\ stamp' = Signature(newState)
     /\ Finish(p)
     /\ UNCHANGED <<registry, views>>

(* The package is installed already: the stamp is affirmed, under the      *)
(* apply lock, in the same transaction.                                    *)
CommitNothing(p) ==
  LET k == job[p]
  IN /\ pc[p] = "incrementing"
     /\ AlreadyInstalled(corpusState[k.corpus], k)
     /\ StampAllowed(corpusState, schemas, corpusState[k.corpus].gen)
     /\ stamp' = Signature(corpusState)
     /\ Finish(p)
     /\ UNCHANGED <<corpusState, registry, schemas, views>>

-----------------------------------------------------------------------------
(* An error return (a refused check, a busy try-lock, an I/O or database   *)
(* error) or the death of the writer, at any step: an open transaction     *)
(* rolls back, committed steps of a load remain.                           *)
FailOrCrash(p) ==
  /\ pc[p] # "idle"
  /\ Finish(p)
  /\ UNCHANGED shared

(* Fault: the registry row goes, the schema stays.                         *)
DropRetiredGeneration_KeepsSchema(g) ==
  /\ registry[g] = "retired"
  /\ registry' = [registry EXCEPT ![g] = "absent"]
  /\ UNCHANGED <<corpusState, schemas, views, stamp, locks, local>>

(* drop_retired_generation, one transaction.                               *)
DropRetiredGeneration(g) ==
  /\ registry[g] = "retired"
  /\ registry' = [registry EXCEPT ![g] = "absent"]
  /\ schemas' = [schemas EXCEPT ![g] = None]
  /\ UNCHANGED <<corpusState, views, stamp, locks, local>>

MediaStep(p) ==
  \/ DecideAlreadyApplied(p) \/ DecideApply(p) \/ DecideRefuse(p)
  \/ RestampRead(p) \/ RestampWrite(p)
  \/ ResetBuildingGeneration(p) \/ RegisterGeneration(p) \/ CreateLoadTables(p)
  \/ \E t \in Tables : CopyTable(p, t)
  \/ BuildGenerationIndexes(p) \/ ValidatePostconditions(p)
  \/ BeginSwitch(p) \/ CommitSwitch(p)

IncrementalStep(p) ==
  TakeApplyLock(p) \/ CommitIncremental(p) \/ CommitNothing(p)

Next ==
  \/ \E p \in Procs :
       \/ \E k \in Packages : BeginMedia(p, k) \/ BeginIncremental(p, k)
       \/ AcquireCorpusApplyLock(p)
       \/ MediaStep(p)
       \/ IncrementalStep(p)
       \/ FailOrCrash(p)
  \/ \E g \in Generations : DropRetiredGeneration(g)

(* A running call goes on to its next step or fails; PostgreSQL queues the *)
(* waiters of an advisory lock, so a lock released again and again is      *)
(* granted to each of them.                                                *)
Fairness ==
  \A p \in Procs :
    /\ WF_vars(MediaStep(p) \/ IncrementalStep(p)
                 \/ (pc[p] # "await_lock" /\ FailOrCrash(p)))
    /\ SF_vars(AcquireCorpusApplyLock(p))

Spec == Init /\ [][Next]_vars
FairSpec == Spec /\ Fairness

-----------------------------------------------------------------------------
(* Properties.                                                             *)

PcType == {"idle", "await_lock", "locked", "restamp", "restamp_write",
           "reset", "register", "create", "copy", "validate", "switch",
           "switching", "increment", "incrementing"}

SignatureType ==
  [Corpora -> {None} \cup [gen : Generations, seq : Nat \ {0}]]

(* The types of the variables.                                             *)
TypeOK ==
  /\ corpusState \in [Corpora -> {None} \cup CursorType]
  /\ registry \in [Generations -> {"absent", "building", "active", "retired"}]
  /\ schemas \in [Generations -> {None} \cup SchemaType]
  /\ views \in [Corpora -> {None} \cup Generations]
  /\ stamp \in {None} \cup SignatureType
  /\ corpusLock \in [Corpora -> {None} \cup Procs]
  /\ applyLock \in {None} \cup Procs
  /\ pc \in [Procs -> PcType]
  /\ job \in [Procs -> {None} \cup Packages]
  /\ left \in [Procs -> SUBSET Tables]
  /\ captured \in [Procs -> {None} \cup SignatureType]

(* The cursor of a corpus names a package, and the generation it points at *)
(* holds exactly what that package promised, indexed, whoever loaded it,   *)
(* over whatever leftovers, and however many attempts died on the way.     *)
CursorProvesContent ==
  \A c \in Corpora : corpusState[c] # None =>
    \E k \in Packages :
      /\ k.corpus = c
      /\ corpusState[c].seq = k.to
      /\ SameIdentity(corpusState[c], k)
      /\ corpusState[c].gen = k.gen
      /\ schemas[k.gen] # None
      /\ schemas[k.gen].rows = k.post
      /\ schemas[k.gen].indexed

(* One live generation per installed corpus, the one its cursor and the    *)
(* stable views name; none for the others.                                 *)
OneLiveGeneration ==
  \A c \in Corpora :
    LET live == {g \in Generations : CorpusOf[g] = c /\ registry[g] = "active"}
    IN IF corpusState[c] = None
       THEN live = {} /\ views[c] = None
       ELSE live = {corpusState[c].gen} /\ views[c] = corpusState[c].gen

(* A generation that is loaded stays registered as building: no other      *)
(* writer resets, drops or activates it under the loader.                  *)
Loading == {"create", "copy", "validate", "switch", "switching"}

LoadIsUndisturbed ==
  \A p \in Procs : pc[p] \in Loading => registry[job[p].gen] = "building"

(* A label without a registry row has no schema behind it, or the next     *)
(* CREATE SCHEMA of that label would fail for good; a row that readers may *)
(* depend on has one.                                                      *)
RegistryMatchesSchemas ==
  \A g \in Generations :
    /\ registry[g] = "absent" => schemas[g] = None
    /\ registry[g] \in {"active", "retired"} => schemas[g] # None

(* The read gate (load_query_readiness) compares signatures only: when it  *)
(* lets a reader through, every live generation is covered.                *)
GateImpliesReady ==
  (stamp # None /\ stamp = Signature(corpusState)) =>
    \A c \in Corpora : corpusState[c] # None =>
      Covered(schemas[corpusState[c].gen].rows)

(* The cursor of a corpus moves only by a first installation, a rebaseline *)
(* to a higher sequence, or the incremental built on the package it names. *)
CursorMoves ==
  \A c \in Corpora : corpusState'[c] # corpusState[c] =>
    LET old == corpusState[c]  new == corpusState'[c]
    IN /\ new # None
       /\ \E k \in Packages :
            /\ k.corpus = c /\ k.to = new.seq /\ SameIdentity(new, k)
            /\ \/ old = None /\ k.kind \in MediaKinds
               \/ old # None /\ k.kind = "rebaseline" /\ old.seq < k.to
               \/ /\ old # None /\ k.kind = "incremental"
                  /\ old.seq = k.from
                  /\ old.id = k.prevId /\ old.digest = k.prevDigest
                  /\ new.gen = old.gen /\ old.gen = k.gen
                  /\ old.compat = k.compat /\ new.compat = old.compat

CursorMovesByPackage == [][CursorMoves]_vars

(* What readers can see of a corpus changes in the step that moves its     *)
(* cursor and in no other.                                                 *)
LiveRowsFollowCursor ==
  [][\A c \in Corpora :
       (corpusState[c] # None /\ corpusState'[c] = corpusState[c]) =>
          schemas'[corpusState[c].gen] = schemas[corpusState[c].gen]]_vars

(* Every call returns: no lock is left behind for the next one to wait on. *)
EveryCallReturns ==
  \A p \in Procs : pc[p] # "idle" ~> pc[p] = "idle"

(* With no call in flight the stamp is for the topology that is installed: *)
(* the read gate is open.                                                  *)
QuiescentGateOpen ==
  ((\A p \in Procs : pc[p] = "idle") /\ \E c \in Corpora : corpusState[c] # None)
    => stamp = Signature(corpusState)

-----------------------------------------------------------------------------
(* A corpus is what its cursor and its live generation say: the replica    *)
(* implements Replica.                                                     *)
SiteOf(c) ==
  IF corpusState[c] = None THEN None
  ELSE [seq |-> corpusState[c].seq, id |-> corpusState[c].id,
        digest |-> corpusState[c].digest,
        rows |-> schemas[corpusState[c].gen].rows]

R == INSTANCE Replica WITH site <- [c \in Corpora |-> SiteOf(c)]

(* At every step each corpus is one published package, and it moves to     *)
(* another by Install, Supersede or Extend, or stays.                      *)
Refinement == R!Spec
=============================================================================
