-------------------------- MODULE ClientSuite_proofs --------------------------
(***************************************************************************)
(* A client does what it says, for any writers, processes, keys, packages, *)
(* chunks, corpora and requests: the replica and the trust roots here, the *)
(* feed and the search by the theorems of their own modules, and the suite *)
(* because a part that does not run stands still.                          *)
(***************************************************************************)
EXTENDS ClientSuite, SequenceTheorems, TLAPS

(* The steps a media writer takes under the per-corpus lock.               *)
UnderCorpusLock == {"locked", "restamp", "restamp_write", "reset",
                    "register"} \cup Loading

(* A writer that is not idle has a package, of the kind its step is for;   *)
(* beyond the wait it holds the lock of its corpus, and in a switch or an  *)
(* incremental transaction the apply lock.                                 *)
LocksHeld ==
  \A p \in Procs :
    /\ pc[p] # "idle" => job[p] \in Packages
    /\ pc[p] \in UnderCorpusLock => corpusLock[job[p].corpus] = p
    /\ pc[p] \in {"await_lock"} \cup UnderCorpusLock => job[p].kind \in MediaKinds
    /\ pc[p] \in {"increment", "incrementing"} => job[p].kind = "incremental"
    /\ pc[p] \in {"switching", "incrementing"} => applyLock = p

(* What a loading writer has already achieved in its generation.           *)
LoadProgress ==
  \A p \in Procs :
    /\ pc[p] \in {"reset", "register"} \cup Loading =>
         CorpusOf[job[p].gen] = job[p].corpus
    /\ pc[p] = "register" => registry[job[p].gen] = "absent"
    /\ pc[p] \in Loading => registry[job[p].gen] = "building"
    /\ pc[p] \in {"copy", "validate", "switch", "switching"} =>
         schemas[job[p].gen] # None
    /\ pc[p] \in {"validate", "switch", "switching"} => schemas[job[p].gen].indexed
    /\ pc[p] \in {"switch", "switching"} => schemas[job[p].gen].rows = job[p].post

(* The live generations are those the cursors name, in the registry and in *)
(* the views.                                                              *)
LiveByCursor ==
  /\ \A g \in Generations : registry[g] = "active" =>
       corpusState[CorpusOf[g]] # None /\ corpusState[CorpusOf[g]].gen = g
  /\ \A c \in Corpora : corpusState[c] # None =>
       /\ CorpusOf[corpusState[c].gen] = c
       /\ registry[corpusState[c].gen] = "active"
       /\ views[c] = corpusState[c].gen
       /\ Covered(schemas[corpusState[c].gen].rows)
  /\ \A c \in Corpora : corpusState[c] = None => views[c] = None

IInv == /\ TypeOK
        /\ LocksHeld
        /\ LoadProgress
        /\ RegistryMatchesSchemas
        /\ LiveByCursor
        /\ CursorProvesContent

-----------------------------------------------------------------------------
(* Facts about packages, cursors and signatures.                           *)

(* The fields of a package have the types of the signed manifest.          *)
LEMMA PackageFields ==
  ASSUME NEW k \in Packages
  PROVE  /\ k.corpus \in Corpora /\ k.gen \in Generations
         /\ k.to \in Nat \ {0} /\ k.from \in Nat
         /\ k.kind \in MediaKinds \cup {"incremental"}
         /\ k.upserts \in Content /\ k.deletes \in Content /\ k.post \in Content
         /\ SwitchedCursor(k) \in CursorType
         /\ k # None
BY PackagesAssumption, NoneAssumption DEF PackageType, SwitchedCursor, CursorType

(* Advancing a cursor keeps its generation, baseline and compatibility.    *)
LEMMA AdvancedFields ==
  ASSUME NEW k \in Packages, NEW cur \in CursorType
  PROVE  /\ AdvancedCursor(cur, k) \in CursorType
         /\ AdvancedCursor(cur, k).gen = cur.gen
         /\ AdvancedCursor(cur, k).seq = k.to
         /\ AdvancedCursor(cur, k).id = k.id
         /\ AdvancedCursor(cur, k).digest = k.digest
         /\ AdvancedCursor(cur, k).compat = cur.compat
BY PackagesAssumption DEF PackageType, AdvancedCursor, CursorType

(* The signature of a typed topology is a typed signature.                 *)
LEMMA SignatureTyped ==
  ASSUME NEW state \in [Corpora -> {None} \cup CursorType]
  PROVE  Signature(state) \in SignatureType
BY NoneAssumption DEF Signature, SignatureType, CursorType

(* The payload of an incremental yields content.                           *)
LEMMA ApplyFilesTyped ==
  ASSUME NEW rows \in Content, NEW k \in Packages
  PROVE  ApplyFiles(rows, k) \in Content
<1>1. ASSUME NEW t \in Tables
      PROVE  (rows[t] \ UNION {k.deletes[u] : u \in Ancestors(t)})
                \cup k.upserts[t] \in SUBSET Docs
  BY PackageFields DEF Content
<1> QED BY <1>1 DEF ApplyFiles, Content

-----------------------------------------------------------------------------
(* The lock discipline.                                                    *)

(* Two writers that load the same label are one: a label names one corpus, *)
(* and the loader holds the lock of that corpus.                           *)
LEMMA OneLoader ==
  ASSUME IInv, NEW p \in Procs, NEW q \in Procs,
         pc[p] \in {"reset", "register"} \cup Loading,
         pc[q] \in {"reset", "register"} \cup Loading,
         job[p].gen = job[q].gen
  PROVE  p = q
BY DEF IInv, LocksHeld, LoadProgress, UnderCorpusLock, Loading

(* Returning keeps the types of locks and local state.                     *)
LEMMA FinishTyped ==
  ASSUME TypeOK, NEW p \in Procs, Finish(p)
  PROVE  /\ corpusLock' \in [Corpora -> {None} \cup Procs]
         /\ applyLock' \in {None} \cup Procs
         /\ pc' \in [Procs -> PcType]
         /\ job' \in [Procs -> {None} \cup Packages]
         /\ left' \in [Procs -> SUBSET Tables]
         /\ captured' \in [Procs -> {None} \cup SignatureType]
BY DEF TypeOK, Finish, PcType

(* Returning frees the locks of the writer and of nobody else.             *)
LEMMA FinishLocks ==
  ASSUME TypeOK, LocksHeld, NEW p \in Procs, Finish(p)
  PROVE  /\ LocksHeld'
         /\ pc'[p] = "idle"
         /\ \A q \in Procs \ {p} : pc'[q] = pc[q] /\ job'[q] = job[q]
<1>1. pc'[p] = "idle"
  BY DEF TypeOK, Finish
<1>2. \A q \in Procs \ {p} : pc'[q] = pc[q] /\ job'[q] = job[q]
  BY DEF TypeOK, Finish
<1>3. ASSUME NEW q \in Procs PROVE LocksHeld!(q)'
  <2>1. CASE q = p
    BY <2>1, <1>1 DEF UnderCorpusLock, Loading
  <2>2. CASE q # p
    <3>1. pc'[q] = pc[q] /\ job'[q] = job[q]
      BY <1>2, <2>2
    <3>2. ASSUME pc[q] \in UnderCorpusLock
          PROVE  corpusLock'[job[q].corpus] = q
      <4>1. corpusLock[job[q].corpus] = q /\ job[q].corpus \in Corpora
        BY <3>2, PackageFields DEF LocksHeld, UnderCorpusLock, Loading
      <4> QED BY <4>1, <2>2 DEF Finish
    <3>3. applyLock = q => applyLock' = q
      BY <2>2 DEF Finish
    <3> QED BY <3>1, <3>2, <3>3 DEF LocksHeld
  <2> QED BY <2>1, <2>2
<1> QED BY <1>1, <1>2, <1>3 DEF LocksHeld

-----------------------------------------------------------------------------
(* The steps that touch nothing but locks and the writer's own state.      *)

(* What the cursors, registry, schemas and views satisfy survives a step   *)
(* that leaves the four alone.                                             *)
LEMMA SharedUntouched ==
  ASSUME IInv, UNCHANGED <<corpusState, registry, schemas, views>>,
         TypeOK', LocksHeld', LoadProgress'
  PROVE  IInv'
BY DEF IInv, RegistryMatchesSchemas, LiveByCursor, CursorProvesContent

(* A writer that returns leaves the others' progress as it was.            *)
LEMMA FinishProgress ==
  ASSUME IInv, NEW p \in Procs, Finish(p), UNCHANGED <<registry, schemas>>
  PROVE  LoadProgress'
<1>1. pc'[p] = "idle" /\ \A q \in Procs \ {p} : pc'[q] = pc[q] /\ job'[q] = job[q]
  BY FinishLocks DEF IInv
<1> QED BY <1>1 DEF IInv, LoadProgress, Loading

LEMMA FailOrCrashKeeps ==
  ASSUME IInv, NEW p \in Procs, FailOrCrash(p)
  PROVE  IInv'
<1>1. TypeOK'
  BY FinishTyped DEF FailOrCrash, IInv, TypeOK, shared
<1>2. LocksHeld' /\ LoadProgress'
  BY FinishLocks, FinishProgress DEF FailOrCrash, IInv, shared
<1> QED BY <1>1, <1>2, SharedUntouched DEF FailOrCrash, shared

LEMMA DecideRefuseKeeps ==
  ASSUME IInv, NEW p \in Procs, DecideRefuse(p)
  PROVE  IInv'
<1>1. TypeOK'
  BY FinishTyped DEF DecideRefuse, IInv, TypeOK, shared
<1>2. LocksHeld' /\ LoadProgress'
  BY FinishLocks, FinishProgress DEF DecideRefuse, IInv, shared
<1> QED BY <1>1, <1>2, SharedUntouched DEF DecideRefuse, shared

LEMMA RestampWriteKeeps ==
  ASSUME IInv, NEW p \in Procs, RestampWrite(p)
  PROVE  IInv'
<1>1. TypeOK'
  BY FinishTyped DEF RestampWrite, IInv, TypeOK
<1>2. LocksHeld' /\ LoadProgress'
  BY FinishLocks, FinishProgress DEF RestampWrite, IInv
<1> QED BY <1>1, <1>2, SharedUntouched DEF RestampWrite

LEMMA CommitNothingKeeps ==
  ASSUME IInv, NEW p \in Procs, CommitNothing(p)
  PROVE  IInv'
<1>1. TypeOK'
  BY FinishTyped, SignatureTyped DEF CommitNothing, IInv, TypeOK
<1>2. LocksHeld' /\ LoadProgress'
  BY FinishLocks, FinishProgress DEF CommitNothing, IInv
<1> QED BY <1>1, <1>2, SharedUntouched DEF CommitNothing

LEMMA BeginKeeps ==
  ASSUME IInv, NEW p \in Procs, NEW k \in Packages,
         BeginMedia(p, k) \/ BeginIncremental(p, k)
  PROVE  IInv'
<1> USE DEF BeginMedia, BeginIncremental, Goto, shared, locks
<1>1. TypeOK'
  BY DEF IInv, TypeOK, PcType
<1>2. LocksHeld'
  BY DEF IInv, TypeOK, LocksHeld, UnderCorpusLock, Loading
<1>3. LoadProgress'
  BY DEF IInv, TypeOK, LoadProgress, Loading
<1> QED BY <1>1, <1>2, <1>3, SharedUntouched

LEMMA AcquireKeeps ==
  ASSUME IInv, NEW p \in Procs, AcquireCorpusApplyLock(p)
  PROVE  IInv'
<1> USE DEF AcquireCorpusApplyLock, Goto, shared
<1>0. job[p].corpus \in Corpora
  BY PackageFields DEF IInv, LocksHeld
<1>1. TypeOK'
  BY <1>0 DEF IInv, TypeOK, PcType
<1>2. LocksHeld'
  BY <1>0, NoneAssumption DEF IInv, TypeOK, LocksHeld, UnderCorpusLock, Loading
<1>3. LoadProgress'
  BY DEF IInv, TypeOK, LoadProgress, Loading
<1> QED BY <1>1, <1>2, <1>3, SharedUntouched

LEMMA TryLockKeeps ==
  ASSUME IInv, NEW p \in Procs, BeginSwitch(p) \/ TakeApplyLock(p)
  PROVE  IInv'
<1> USE DEF BeginSwitch, TakeApplyLock, Goto, shared
<1>1. TypeOK'
  BY DEF IInv, TypeOK, PcType
<1>2. LocksHeld'
  BY NoneAssumption DEF IInv, TypeOK, LocksHeld, UnderCorpusLock, Loading
<1>3. LoadProgress'
  BY DEF IInv, TypeOK, LoadProgress, Loading
<1> QED BY <1>1, <1>2, <1>3, SharedUntouched

LEMMA DecideKeeps ==
  ASSUME IInv, NEW p \in Procs,
         DecideAlreadyApplied(p) \/ DecideApply(p) \/ RestampRead(p)
  PROVE  IInv'
<1> USE DEF DecideAlreadyApplied, DecideApply, RestampRead, Goto, shared, locks
<1>1. TypeOK'
  BY SignatureTyped DEF IInv, TypeOK, PcType
<1>2. LocksHeld'
  BY DEF IInv, TypeOK, LocksHeld, UnderCorpusLock, Loading
<1>3. LoadProgress'
  BY DEF IInv, TypeOK, LoadProgress, Loading
<1> QED BY <1>1, <1>2, <1>3, SharedUntouched

LEMMA ValidateKeeps ==
  ASSUME IInv, NEW p \in Procs, ValidatePostconditions(p)
  PROVE  IInv'
<1> USE DEF ValidatePostconditions, PostconditionsHold, Goto, shared, locks
<1>1. TypeOK'
  BY DEF IInv, TypeOK, PcType
<1>2. LocksHeld'
  BY DEF IInv, TypeOK, LocksHeld, UnderCorpusLock, Loading
<1>3. LoadProgress'
  BY DEF IInv, TypeOK, LoadProgress, Loading
<1> QED BY <1>1, <1>2, <1>3, SharedUntouched

-----------------------------------------------------------------------------
(* The steps of a load: they touch one label, which is not live and which  *)
(* no other writer loads.                                                  *)

(* The cursors' half of the invariant survives any step that leaves the    *)
(* cursors, the views and every live generation alone.                     *)
LEMMA LiveUntouched ==
  ASSUME IInv, UNCHANGED <<corpusState, views>>, TypeOK',
         \A g \in Generations : registry'[g] = "active" <=> registry[g] = "active",
         \A g \in Generations : registry[g] = "active" => schemas'[g] = schemas[g]
  PROVE  LiveByCursor' /\ CursorProvesContent'
<1>1. ASSUME NEW c \in Corpora, corpusState[c] # None
      PROVE  /\ corpusState[c].gen \in Generations
             /\ registry[corpusState[c].gen] = "active"
             /\ schemas'[corpusState[c].gen] = schemas[corpusState[c].gen]
  BY <1>1 DEF IInv, TypeOK, CursorType, LiveByCursor
<1>2. LiveByCursor'
  BY <1>1 DEF IInv, LiveByCursor
<1>3. CursorProvesContent'
  BY <1>1 DEF IInv, CursorProvesContent
<1> QED BY <1>2, <1>3

LEMMA ResetKeeps ==
  ASSUME IInv, NEW p \in Procs, ResetBuildingGeneration(p)
  PROVE  IInv'
<1> USE DEF ResetBuildingGeneration, Goto, locks
<1>0. job[p] \in Packages /\ job[p].gen \in Generations
  BY PackageFields DEF IInv, LocksHeld
<1>1. TypeOK'
  BY <1>0, PackageFields DEF IInv, TypeOK, PcType, SchemaType, Content, EmptyContent
<1>2. LocksHeld'
  BY DEF IInv, TypeOK, LocksHeld, UnderCorpusLock, Loading
<1>3. registry[job[p].gen] \in {"absent", "building"}
  BY DEF IInv, LoadProgress, Loading
<1>4. \A g \in Generations \ {job[p].gen} :
        registry'[g] = registry[g] /\ schemas'[g] = schemas[g]
  BY <1>0 DEF IInv, TypeOK
<1>5. LoadProgress'
  <2>1. ASSUME NEW q \in Procs, q # p
        PROVE  LoadProgress!(q)'
    <3>1. pc'[q] = pc[q] /\ job'[q] = job[q]
      BY <2>1 DEF IInv, TypeOK
    <3>2. CASE pc[q] \in {"reset", "register"} \cup Loading
      <4>1. job[q].gen # job[p].gen
        BY <2>1, <3>2, OneLoader DEF Loading
      <4>2. job[q].gen \in Generations
        BY <3>2, PackageFields DEF IInv, LocksHeld, Loading
      <4> QED BY <1>4, <3>1, <4>1, <4>2 DEF IInv, LoadProgress
    <3>3. CASE pc[q] \notin {"reset", "register"} \cup Loading
      BY <3>1, <3>3 DEF Loading
    <3> QED BY <3>2, <3>3
  <2>2. LoadProgress!(p)'
    BY <1>0, <1>3 DEF IInv, TypeOK, LoadProgress, Loading
  <2> QED BY <2>1, <2>2 DEF LoadProgress
<1>6. RegistryMatchesSchemas'
  BY <1>0, <1>3, <1>4, NoneAssumption DEF IInv, TypeOK, RegistryMatchesSchemas, LoadProgress,
     Loading
<1>7. LiveByCursor' /\ CursorProvesContent'
  BY <1>0, <1>1, <1>3, <1>4, LiveUntouched DEF IInv, TypeOK
<1> QED BY <1>1, <1>2, <1>5, <1>6, <1>7 DEF IInv

LEMMA RegisterKeeps ==
  ASSUME IInv, NEW p \in Procs, RegisterGeneration(p)
  PROVE  IInv'
<1> USE DEF RegisterGeneration, Goto, locks
<1>0. job[p] \in Packages /\ job[p].gen \in Generations
  BY PackageFields DEF IInv, LocksHeld
<1>1. TypeOK'
  BY <1>0, PackageFields DEF IInv, TypeOK, PcType, SchemaType, Content, EmptyContent
<1>2. LocksHeld'
  BY DEF IInv, TypeOK, LocksHeld, UnderCorpusLock, Loading
<1>3. registry[job[p].gen] \in {"absent", "building"}
  BY DEF IInv, LoadProgress, Loading
<1>4. \A g \in Generations \ {job[p].gen} :
        registry'[g] = registry[g] /\ schemas'[g] = schemas[g]
  BY <1>0 DEF IInv, TypeOK
<1>5. LoadProgress'
  <2>1. ASSUME NEW q \in Procs, q # p
        PROVE  LoadProgress!(q)'
    <3>1. pc'[q] = pc[q] /\ job'[q] = job[q]
      BY <2>1 DEF IInv, TypeOK
    <3>2. CASE pc[q] \in {"reset", "register"} \cup Loading
      <4>1. job[q].gen # job[p].gen
        BY <2>1, <3>2, OneLoader DEF Loading
      <4>2. job[q].gen \in Generations
        BY <3>2, PackageFields DEF IInv, LocksHeld, Loading
      <4> QED BY <1>4, <3>1, <4>1, <4>2 DEF IInv, LoadProgress
    <3>3. CASE pc[q] \notin {"reset", "register"} \cup Loading
      BY <3>1, <3>3 DEF Loading
    <3> QED BY <3>2, <3>3
  <2>2. LoadProgress!(p)'
    BY <1>0, <1>3 DEF IInv, TypeOK, LoadProgress, Loading
  <2> QED BY <2>1, <2>2 DEF LoadProgress
<1>6. RegistryMatchesSchemas'
  BY <1>0, <1>3, <1>4, NoneAssumption DEF IInv, TypeOK, RegistryMatchesSchemas, LoadProgress,
     Loading
<1>7. LiveByCursor' /\ CursorProvesContent'
  BY <1>0, <1>1, <1>3, <1>4, LiveUntouched DEF IInv, TypeOK
<1> QED BY <1>1, <1>2, <1>5, <1>6, <1>7 DEF IInv

LEMMA CreateKeeps ==
  ASSUME IInv, NEW p \in Procs, CreateLoadTables(p)
  PROVE  IInv'
<1> USE DEF CreateLoadTables, Goto, locks
<1>0. job[p] \in Packages /\ job[p].gen \in Generations
  BY PackageFields DEF IInv, LocksHeld
<1>1. TypeOK'
  BY <1>0, PackageFields DEF IInv, TypeOK, PcType, SchemaType, Content, EmptyContent
<1>2. LocksHeld'
  BY DEF IInv, TypeOK, LocksHeld, UnderCorpusLock, Loading
<1>3. registry[job[p].gen] \in {"absent", "building"}
  BY DEF IInv, LoadProgress, Loading
<1>4. \A g \in Generations \ {job[p].gen} :
        registry'[g] = registry[g] /\ schemas'[g] = schemas[g]
  BY <1>0 DEF IInv, TypeOK
<1>5. LoadProgress'
  <2>1. ASSUME NEW q \in Procs, q # p
        PROVE  LoadProgress!(q)'
    <3>1. pc'[q] = pc[q] /\ job'[q] = job[q]
      BY <2>1 DEF IInv, TypeOK
    <3>2. CASE pc[q] \in {"reset", "register"} \cup Loading
      <4>1. job[q].gen # job[p].gen
        BY <2>1, <3>2, OneLoader DEF Loading
      <4>2. job[q].gen \in Generations
        BY <3>2, PackageFields DEF IInv, LocksHeld, Loading
      <4> QED BY <1>4, <3>1, <4>1, <4>2 DEF IInv, LoadProgress
    <3>3. CASE pc[q] \notin {"reset", "register"} \cup Loading
      BY <3>1, <3>3 DEF Loading
    <3> QED BY <3>2, <3>3
  <2>2. schemas'[job[p].gen] \in SchemaType
    BY <1>0, PackageFields DEF IInv, TypeOK, SchemaType, Content, EmptyContent
  <2>3. schemas'[job[p].gen] # None
    BY <2>2, NoneAssumption
  <2>4. LoadProgress!(p)'
    BY <1>0, <1>3, <2>3 DEF IInv, TypeOK, LoadProgress, Loading, SchemaType
  <2> QED BY <2>1, <2>4 DEF LoadProgress
<1>6. RegistryMatchesSchemas'
  BY <1>0, <1>3, <1>4, NoneAssumption DEF IInv, TypeOK, RegistryMatchesSchemas, LoadProgress,
     Loading
<1>7. LiveByCursor' /\ CursorProvesContent'
  BY <1>0, <1>1, <1>3, <1>4, LiveUntouched DEF IInv, TypeOK
<1> QED BY <1>1, <1>2, <1>5, <1>6, <1>7 DEF IInv

LEMMA CopyKeeps ==
  ASSUME IInv, NEW p \in Procs, NEW t \in Tables, CopyTable(p, t)
  PROVE  IInv'
<1> USE DEF CopyTable, Goto, locks
<1>0. job[p] \in Packages /\ job[p].gen \in Generations
  BY PackageFields DEF IInv, LocksHeld
<1>8. /\ schemas'[job[p].gen] \in SchemaType
      /\ schemas' \in [Generations -> {None} \cup SchemaType]
  <2> DEFINE s == schemas[job[p].gen]
             loaded == [s EXCEPT !.rows[t] = @ \cup job[p].upserts[t]]
  <2>1. s \in SchemaType
    BY <1>0 DEF IInv, TypeOK
  <2>2. [s.rows EXCEPT ![t] = @ \cup job[p].upserts[t]] \in Content
    BY <1>0, <2>1, PackageFields DEF SchemaType, Content
  <2>3. loaded \in SchemaType
    BY <2>1, <2>2 DEF SchemaType
  <2>4. schemas' = [schemas EXCEPT ![job[p].gen] = loaded]
    BY <1>0 DEF IInv, TypeOK
  <2> HIDE DEF CopyTable, loaded
  <2> QED BY <1>0, <2>3, <2>4 DEF IInv, TypeOK
<1>1. TypeOK'
  BY <1>8 DEF IInv, TypeOK, PcType
<1>2. LocksHeld'
  BY DEF IInv, TypeOK, LocksHeld, UnderCorpusLock, Loading
<1>3. registry[job[p].gen] \in {"absent", "building"}
  BY DEF IInv, LoadProgress, Loading
<1>4. \A g \in Generations \ {job[p].gen} :
        registry'[g] = registry[g] /\ schemas'[g] = schemas[g]
  BY <1>0 DEF IInv, TypeOK
<1>5. LoadProgress'
  <2>1. ASSUME NEW q \in Procs, q # p
        PROVE  LoadProgress!(q)'
    <3>1. pc'[q] = pc[q] /\ job'[q] = job[q]
      BY <2>1 DEF IInv, TypeOK
    <3>2. CASE pc[q] \in {"reset", "register"} \cup Loading
      <4>1. job[q].gen # job[p].gen
        BY <2>1, <3>2, OneLoader DEF Loading
      <4>2. job[q].gen \in Generations
        BY <3>2, PackageFields DEF IInv, LocksHeld, Loading
      <4> QED BY <1>4, <3>1, <4>1, <4>2 DEF IInv, LoadProgress
    <3>3. CASE pc[q] \notin {"reset", "register"} \cup Loading
      BY <3>1, <3>3 DEF Loading
    <3> QED BY <3>2, <3>3
  <2>2. schemas'[job[p].gen] \in SchemaType
    BY <1>8
  <2>3. schemas'[job[p].gen] # None
    BY <2>2, NoneAssumption
  <2>4. LoadProgress!(p)'
    BY <1>0, <1>3, <2>3 DEF IInv, TypeOK, LoadProgress, Loading, SchemaType
  <2> QED BY <2>1, <2>4 DEF LoadProgress
<1>6. RegistryMatchesSchemas'
  BY <1>0, <1>3, <1>4, NoneAssumption DEF IInv, TypeOK, RegistryMatchesSchemas, LoadProgress,
     Loading
<1>7. LiveByCursor' /\ CursorProvesContent'
  BY <1>0, <1>1, <1>3, <1>4, LiveUntouched DEF IInv, TypeOK
<1> QED BY <1>1, <1>2, <1>5, <1>6, <1>7 DEF IInv

LEMMA BuildIndexesKeeps ==
  ASSUME IInv, NEW p \in Procs, BuildGenerationIndexes(p)
  PROVE  IInv'
<1> USE DEF BuildGenerationIndexes, Goto, locks
<1>0. job[p] \in Packages /\ job[p].gen \in Generations
  BY PackageFields DEF IInv, LocksHeld
<1>8. /\ schemas'[job[p].gen] \in SchemaType
      /\ schemas' \in [Generations -> {None} \cup SchemaType]
  <2>1. schemas[job[p].gen] \in SchemaType
    BY <1>0 DEF IInv, TypeOK
  <2>2. [schemas[job[p].gen] EXCEPT !.indexed = TRUE] \in SchemaType
    BY <2>1 DEF SchemaType
  <2> QED BY <1>0, <2>2 DEF IInv, TypeOK
<1>1. TypeOK'
  BY <1>8 DEF IInv, TypeOK, PcType
<1>2. LocksHeld'
  BY DEF IInv, TypeOK, LocksHeld, UnderCorpusLock, Loading
<1>3. registry[job[p].gen] \in {"absent", "building"}
  BY DEF IInv, LoadProgress, Loading
<1>4. \A g \in Generations \ {job[p].gen} :
        registry'[g] = registry[g] /\ schemas'[g] = schemas[g]
  BY <1>0 DEF IInv, TypeOK
<1>5. LoadProgress'
  <2>1. ASSUME NEW q \in Procs, q # p
        PROVE  LoadProgress!(q)'
    <3>1. pc'[q] = pc[q] /\ job'[q] = job[q]
      BY <2>1 DEF IInv, TypeOK
    <3>2. CASE pc[q] \in {"reset", "register"} \cup Loading
      <4>1. job[q].gen # job[p].gen
        BY <2>1, <3>2, OneLoader DEF Loading
      <4>2. job[q].gen \in Generations
        BY <3>2, PackageFields DEF IInv, LocksHeld, Loading
      <4> QED BY <1>4, <3>1, <4>1, <4>2 DEF IInv, LoadProgress
    <3>3. CASE pc[q] \notin {"reset", "register"} \cup Loading
      BY <3>1, <3>3 DEF Loading
    <3> QED BY <3>2, <3>3
  <2>2. schemas'[job[p].gen] \in SchemaType
    BY <1>0, PackageFields DEF IInv, TypeOK, SchemaType, Content, EmptyContent
  <2>3. schemas'[job[p].gen] # None
    BY <2>2, NoneAssumption
  <2>4. LoadProgress!(p)'
    BY <1>0, <1>3, <2>3 DEF IInv, TypeOK, LoadProgress, Loading, SchemaType
  <2> QED BY <2>1, <2>4 DEF LoadProgress
<1>6. RegistryMatchesSchemas'
  BY <1>0, <1>3, <1>4, NoneAssumption DEF IInv, TypeOK, RegistryMatchesSchemas, LoadProgress,
     Loading
<1>7. LiveByCursor' /\ CursorProvesContent'
  BY <1>0, <1>1, <1>3, <1>4, LiveUntouched DEF IInv, TypeOK
<1> QED BY <1>1, <1>2, <1>5, <1>6, <1>7 DEF IInv

-----------------------------------------------------------------------------
(* The steps that change what readers see.                                 *)

LEMMA DropKeeps ==
  ASSUME IInv, NEW g \in Generations, DropRetiredGeneration(g)
  PROVE  IInv'
<1> USE DEF DropRetiredGeneration, locks, local
<1>1. TypeOK'
  BY DEF IInv, TypeOK
<1>2. LocksHeld'
  BY DEF IInv, LocksHeld
<1>3. LoadProgress'
  <2>1. ASSUME NEW q \in Procs, pc[q] \in {"reset", "register"} \cup Loading
        PROVE  job[q] \in Packages /\ job[q].gen \in Generations
    BY <2>1, PackageFields DEF IInv, LocksHeld, Loading
  <2> QED BY <2>1 DEF IInv, TypeOK, LoadProgress, Loading
<1>4. RegistryMatchesSchemas'
  BY DEF IInv, TypeOK, RegistryMatchesSchemas
<1>5. LiveByCursor' /\ CursorProvesContent'
  BY <1>1, LiveUntouched DEF IInv, TypeOK
<1> QED BY <1>1, <1>2, <1>3, <1>4, <1>5 DEF IInv

LEMMA CommitSwitchKeeps ==
  ASSUME IInv, NEW p \in Procs, CommitSwitch(p)
  PROVE  IInv'
<1> DEFINE k == job[p]
           new == [corpusState EXCEPT ![k.corpus] = SwitchedCursor(k)]
<1>0. /\ k \in Packages /\ k.corpus \in Corpora /\ k.gen \in Generations
      /\ SwitchedCursor(k) \in CursorType /\ SwitchedCursor(k) # None
  BY PackageFields, NoneAssumption DEF IInv, LocksHeld, CommitSwitch
<1>1. /\ pc[p] = "switching" /\ SwitchAllowed(k, new)
      /\ corpusState' = new /\ registry' = SwitchedRegistry(k)
      /\ views' = RebuiltViews(new, k) /\ stamp' = Signature(new)
      /\ Finish(p) /\ schemas' = schemas
  BY DEF CommitSwitch
<1>2. /\ CorpusOf[k.gen] = k.corpus /\ registry[k.gen] = "building"
      /\ schemas[k.gen] # None /\ schemas[k.gen].indexed
      /\ schemas[k.gen].rows = k.post
  BY <1>1 DEF IInv, LoadProgress, Loading
<1>3. new \in [Corpora -> {None} \cup CursorType]
  BY <1>0 DEF IInv, TypeOK
<1>4. /\ new[k.corpus] = SwitchedCursor(k)
      /\ \A c \in Corpora \ {k.corpus} : new[c] = corpusState[c]
  BY <1>0 DEF IInv, TypeOK
<1>5. TypeOK'
  <2>1. registry' \in [Generations -> {"absent", "building", "active", "retired"}]
    BY <1>0, <1>1 DEF IInv, TypeOK, SwitchedRegistry
  <2>2. views' \in [Corpora -> {None} \cup Generations]
    BY <1>1, <1>3 DEF RebuiltViews, CursorType
  <2> QED BY <1>1, <1>3, <2>1, <2>2, SignatureTyped, FinishTyped DEF IInv, TypeOK
<1>6. LocksHeld'
  BY <1>1, FinishLocks DEF IInv
<1>7. \A g \in Generations : registry[g] \in {"absent", "building"} /\ g # k.gen
                               => registry'[g] = registry[g]
  BY <1>1 DEF SwitchedRegistry
<1>8. LoadProgress'
  <2>1. pc'[p] = "idle" /\ \A q \in Procs \ {p} : pc'[q] = pc[q] /\ job'[q] = job[q]
    BY <1>1, FinishLocks DEF IInv
  <2>2. ASSUME NEW q \in Procs, q # p, pc[q] \in {"reset", "register"} \cup Loading
        PROVE  job[q].gen # k.gen /\ job[q].gen \in Generations
    BY <2>2, <1>1, OneLoader, PackageFields DEF IInv, LocksHeld, Loading
  <2>3. ASSUME NEW q \in Procs PROVE LoadProgress!(q)'
    <3>1. CASE q = p
      BY <3>1, <2>1 DEF Loading
    <3>2. CASE q # p /\ pc[q] \in {"reset", "register"} \cup Loading
      BY <3>2, <2>1, <2>2, <1>1, <1>7 DEF IInv, LoadProgress, Loading
    <3>3. CASE q # p /\ pc[q] \notin {"reset", "register"} \cup Loading
      BY <3>3, <2>1 DEF Loading
    <3> QED BY <3>1, <3>2, <3>3
  <2> QED BY <2>3 DEF LoadProgress
<1>9. RegistryMatchesSchemas'
  BY <1>0, <1>1, <1>2 DEF IInv, RegistryMatchesSchemas, SwitchedRegistry
<1>10. ASSUME NEW c \in Corpora, c # k.corpus, corpusState[c] # None
       PROVE  /\ corpusState[c].gen \in Generations
              /\ registry'[corpusState[c].gen] = "active"
  BY <1>1, <1>2, <1>10 DEF IInv, TypeOK, CursorType, LiveByCursor, SwitchedRegistry
<1>11. LiveByCursor'
  <2>1. ASSUME NEW g \in Generations, registry'[g] = "active"
        PROVE  new[CorpusOf[g]] # None /\ new[CorpusOf[g]].gen = g
    <3>1. CASE g = k.gen
      BY <3>1, <1>0, <1>2, <1>4 DEF SwitchedCursor
    <3>2. CASE g # k.gen
      <4>1. registry[g] = "active" /\ CorpusOf[g] # k.corpus /\ CorpusOf[g] \in Corpora
        BY <2>1, <3>2, <1>1, LabelAssumption DEF SwitchedRegistry
      <4> QED BY <4>1, <1>4 DEF IInv, LiveByCursor
    <3> QED BY <3>1, <3>2
  <2>2. ASSUME NEW c \in Corpora, new[c] # None
        PROVE  /\ CorpusOf[new[c].gen] = c
               /\ registry'[new[c].gen] = "active"
               /\ views'[c] = new[c].gen
               /\ Covered(schemas[new[c].gen].rows)
    <3>1. views'[c] = new[c].gen /\ Covered(schemas[new[c].gen].rows)
      BY <2>2, <1>1 DEF RebuiltViews, SwitchAllowed, StampAllowed
    <3>2. CASE c = k.corpus
      <4>1. new[c].gen = k.gen
        BY <3>2, <1>4 DEF SwitchedCursor
      <4>2. registry'[k.gen] = "active" /\ CorpusOf[k.gen] = k.corpus
        BY <1>0, <1>1, <1>2 DEF SwitchedRegistry
      <4> QED BY <3>1, <3>2, <4>1, <4>2
    <3>3. CASE c # k.corpus
      BY <2>2, <3>1, <3>3, <1>4, <1>10 DEF IInv, LiveByCursor
    <3> QED BY <3>2, <3>3
  <2>3. \A c \in Corpora : new[c] = None => views'[c] = None
    BY <1>1 DEF RebuiltViews
  <2> QED BY <2>1, <2>2, <2>3, <1>1 DEF LiveByCursor
<1>12. CursorProvesContent'
  <2> DEFINE Proven(c) == \E l \in Packages :
               /\ l.corpus = c /\ new[c].seq = l.to /\ SameIdentity(new[c], l)
               /\ new[c].gen = l.gen /\ schemas[l.gen] # None
               /\ schemas[l.gen].rows = l.post /\ schemas[l.gen].indexed
  <2>1. ASSUME NEW c \in Corpora, c # k.corpus, new[c] # None
        PROVE  Proven(c)
    BY <2>1, <1>4 DEF IInv, CursorProvesContent
  <2>2. Proven(k.corpus)
    BY <1>0, <1>2, <1>4 DEF SwitchedCursor, SameIdentity
  <2>3. \A c \in Corpora : new[c] # None => Proven(c)
    BY <2>1, <2>2
  <2> HIDE DEF new, k
  <2> QED BY <2>3, <1>1 DEF CursorProvesContent, SameIdentity
<1> QED BY <1>5, <1>6, <1>8, <1>9, <1>11, <1>12 DEF IInv

LEMMA CommitIncrementalKeeps ==
  ASSUME IInv, NEW p \in Procs, CommitIncremental(p)
  PROVE  IInv'
<1> DEFINE k == job[p]
           cur == corpusState[k.corpus]
           new == [corpusState EXCEPT ![k.corpus] = AdvancedCursor(cur, k)]
           newSchemas == [schemas EXCEPT ![cur.gen].rows = ApplyFiles(@, k)]
<1>0. k \in Packages /\ k.corpus \in Corpora /\ k.gen \in Generations
  BY PackageFields DEF IInv, LocksHeld, CommitIncremental
<1>1. /\ cur # None /\ IncrementAllowed(k, new, newSchemas)
      /\ corpusState' = new /\ schemas' = newSchemas /\ stamp' = Signature(new)
      /\ Finish(p) /\ registry' = registry /\ views' = views
  BY DEF CommitIncremental
<1>2. /\ cur \in CursorType /\ cur.gen \in Generations
      /\ CorpusOf[cur.gen] = k.corpus /\ registry[cur.gen] = "active"
      /\ views[k.corpus] = cur.gen
  BY <1>0, <1>1 DEF IInv, TypeOK, CursorType, LiveByCursor
<1>3. schemas[cur.gen] \in SchemaType
  BY <1>2 DEF IInv, TypeOK, RegistryMatchesSchemas
<1>4. /\ newSchemas \in [Generations -> {None} \cup SchemaType]
      /\ newSchemas[cur.gen] \in SchemaType
      /\ newSchemas[cur.gen].indexed = schemas[cur.gen].indexed
      /\ \A g \in Generations \ {cur.gen} : newSchemas[g] = schemas[g]
  BY <1>0, <1>2, <1>3, ApplyFilesTyped DEF IInv, TypeOK, SchemaType
<1>5. /\ AdvancedCursor(cur, k) \in CursorType
      /\ AdvancedCursor(cur, k).gen = cur.gen
      /\ AdvancedCursor(cur, k).seq = k.to
      /\ AdvancedCursor(cur, k).id = k.id
      /\ AdvancedCursor(cur, k).digest = k.digest
  BY <1>0, <1>2, AdvancedFields
<1>6. /\ new \in [Corpora -> {None} \cup CursorType]
      /\ new[k.corpus] = AdvancedCursor(cur, k) /\ new[k.corpus] # None
      /\ \A c \in Corpora \ {k.corpus} : new[c] = corpusState[c]
  BY <1>0, <1>5, NoneAssumption DEF IInv, TypeOK
<1>7. TypeOK'
  BY <1>1, <1>4, <1>6, SignatureTyped, FinishTyped DEF IInv, TypeOK
<1>8. LocksHeld'
  BY <1>1, FinishLocks DEF IInv
<1>9. LoadProgress'
  <2>1. pc'[p] = "idle" /\ \A q \in Procs \ {p} : pc'[q] = pc[q] /\ job'[q] = job[q]
    BY <1>1, FinishLocks DEF IInv
  <2>2. ASSUME NEW q \in Procs, pc[q] \in Loading
        PROVE  job[q].gen # cur.gen /\ job[q].gen \in Generations
    BY <2>2, <1>2, PackageFields DEF IInv, LocksHeld, LoadProgress, Loading
  <2>3. ASSUME NEW q \in Procs PROVE LoadProgress!(q)'
    <3>1. CASE q = p
      BY <3>1, <2>1 DEF Loading
    <3>2. CASE q # p /\ pc[q] \in Loading
      <4>1. newSchemas[job[q].gen] = schemas[job[q].gen]
        BY <3>2, <2>2, <1>4
      <4> HIDE DEF newSchemas, new, cur
      <4> QED BY <3>2, <4>1, <2>1, <1>1 DEF IInv, LoadProgress, Loading
    <3>3. CASE q # p /\ pc[q] \notin Loading
      BY <3>3, <2>1, <1>1 DEF IInv, LoadProgress, Loading
    <3> QED BY <3>1, <3>2, <3>3
  <2> QED BY <2>3 DEF LoadProgress
<1>10. RegistryMatchesSchemas'
  BY <1>1, <1>2, <1>4, NoneAssumption DEF IInv, RegistryMatchesSchemas
<1>11. ASSUME NEW c \in Corpora, corpusState[c] # None, c # k.corpus
       PROVE  /\ corpusState[c].gen \in Generations
              /\ corpusState[c].gen # cur.gen
              /\ newSchemas[corpusState[c].gen] = schemas[corpusState[c].gen]
  BY <1>2, <1>4, <1>11 DEF IInv, TypeOK, CursorType, LiveByCursor
<1>12. LiveByCursor'
  <2>1. \A g \in Generations : registry[g] = "active" =>
          new[CorpusOf[g]] # None /\ new[CorpusOf[g]].gen = g
    BY <1>2, <1>5, <1>6, LabelAssumption DEF IInv, LiveByCursor
  <2>2. ASSUME NEW c \in Corpora, new[c] # None
        PROVE  /\ CorpusOf[new[c].gen] = c
               /\ registry[new[c].gen] = "active"
               /\ views[c] = new[c].gen
               /\ Covered(newSchemas[new[c].gen].rows)
    <3>1. Covered(newSchemas[new[c].gen].rows)
      BY <2>2, <1>1 DEF IncrementAllowed, StampAllowed
    <3>2. CASE c = k.corpus
      BY <3>1, <3>2, <1>2, <1>5, <1>6
    <3>3. CASE c # k.corpus
      BY <2>2, <3>1, <3>3, <1>6 DEF IInv, LiveByCursor
    <3> QED BY <3>2, <3>3
  <2>3. \A c \in Corpora : new[c] = None => views[c] = None
    BY <1>6 DEF IInv, LiveByCursor
  <2> HIDE DEF new, newSchemas
  <2> QED BY <2>1, <2>2, <2>3, <1>1 DEF LiveByCursor
<1>13. CursorProvesContent'
  <2> DEFINE Proven(c) == \E l \in Packages :
               /\ l.corpus = c /\ new[c].seq = l.to /\ SameIdentity(new[c], l)
               /\ new[c].gen = l.gen /\ newSchemas[l.gen] # None
               /\ newSchemas[l.gen].rows = l.post /\ newSchemas[l.gen].indexed
  <2>1. ASSUME NEW c \in Corpora, c # k.corpus, new[c] # None
        PROVE  Proven(c)
    <3>1. new[c] = corpusState[c] /\ corpusState[c] # None
      BY <2>1, <1>6
    <3>2. newSchemas[corpusState[c].gen] = schemas[corpusState[c].gen]
      BY <2>1, <3>1, <1>11
    <3>3. PICK l \in Packages :
            /\ l.corpus = c /\ corpusState[c].seq = l.to
            /\ SameIdentity(corpusState[c], l) /\ corpusState[c].gen = l.gen
            /\ schemas[l.gen] # None /\ schemas[l.gen].rows = l.post
            /\ schemas[l.gen].indexed
      BY <3>1 DEF IInv, CursorProvesContent
    <3> HIDE DEF new, newSchemas, cur
    <3> QED BY <3>1, <3>2, <3>3
  <2>2. Proven(k.corpus)
    <3>1. cur.gen = k.gen
      BY <1>1 DEF IncrementAllowed, ChainLink
    <3>2. newSchemas[k.gen].rows = k.post /\ newSchemas[k.gen].indexed
      BY <3>1, <1>1, <1>4 DEF IncrementAllowed, PostconditionsHold
    <3>3. newSchemas[k.gen] # None
      BY <3>1, <1>4, NoneAssumption
    <3> QED BY <3>1, <3>2, <3>3, <1>0, <1>5, <1>6 DEF SameIdentity
  <2>3. \A c \in Corpora : new[c] # None => Proven(c)
    <3> HIDE DEF Proven, new, newSchemas
    <3> QED BY <2>1, <2>2
  <2> HIDE DEF new, newSchemas, k, cur
  <2> QED BY <2>3, <1>1 DEF CursorProvesContent, SameIdentity
<1> QED BY <1>7, <1>8, <1>9, <1>10, <1>12, <1>13 DEF IInv

-----------------------------------------------------------------------------
(* Theorems.                                                               *)

LEMMA InitIInv == Init => IInv
<1>1. Init => TypeOK
  BY NoneAssumption DEF Init, TypeOK, PcType
<1>2. Init => LocksHeld /\ LoadProgress
  BY DEF Init, LocksHeld, LoadProgress, UnderCorpusLock, Loading
<1>3. Init => RegistryMatchesSchemas /\ LiveByCursor /\ CursorProvesContent
  BY DEF Init, RegistryMatchesSchemas, LiveByCursor, CursorProvesContent
<1> QED BY <1>1, <1>2, <1>3 DEF IInv

LEMMA NextIInv == IInv /\ [Next]_vars => IInv'
<1> SUFFICES ASSUME IInv, [Next]_vars PROVE IInv'
  OBVIOUS
<1>1. CASE UNCHANGED vars
  BY <1>1 DEF vars, IInv, TypeOK, LocksHeld, LoadProgress,
     RegistryMatchesSchemas, LiveByCursor, CursorProvesContent
<1>2. ASSUME NEW p \in Procs, NEW k \in Packages,
             BeginMedia(p, k) \/ BeginIncremental(p, k)
      PROVE  IInv'
  BY <1>2, BeginKeeps
<1>3. ASSUME NEW p \in Procs, AcquireCorpusApplyLock(p) PROVE IInv'
  BY <1>3, AcquireKeeps
<1>4. ASSUME NEW p \in Procs, MediaStep(p) PROVE IInv'
  BY <1>4, DecideKeeps, DecideRefuseKeeps, RestampWriteKeeps, ResetKeeps,
     RegisterKeeps, CreateKeeps, CopyKeeps, BuildIndexesKeeps, ValidateKeeps,
     TryLockKeeps, CommitSwitchKeeps DEF MediaStep
<1>5. ASSUME NEW p \in Procs, IncrementalStep(p) PROVE IInv'
  BY <1>5, TryLockKeeps, CommitIncrementalKeeps, CommitNothingKeeps DEF IncrementalStep
<1>6. ASSUME NEW p \in Procs, FailOrCrash(p) PROVE IInv'
  BY <1>6, FailOrCrashKeeps
<1>7. ASSUME NEW g \in Generations, DropRetiredGeneration(g) PROVE IInv'
  BY <1>7, DropKeeps
<1> QED BY <1>1, <1>2, <1>3, <1>4, <1>5, <1>6, <1>7 DEF Next

LEMMA Invariance == Spec => []IInv
BY InitIInv, NextIInv, PTL DEF Spec

(* The variables keep their types whatever the writers do.                 *)
THEOREM TypeCorrect == Spec => []TypeOK
<1>1. IInv => TypeOK
  BY DEF IInv
<1> QED BY <1>1, Invariance, PTL

(* A cursor is a proof of what its generation holds.                       *)
THEOREM CursorProvesContentAlways == Spec => []CursorProvesContent
<1>1. IInv => CursorProvesContent
  BY DEF IInv
<1> QED BY <1>1, Invariance, PTL

(* Exactly the generations the cursors name are live, and the views select *)
(* them.                                                                   *)
THEOREM OneLiveGenerationAlways == Spec => []OneLiveGeneration
<1>1. IInv => OneLiveGeneration
  BY DEF IInv, TypeOK, CursorType, LiveByCursor, OneLiveGeneration
<1> QED BY <1>1, Invariance, PTL

(* A matching readiness stamp is never a lie.                              *)
THEOREM GateImpliesReadyAlways == Spec => []GateImpliesReady
<1>1. IInv => GateImpliesReady
  BY DEF IInv, LiveByCursor, GateImpliesReady
<1> QED BY <1>1, Invariance, PTL

(* Nobody pulls a label from under its loader.                             *)
THEOREM LoadsAreUndisturbed == Spec => []LoadIsUndisturbed
<1>1. IInv => LoadIsUndisturbed
  BY DEF IInv, LoadProgress, LoadIsUndisturbed
<1> QED BY <1>1, Invariance, PTL

(* A generation the registry calls live or retired has its schema, and one *)
(* it does not know has none: no schema is orphaned.                       *)
THEOREM RegistryMatchesSchemasAlways == Spec => []RegistryMatchesSchemas
<1>1. IInv => RegistryMatchesSchemas
  BY DEF IInv
<1> QED BY <1>1, Invariance, PTL

-----------------------------------------------------------------------------
(* What a step does to the corpora.                                        *)

(* Every step but the two commits leaves the cursors and the live          *)
(* generations as they were.                                               *)
LEMMA QuietSteps ==
  ASSUME IInv, [Next]_vars,
         ~ \E p \in Procs : CommitSwitch(p) \/ CommitIncremental(p)
  PROVE  /\ corpusState' = corpusState
         /\ \A c \in Corpora : corpusState[c] # None =>
              schemas'[corpusState[c].gen] = schemas[corpusState[c].gen]
<1>1. ASSUME NEW c \in Corpora, corpusState[c] # None
      PROVE  corpusState[c].gen \in Generations /\ registry[corpusState[c].gen] = "active"
  BY <1>1 DEF IInv, TypeOK, CursorType, LiveByCursor
<1>3. CASE UNCHANGED vars
  BY <1>3 DEF vars
<1>4. ASSUME NEW p \in Procs, NEW k \in Packages,
             BeginMedia(p, k) \/ BeginIncremental(p, k)
      PROVE  corpusState' = corpusState /\ schemas' = schemas
  BY <1>4 DEF BeginMedia, BeginIncremental, shared
<1>5. ASSUME NEW p \in Procs,
             AcquireCorpusApplyLock(p) \/ FailOrCrash(p)
             \/ DecideAlreadyApplied(p) \/ DecideApply(p) \/ DecideRefuse(p)
             \/ RestampRead(p) \/ RestampWrite(p) \/ RegisterGeneration(p)
             \/ ValidatePostconditions(p) \/ BeginSwitch(p)
             \/ TakeApplyLock(p) \/ CommitNothing(p)
      PROVE  corpusState' = corpusState /\ schemas' = schemas
  BY <1>5 DEF AcquireCorpusApplyLock, FailOrCrash, DecideAlreadyApplied, DecideApply,
     DecideRefuse, RestampRead, RestampWrite, RegisterGeneration,
     ValidatePostconditions, BeginSwitch, TakeApplyLock, CommitNothing, shared
<1>6. ASSUME NEW p \in Procs,
             ResetBuildingGeneration(p) \/ CreateLoadTables(p)
             \/ (\E t \in Tables : CopyTable(p, t)) \/ BuildGenerationIndexes(p)
      PROVE  /\ corpusState' = corpusState
             /\ \A g \in Generations : registry[g] = "active" => schemas'[g] = schemas[g]
  <2>1. registry[job[p].gen] \in {"absent", "building"}
    BY <1>6 DEF ResetBuildingGeneration, CreateLoadTables, CopyTable,
       BuildGenerationIndexes, Goto, IInv, LoadProgress, Loading
  <2>2. corpusState' = corpusState
    BY <1>6 DEF ResetBuildingGeneration, CreateLoadTables, CopyTable,
       BuildGenerationIndexes
  <2>3. \A g \in Generations \ {job[p].gen} : schemas'[g] = schemas[g]
    BY <1>6 DEF ResetBuildingGeneration, CreateLoadTables, CopyTable,
       BuildGenerationIndexes, IInv, TypeOK
  <2> QED BY <2>1, <2>2, <2>3
<1>7. ASSUME NEW g \in Generations, DropRetiredGeneration(g)
      PROVE  /\ corpusState' = corpusState
             /\ \A h \in Generations : registry[h] = "active" => schemas'[h] = schemas[h]
  BY <1>7 DEF DropRetiredGeneration, IInv, TypeOK
<1> QED BY <1>1, <1>3, <1>4, <1>5, <1>6, <1>7 DEF Next, MediaStep, IncrementalStep

(* A switch installs its package: the cursor and the content are the       *)
(* package's, the other corpora keep both.                                 *)
LEMMA SwitchStep ==
  ASSUME IInv, NEW p \in Procs, CommitSwitch(p)
  PROVE  \E k \in Packages :
           /\ CursorGuard(corpusState[k.corpus], k)
           /\ corpusState' = [corpusState EXCEPT ![k.corpus] = SwitchedCursor(k)]
           /\ schemas' = schemas
           /\ schemas[k.gen].rows = k.post
<1>1. job[p] \in Packages /\ schemas[job[p].gen].rows = job[p].post
  BY DEF CommitSwitch, IInv, LocksHeld, LoadProgress
<1> QED BY <1>1 DEF CommitSwitch, SwitchAllowed

(* An incremental turns its corpus into its package.                       *)
LEMMA ExtendStep ==
  ASSUME IInv, NEW p \in Procs, CommitIncremental(p)
  PROVE  \E k \in Packages :
           /\ k.kind = "incremental"
           /\ ChainLink(corpusState[k.corpus], k)
           /\ corpusState' = [corpusState EXCEPT ![k.corpus] =
                                AdvancedCursor(corpusState[k.corpus], k)]
           /\ schemas'[k.gen].rows = k.post
           /\ \A g \in Generations \ {k.gen} : schemas'[g] = schemas[g]
<1> DEFINE k == job[p]
           cur == corpusState[k.corpus]
           newSchemas == [schemas EXCEPT ![cur.gen].rows = ApplyFiles(@, k)]
<1>1. k \in Packages /\ k.kind = "incremental"
  BY DEF CommitIncremental, IInv, LocksHeld
<1>2. /\ ChainLink(cur, k) /\ newSchemas[cur.gen].rows = k.post
      /\ schemas' = newSchemas /\ cur.gen = k.gen
      /\ corpusState' = [corpusState EXCEPT ![k.corpus] = AdvancedCursor(cur, k)]
  BY DEF CommitIncremental, IncrementAllowed, PostconditionsHold, ChainLink
<1>3. \A g \in Generations \ {cur.gen} : newSchemas[g] = schemas[g]
  BY DEF IInv, TypeOK
<1> QED BY <1>1, <1>2, <1>3

LEMMA CursorMovesStep ==
  ASSUME IInv, [Next]_vars
  PROVE  CursorMoves
<1>1. CASE ~ \E p \in Procs : CommitSwitch(p) \/ CommitIncremental(p)
  BY <1>1, QuietSteps DEF CursorMoves
<1>2. ASSUME NEW p \in Procs, CommitSwitch(p) PROVE CursorMoves
  <2>1. PICK k \in Packages :
          /\ CursorGuard(corpusState[k.corpus], k)
          /\ corpusState' = [corpusState EXCEPT ![k.corpus] = SwitchedCursor(k)]
    BY <1>2, SwitchStep
  <2>2. /\ k.corpus \in Corpora /\ SwitchedCursor(k) # None
        /\ k.kind \in MediaKinds
        /\ corpusState[k.corpus] # None =>
             k.kind = "rebaseline" /\ corpusState[k.corpus].seq < k.to
    BY <2>1, PackageFields, NoneAssumption DEF CursorGuard, MediaKinds
  <2>3. /\ corpusState'[k.corpus] = SwitchedCursor(k)
        /\ \A c \in Corpora \ {k.corpus} : corpusState'[c] = corpusState[c]
    BY <2>1, <2>2 DEF IInv, TypeOK
  <2> QED BY <2>2, <2>3 DEF CursorMoves, SwitchedCursor, SameIdentity
<1>3. ASSUME NEW p \in Procs, CommitIncremental(p) PROVE CursorMoves
  <2>1. PICK k \in Packages :
          /\ k.kind = "incremental"
          /\ ChainLink(corpusState[k.corpus], k)
          /\ corpusState' = [corpusState EXCEPT ![k.corpus] =
                               AdvancedCursor(corpusState[k.corpus], k)]
    BY <1>3, ExtendStep
  <2> DEFINE old == corpusState[k.corpus]
             new == AdvancedCursor(old, k)
  <2>2. k.corpus \in Corpora /\ old \in CursorType /\ old # None
    BY <2>1, PackageFields DEF IInv, TypeOK, ChainLink
  <2>3. /\ new # None /\ new.gen = old.gen /\ new.seq = k.to
        /\ new.id = k.id /\ new.digest = k.digest /\ new.compat = old.compat
    BY <2>2, AdvancedFields, NoneAssumption
  <2>4. /\ corpusState'[k.corpus] = new
        /\ \A c \in Corpora \ {k.corpus} : corpusState'[c] = corpusState[c]
    BY <2>1, <2>2 DEF IInv, TypeOK
  <2>5. /\ old.seq = k.from /\ old.id = k.prevId /\ old.digest = k.prevDigest
        /\ old.gen = k.gen /\ old.compat = k.compat
    BY <2>1 DEF ChainLink
  <2> HIDE DEF new
  <2> QED BY <2>1, <2>2, <2>3, <2>4, <2>5 DEF CursorMoves, SameIdentity
<1> QED BY <1>1, <1>2, <1>3

(* The cursor of a corpus moves only along published packages.             *)
THEOREM CursorMovesByPackageAlways == Spec => CursorMovesByPackage
<1>1. IInv /\ [Next]_vars => [CursorMoves]_vars
  BY CursorMovesStep
<1> QED BY <1>1, Invariance, PTL DEF Spec, CursorMovesByPackage

LEMMA LiveRowsStep ==
  ASSUME IInv, [Next]_vars, NEW c \in Corpora,
         corpusState[c] # None, corpusState'[c] = corpusState[c]
  PROVE  schemas'[corpusState[c].gen] = schemas[corpusState[c].gen]
<1>0. corpusState[c].gen \in Generations /\ CorpusOf[corpusState[c].gen] = c
  BY DEF IInv, TypeOK, CursorType, LiveByCursor
<1>1. CASE ~ \E p \in Procs : CommitSwitch(p) \/ CommitIncremental(p)
  BY <1>1, QuietSteps
<1>2. ASSUME NEW p \in Procs, CommitSwitch(p)
      PROVE  schemas'[corpusState[c].gen] = schemas[corpusState[c].gen]
  BY <1>2, SwitchStep
<1>3. ASSUME NEW p \in Procs, CommitIncremental(p)
      PROVE  schemas'[corpusState[c].gen] = schemas[corpusState[c].gen]
  <2>1. PICK k \in Packages :
          /\ ChainLink(corpusState[k.corpus], k)
          /\ corpusState' = [corpusState EXCEPT ![k.corpus] =
                               AdvancedCursor(corpusState[k.corpus], k)]
          /\ \A g \in Generations \ {k.gen} : schemas'[g] = schemas[g]
    BY <1>3, ExtendStep
  <2> DEFINE old == corpusState[k.corpus]
             new == AdvancedCursor(old, k)
  <2>2. /\ k.corpus \in Corpora /\ old \in CursorType /\ old.gen = k.gen
        /\ CorpusOf[k.gen] = k.corpus /\ old.seq < k.to
    BY <2>1, PackageFields DEF IInv, TypeOK, ChainLink, LiveByCursor
  <2>3. new.seq = k.to /\ corpusState'[k.corpus] = new
    BY <2>1, <2>2, AdvancedFields DEF IInv, TypeOK
  <2>4. c # k.corpus
    <3>1. k.to # old.seq
      BY <2>2, PackageFields DEF CursorType
    <3> HIDE DEF new
    <3> QED BY <2>3, <3>1
  <2> QED BY <2>1, <2>2, <2>4, <1>0
<1> QED BY <1>1, <1>2, <1>3

(* Readers see a corpus change only with its cursor.                       *)
THEOREM LiveRowsFollowCursorAlways == Spec => LiveRowsFollowCursor
<1>1. IInv /\ [Next]_vars =>
        [\A c \in Corpora :
           (corpusState[c] # None /\ corpusState'[c] = corpusState[c]) =>
              schemas'[corpusState[c].gen] = schemas[corpusState[c].gen]]_vars
  BY LiveRowsStep
<1> QED BY <1>1, Invariance, PTL DEF Spec, LiveRowsFollowCursor

-----------------------------------------------------------------------------
(* ClientReplica implements Replica.                                       *)

site == [c \in Corpora |-> SiteOf(c)]

LEMMA RefinesInit == Init => R!Init
BY DEF Init, R!Init, SiteOf

(* The corpora a commit does not name keep what they are.                  *)
LEMMA RefinesNext ==
  ASSUME IInv, [Next]_vars
  PROVE  [R!Next]_site
<1>0. ASSUME NEW c \in Corpora, corpusState[c] # None
      PROVE  corpusState[c].gen \in Generations /\ CorpusOf[corpusState[c].gen] = c
  BY <1>0 DEF IInv, TypeOK, CursorType, LiveByCursor
<1>1. CASE ~ \E p \in Procs : CommitSwitch(p) \/ CommitIncremental(p)
  <2>1. \A c \in Corpora : SiteOf(c)' = SiteOf(c)
    BY <1>1, QuietSteps DEF SiteOf
  <2> QED BY <2>1 DEF site
<1>2. ASSUME NEW p \in Procs, CommitSwitch(p) PROVE R!Next
  <2>1. PICK k \in Packages :
          /\ CursorGuard(corpusState[k.corpus], k)
          /\ corpusState' = [corpusState EXCEPT ![k.corpus] = SwitchedCursor(k)]
          /\ schemas' = schemas
          /\ schemas[k.gen].rows = k.post
    BY <1>2, SwitchStep
  <2>2. k.corpus \in Corpora /\ SwitchedCursor(k) # None
    BY PackageFields, NoneAssumption
  <2>3. /\ corpusState'[k.corpus] = SwitchedCursor(k)
        /\ \A c \in Corpora \ {k.corpus} : corpusState'[c] = corpusState[c]
    BY <2>1, <2>2 DEF IInv, TypeOK
  <2>4. \A c \in Corpora \ {k.corpus} : SiteOf(c)' = SiteOf(c)
    BY <2>1, <2>3 DEF SiteOf
  <2>5. SiteOf(k.corpus)' = R!Installed(k)
    BY <2>1, <2>2, <2>3 DEF SiteOf, SwitchedCursor, R!Installed
  <2>6. site' = [site EXCEPT ![k.corpus] = R!Installed(k)]
    BY <2>2, <2>4, <2>5 DEF site
  <2>7. /\ k.kind \in {"baseline", "rebaseline"}
        /\ \/ site[k.corpus] = None
           \/ /\ k.kind = "rebaseline" /\ site[k.corpus] # None
              /\ site[k.corpus].seq < k.to
    <3>1. CASE corpusState[k.corpus] = None
      BY <3>1, <2>1, <2>2 DEF CursorGuard, site, SiteOf
    <3>2. CASE corpusState[k.corpus] # None
      BY <3>2, <2>1, <2>2 DEF CursorGuard, site, SiteOf
    <3> QED BY <3>1, <3>2
  <2> QED BY <2>6, <2>7 DEF R!Next, R!Install, R!Supersede, site
<1>3. ASSUME NEW p \in Procs, CommitIncremental(p) PROVE R!Next
  <2>1. PICK k \in Packages :
          /\ k.kind = "incremental"
          /\ ChainLink(corpusState[k.corpus], k)
          /\ corpusState' = [corpusState EXCEPT ![k.corpus] =
                               AdvancedCursor(corpusState[k.corpus], k)]
          /\ schemas'[k.gen].rows = k.post
          /\ \A g \in Generations \ {k.gen} : schemas'[g] = schemas[g]
    BY <1>3, ExtendStep
  <2> DEFINE old == corpusState[k.corpus]
             new == AdvancedCursor(old, k)
  <2>2. k.corpus \in Corpora /\ old \in CursorType /\ old # None /\ old.gen = k.gen
    BY <2>1, PackageFields DEF IInv, TypeOK, ChainLink
  <2>3. /\ new # None /\ new.gen = k.gen /\ new.seq = k.to
        /\ new.id = k.id /\ new.digest = k.digest
    BY <2>2, AdvancedFields, NoneAssumption
  <2>4. /\ corpusState'[k.corpus] = new
        /\ \A c \in Corpora \ {k.corpus} : corpusState'[c] = corpusState[c]
    BY <2>1, <2>2 DEF IInv, TypeOK
  <2>5. ASSUME NEW c \in Corpora \ {k.corpus} PROVE SiteOf(c)' = SiteOf(c)
    <3>1. CASE corpusState[c] = None
      BY <3>1, <2>4 DEF SiteOf
    <3>2. CASE corpusState[c] # None
      <4>1. corpusState[c].gen \in Generations \ {k.gen}
        BY <3>2, <2>2, <1>0
      <4> QED BY <4>1, <2>1, <2>4 DEF SiteOf
    <3> QED BY <3>1, <3>2
  <2>6. SiteOf(k.corpus)' = R!Installed(k)
    <3> HIDE DEF new
    <3> QED BY <2>1, <2>3, <2>4 DEF SiteOf, R!Installed
  <2>7. site' = [site EXCEPT ![k.corpus] = R!Installed(k)]
    BY <2>2, <2>5, <2>6 DEF site
  <2>8. site[k.corpus] \in SiteType
    BY <2>2 DEF site, SiteOf, SiteType, CursorType, IInv, TypeOK, SchemaType,
       LiveByCursor, RegistryMatchesSchemas
  <2>9. /\ site[k.corpus] # None /\ site[k.corpus].seq = k.from
        /\ site[k.corpus].id = k.prevId /\ site[k.corpus].digest = k.prevDigest
    BY <2>1, <2>2, <2>8, NoneAssumption DEF ChainLink, site, SiteOf
  <2> QED BY <2>1, <2>7, <2>9 DEF R!Next, R!Extend, site
<1> QED BY <1>1, <1>2, <1>3 DEF site

(* Whatever the writers do, each corpus is a published package and moves   *)
(* from one to the next as Replica says.                                   *)
THEOREM ClientImplementsReplica == Spec => Refinement
<1>1. IInv /\ [Next]_vars => [R!Next]_([c \in Corpora |-> SiteOf(c)])
  BY RefinesNext DEF site
<1> QED BY <1>1, RefinesInit, Invariance, PTL DEF Spec, Refinement, R!Spec

-----------------------------------------------------------------------------
(* The trust roots, for any keys, materials and tokens, any edits of the   *)
(* operator, any bootstraps side by side and any deaths of them.           *)

(* A bootstrap installs over nothing, but where another command has        *)
(* installed since it planned, and one material per key.                   *)
PlanIsFresh ==
  \A b \in Bootstraps : planned[b] # None =>
    /\ \A p \in planned[b] : anchors[p[1]] = None \/ p[1] \in raced[b]
    /\ \A p, q \in planned[b] : p[1] = q[1] => p = q

(* A cycle verifies with the anchors there were when it began.             *)
VerifierIsKnown ==
  verifier # None => verifier = [k \in PackageKeys |-> known[k]]

TrustIInv == TrustRoots!TypeOK /\ PlanIsFresh /\ VerifierIsKnown

-----------------------------------------------------------------------------
(* The next package to apply is one of those served.                       *)
LEMMA NextPackage ==
  ASSUME TrustRoots!PackagesAssumption, TrustRoots!TypeOK, applied < Len(SignedPackages)
  PROVE  /\ applied + 1 \in 0 .. Len(SignedPackages)
         /\ SignedPackages[applied + 1] \in TrustRoots!SignedPackage
<1>1. Len(SignedPackages) \in Nat
  BY LenProperties DEF TrustRoots!PackagesAssumption
<1>2. applied + 1 \in 1 .. Len(SignedPackages)
  BY <1>1 DEF TrustRoots!TypeOK
<1>3. SignedPackages[applied + 1] \in TrustRoots!SignedPackage
  BY <1>2, ElementOfSeq DEF TrustRoots!PackagesAssumption
<1> QED BY <1>1, <1>2, <1>3

LEMMA TrustInitKeeps ==
  ASSUME TrustRoots!PackagesAssumption, TrustRoots!BoundsAssumption, TrustRoots!Init
  PROVE  TrustIInv
<1>1. Len(SignedPackages) \in Nat
  BY LenProperties DEF TrustRoots!PackagesAssumption
<1>0. 0 \in 0 .. Len(SignedPackages)
  BY <1>1
<1>2. 0 \in 0 .. MaxEdits /\ 0 \in 0 .. MaxCrashes
  BY DEF TrustRoots!BoundsAssumption
<1>3. TrustRoots!NoAnchors \in TrustRoots!Anchors
  BY DEF TrustRoots!NoAnchors, TrustRoots!Anchors
<1>4. config \in TrustRoots!Anchors
  BY DEF TrustRoots!Init
<1>5. /\ anchors \in TrustRoots!Anchors /\ known \in TrustRoots!Anchors /\ applied \in 0 .. Len(SignedPackages)
      /\ edits \in 0 .. MaxEdits /\ crashes \in 0 .. MaxCrashes
  BY <1>0, <1>2, <1>3 DEF TrustRoots!Init
<1>6. /\ tokens \subseteq Licenses /\ clock \subseteq Licenses /\ verifier = None
      /\ planned = [b \in Bootstraps |-> None] /\ raced = [b \in Bootstraps |-> {}]
  BY DEF TrustRoots!Init
<1> QED BY <1>4, <1>5, <1>6 DEF TrustIInv, TrustRoots!TypeOK, PlanIsFresh, VerifierIsKnown

(* What a bootstrap has yet to install are keys with their material.       *)
LEMMA PlannedPairs ==
  ASSUME TrustRoots!TypeOK, NEW b \in Bootstraps, planned[b] # None
  PROVE  /\ planned[b] \in SUBSET (TrustRoots!Keys \X Materials)
         /\ \A p \in planned[b] : p[1] \in TrustRoots!Keys /\ p[2] \in Materials
<1>1. planned[b] \in {None} \cup SUBSET (TrustRoots!Keys \X Materials)
  BY DEF TrustRoots!TypeOK
<1> QED BY <1>1

(* An upsert and the bootstraps it overtakes: every plan is still over     *)
(* nothing or over a key installed since, for those it counts.             *)
LEMMA UpsertOvertakes ==
  ASSUME TrustIInv, NEW k \in TrustRoots!Keys, NEW m \in Materials, NEW others \in SUBSET Bootstraps,
         TrustRoots!Upsert(k, m), TrustRoots!Overtakes(k, others)
  PROVE  /\ anchors' \in TrustRoots!Anchors /\ raced' \in [Bootstraps -> SUBSET TrustRoots!Keys]
         /\ \A b \in Bootstraps : raced[b] \subseteq raced'[b]
         /\ \A b \in others : planned[b] # None =>
              \A p \in planned[b] : anchors'[p[1]] = None \/ p[1] \in raced'[b]
         /\ \A j \in TrustRoots!Keys : j # k => anchors'[j] = anchors[j]
<1>1. anchors \in TrustRoots!Anchors /\ raced \in [Bootstraps -> SUBSET TrustRoots!Keys]
  BY DEF TrustIInv, TrustRoots!TypeOK
<1>2. anchors' \in TrustRoots!Anchors /\ \A j \in TrustRoots!Keys : j # k => anchors'[j] = anchors[j]
  BY <1>1 DEF TrustRoots!Upsert, TrustRoots!Anchors
<1>3. /\ raced' \in [Bootstraps -> SUBSET TrustRoots!Keys]
      /\ \A b \in Bootstraps : raced[b] \subseteq raced'[b]
      /\ \A b \in others : planned[b] # None => raced'[b] = raced[b] \cup {k}
  BY <1>1 DEF TrustRoots!Overtakes
<1>4. ASSUME NEW b \in others, planned[b] # None, NEW p \in planned[b]
      PROVE  anchors'[p[1]] = None \/ p[1] \in raced'[b]
  <2>1. p[1] \in TrustRoots!Keys
    BY <1>4, PlannedPairs DEF TrustIInv
  <2>2. anchors[p[1]] = None \/ p[1] \in raced[b]
    BY <1>4 DEF TrustIInv, PlanIsFresh
  <2> QED BY <1>2, <1>3, <1>4, <2>1, <2>2
<1> QED BY <1>2, <1>3, <1>4

(* The operator's edits and the end of a license.                          *)
LEMMA EditConfigKeeps ==
  ASSUME TrustRoots!BoundsAssumption, TrustIInv, TrustRoots!EditConfig
  PROVE  TrustIInv'
<1>1. config' \in TrustRoots!Anchors
  BY DEF TrustRoots!EditConfig, TrustIInv, TrustRoots!TypeOK, TrustRoots!Anchors
<1>2. edits' \in 0 .. MaxEdits
  BY DEF TrustRoots!EditConfig, TrustIInv, TrustRoots!TypeOK, TrustRoots!BoundsAssumption
<1> QED BY <1>1, <1>2 DEF TrustRoots!EditConfig, TrustIInv, TrustRoots!TypeOK, PlanIsFresh,
           VerifierIsKnown

LEMMA RemoveAnchorKeeps ==
  ASSUME TrustRoots!BoundsAssumption, TrustIInv, NEW k \in TrustRoots!Keys,
         TrustRoots!RemoveAnchor(k)
  PROVE  TrustIInv'
<1>1. anchors' \in TrustRoots!Anchors
  BY DEF TrustRoots!RemoveAnchor, TrustIInv, TrustRoots!TypeOK, TrustRoots!Anchors
<1>2. edits' \in 0 .. MaxEdits
  BY DEF TrustRoots!RemoveAnchor, TrustIInv, TrustRoots!TypeOK, TrustRoots!BoundsAssumption
<1>3. UNCHANGED <<config, tokens, clock, planned, raced, verifier, known, applied, crashes>>
  BY DEF TrustRoots!RemoveAnchor
<1>4. \A j \in TrustRoots!Keys : anchors'[j] \in {anchors[j], None}
  BY DEF TrustRoots!RemoveAnchor, TrustIInv, TrustRoots!TypeOK, TrustRoots!Anchors
<1>5. PlanIsFresh'
  <2> SUFFICES ASSUME NEW b \in Bootstraps, planned[b] # None, NEW p \in planned[b]
               PROVE  anchors'[p[1]] = None \/ p[1] \in raced[b]
    BY <1>3 DEF TrustIInv, PlanIsFresh
  <2>1. p[1] \in TrustRoots!Keys
    BY PlannedPairs DEF TrustIInv
  <2> QED BY <1>4, <2>1 DEF TrustIInv, PlanIsFresh
<1> QED BY <1>1, <1>2, <1>3, <1>5 DEF TrustIInv, TrustRoots!TypeOK, VerifierIsKnown

LEMMA ExpireKeeps ==
  ASSUME TrustIInv, NEW t \in Licenses, TrustRoots!Expire(t)
  PROVE  TrustIInv'
BY DEF TrustRoots!Expire, TrustIInv, TrustRoots!TypeOK, PlanIsFresh, VerifierIsKnown

(* An install by hand overtakes every bootstrap that has planned.          *)
LEMMA InstallByHandKeeps ==
  ASSUME TrustRoots!BoundsAssumption, TrustIInv, NEW k \in TrustRoots!Keys, NEW m \in Materials,
         TrustRoots!InstallByHand(k, m)
  PROVE  TrustIInv'
<1>1. /\ TrustRoots!Upsert(k, m) /\ TrustRoots!Overtakes(k, Bootstraps)
      /\ UNCHANGED <<config, tokens, clock, planned, verifier, known, applied, crashes>>
  BY DEF TrustRoots!InstallByHand
<1>2. edits' \in 0 .. MaxEdits
  BY DEF TrustRoots!InstallByHand, TrustIInv, TrustRoots!TypeOK, TrustRoots!BoundsAssumption
<1>3. /\ anchors' \in TrustRoots!Anchors /\ raced' \in [Bootstraps -> SUBSET TrustRoots!Keys]
      /\ \A b \in Bootstraps : planned[b] # None =>
           \A p \in planned[b] : anchors'[p[1]] = None \/ p[1] \in raced'[b]
  BY <1>1, UpsertOvertakes
<1>4. PlanIsFresh'
  BY <1>1, <1>3 DEF TrustIInv, PlanIsFresh
<1> QED BY <1>1, <1>2, <1>3, <1>4 DEF TrustIInv, TrustRoots!TypeOK, VerifierIsKnown

(* A plan holds what site.toml has and the database has not; a key that is *)
(* installed with other material would have refused it.                    *)
LEMMA PlanBootstrapKeeps ==
  ASSUME TrustIInv, NEW b \in Bootstraps, TrustRoots!PlanBootstrap(b)
  PROVE  TrustIInv'
<1> DEFINE fresh == {x \in TrustRoots!Keys : config[x] \notin {None, anchors[x]}}
           plan == {<<k, config[k]>> : k \in fresh}
<1>1. planned' = [planned EXCEPT ![b] = plan]
  BY DEF TrustRoots!PlanBootstrap
<1>2. \A k \in fresh : anchors[k] = None
  BY DEF TrustRoots!PlanBootstrap, TrustRoots!Conflicting
<1>3. \A k \in fresh : config[k] \in Materials
  BY DEF TrustIInv, TrustRoots!TypeOK, TrustRoots!Anchors
<1>4. fresh \subseteq TrustRoots!Keys
  OBVIOUS
<1> HIDE DEF fresh
<1>5. /\ plan \in SUBSET (TrustRoots!Keys \X Materials)
      /\ \A p \in plan : anchors[p[1]] = None
      /\ \A p, q \in plan : p[1] = q[1] => p = q
  <2>1. \A k \in fresh : <<k, config[k]>> \in TrustRoots!Keys \X Materials
    BY <1>3, <1>4
  <2> QED BY <1>2, <2>1
<1> HIDE DEF plan
<1>6. UNCHANGED <<config, anchors, tokens, clock, raced, verifier, known, applied, edits, crashes>>
  BY DEF TrustRoots!PlanBootstrap
<1>7. TrustRoots!TypeOK'
  <2>1. planned' \in [Bootstraps -> {None} \cup SUBSET (TrustRoots!Keys \X Materials)]
    BY <1>1, <1>5 DEF TrustIInv, TrustRoots!TypeOK
  <2> QED BY <2>1, <1>6 DEF TrustIInv, TrustRoots!TypeOK
<1>8. PlanIsFresh'
  <2> SUFFICES ASSUME NEW c \in Bootstraps, planned'[c] # None
               PROVE  /\ \A p \in planned'[c] : anchors[p[1]] = None \/ p[1] \in raced[c]
                      /\ \A p, q \in planned'[c] : p[1] = q[1] => p = q
    BY <1>6 DEF PlanIsFresh
  <2>1. CASE c = b
    BY <2>1, <1>1, <1>5 DEF TrustIInv, TrustRoots!TypeOK
  <2>2. CASE c # b
    BY <2>2, <1>1 DEF TrustIInv, PlanIsFresh
  <2> QED BY <2>1, <2>2
<1> QED BY <1>6, <1>7, <1>8 DEF TrustIInv, VerifierIsKnown

(* An upsert of a bootstrap takes one pair off its own plan, so that what  *)
(* is left names other keys, and overtakes the others.                     *)
LEMMA InstallAnchorKeeps ==
  ASSUME TrustIInv, NEW b \in Bootstraps, TrustRoots!InstallAnchor(b)
  PROVE  TrustIInv'
<1>1. PICK p \in planned[b] :
        /\ TrustRoots!Upsert(p[1], p[2]) /\ TrustRoots!Overtakes(p[1], Bootstraps \ {b})
        /\ planned' = [planned EXCEPT ![b] = @ \ {p}]
  BY DEF TrustRoots!InstallAnchor
<1>2. planned[b] # None /\ planned \in [Bootstraps -> {None} \cup SUBSET (TrustRoots!Keys \X Materials)]
  BY DEF TrustRoots!InstallAnchor, TrustIInv, TrustRoots!TypeOK
<1>3. planned[b] \in SUBSET (TrustRoots!Keys \X Materials) /\ p[1] \in TrustRoots!Keys /\ p[2] \in Materials
  BY <1>1, <1>2, PlannedPairs DEF TrustIInv
<1>4. /\ anchors' \in TrustRoots!Anchors /\ raced' \in [Bootstraps -> SUBSET TrustRoots!Keys]
      /\ \A c \in Bootstraps : raced[c] \subseteq raced'[c]
      /\ \A c \in Bootstraps \ {b} : planned[c] # None =>
           \A q \in planned[c] : anchors'[q[1]] = None \/ q[1] \in raced'[c]
      /\ \A j \in TrustRoots!Keys : j # p[1] => anchors'[j] = anchors[j]
  BY <1>1, <1>3, UpsertOvertakes
<1>5. UNCHANGED <<config, tokens, clock, verifier, known, applied, edits, crashes>>
  BY DEF TrustRoots!InstallAnchor
<1>6. TrustRoots!TypeOK'
  <2>1. planned' \in [Bootstraps -> {None} \cup SUBSET (TrustRoots!Keys \X Materials)]
    BY <1>1, <1>2, <1>3
  <2> QED BY <2>1, <1>4, <1>5 DEF TrustIInv, TrustRoots!TypeOK
<1>7. PlanIsFresh'
  <2> SUFFICES ASSUME NEW c \in Bootstraps, planned'[c] # None
               PROVE  /\ \A q \in planned'[c] : anchors'[q[1]] = None \/ q[1] \in raced'[c]
                      /\ \A q, r \in planned'[c] : q[1] = r[1] => q = r
    BY DEF PlanIsFresh
  <2>1. CASE c = b
    <3>1. planned'[c] = planned[b] \ {p}
      BY <1>1, <1>2, <2>1
    <3>2. /\ \A q \in planned[b] : anchors[q[1]] = None \/ q[1] \in raced[b]
          /\ \A q, r \in planned[b] : q[1] = r[1] => q = r
      BY <1>2 DEF TrustIInv, PlanIsFresh
    <3>3. ASSUME NEW q \in planned[b] \ {p}
          PROVE  anchors'[q[1]] = None \/ q[1] \in raced'[b]
      <4>1. q[1] \in TrustRoots!Keys /\ q[1] # p[1]
        BY <1>1, <1>2, <3>2, PlannedPairs DEF TrustIInv
      <4>2. anchors'[q[1]] = anchors[q[1]] /\ raced[b] \subseteq raced'[b]
        BY <1>4, <4>1
      <4> QED BY <3>2, <4>2
    <3> QED BY <2>1, <3>1, <3>2, <3>3
  <2>2. CASE c # b
    <3>1. planned'[c] = planned[c]
      BY <1>1, <1>2, <2>2
    <3> QED BY <1>4, <2>2, <3>1 DEF TrustIInv, PlanIsFresh
  <2> QED BY <2>1, <2>2
<1> QED BY <1>5, <1>6, <1>7 DEF TrustIInv, VerifierIsKnown

LEMMA BootstrapEndKeeps ==
  ASSUME TrustRoots!BoundsAssumption, TrustIInv, NEW b \in Bootstraps,
         TrustRoots!FinishBootstrap(b) \/ TrustRoots!CrashBootstrap(b)
  PROVE  TrustIInv'
<1>1. TrustRoots!Ends(b) /\ UNCHANGED <<config, anchors, clock, verifier, known, applied, edits>>
  BY DEF TrustRoots!FinishBootstrap, TrustRoots!CrashBootstrap
<1>2. tokens' \subseteq Licenses
  BY DEF TrustRoots!FinishBootstrap, TrustRoots!CrashBootstrap, TrustIInv, TrustRoots!TypeOK
<1>3. crashes' \in 0 .. MaxCrashes
  BY DEF TrustRoots!FinishBootstrap, TrustRoots!CrashBootstrap, TrustIInv, TrustRoots!TypeOK,
         TrustRoots!BoundsAssumption
<1>4. /\ planned' \in [Bootstraps -> {None} \cup SUBSET (TrustRoots!Keys \X Materials)]
      /\ raced' \in [Bootstraps -> SUBSET TrustRoots!Keys]
      /\ planned'[b] = None
      /\ \A c \in Bootstraps \ {b} : planned'[c] = planned[c] /\ raced'[c] = raced[c]
  BY <1>1 DEF TrustRoots!Ends, TrustIInv, TrustRoots!TypeOK
<1>5. TrustRoots!TypeOK'
  BY <1>1, <1>2, <1>3, <1>4 DEF TrustIInv, TrustRoots!TypeOK
<1>6. PlanIsFresh'
  BY <1>1, <1>4 DEF TrustIInv, PlanIsFresh
<1> QED BY <1>1, <1>5, <1>6 DEF TrustIInv, VerifierIsKnown

LEMMA CycleKeeps ==
  ASSUME TrustRoots!PackagesAssumption, TrustIInv,
         TrustRoots!StartCycle \/ TrustRoots!ApplyPackage \/ TrustRoots!EndCycle
  PROVE  TrustIInv'
<1>1. CASE TrustRoots!StartCycle
  <2>1. verifier' \in [PackageKeys -> Materials \cup {None}]
    BY <1>1 DEF TrustRoots!StartCycle, TrustRoots!LoadVerifier, TrustIInv, TrustRoots!TypeOK,
       TrustRoots!Anchors, TrustRoots!Keys
  <2> QED BY <1>1, <2>1 DEF TrustRoots!StartCycle, TrustRoots!LoadVerifier, TrustIInv,
             TrustRoots!TypeOK, PlanIsFresh, VerifierIsKnown
<1>2. CASE TrustRoots!ApplyPackage
  <2>1. applied' \in 0 .. Len(SignedPackages)
    BY <1>2, NextPackage DEF TrustRoots!ApplyPackage, TrustIInv
  <2> QED BY <1>2, <2>1 DEF TrustRoots!ApplyPackage, TrustIInv, TrustRoots!TypeOK, PlanIsFresh,
             VerifierIsKnown
<1>3. CASE TrustRoots!EndCycle
  BY <1>3 DEF TrustRoots!EndCycle, TrustIInv, TrustRoots!TypeOK, PlanIsFresh, VerifierIsKnown
<1> QED BY <1>1, <1>2, <1>3

-----------------------------------------------------------------------------
LEMMA TrustNextKeeps ==
  ASSUME TrustRoots!PackagesAssumption, TrustRoots!BoundsAssumption, TrustIInv,
         [TrustRoots!Next]_(TrustRoots!trustVars)
  PROVE  TrustIInv'
<1>1. CASE UNCHANGED TrustRoots!trustVars
  BY <1>1 DEF TrustRoots!trustVars, TrustIInv, TrustRoots!TypeOK, PlanIsFresh, VerifierIsKnown
<1> QED BY <1>1, EditConfigKeeps, RemoveAnchorKeeps, InstallByHandKeeps, ExpireKeeps,
           PlanBootstrapKeeps, InstallAnchorKeeps, BootstrapEndKeeps, CycleKeeps
           DEF TrustRoots!Next, TrustRoots!Bootstrap

(* What the variables hold, and the strengthening above, in every state.   *)
LEMMA TrustInvariantAlways ==
  ASSUME TrustRoots!PackagesAssumption, TrustRoots!BoundsAssumption
  PROVE  TrustRoots!Spec => []TrustIInv
<1>1. TrustRoots!Init => TrustIInv
  BY TrustInitKeeps
<1>2. TrustIInv /\ [TrustRoots!Next]_(TrustRoots!trustVars) => TrustIInv'
  BY TrustNextKeeps
<1> QED BY <1>1, <1>2, PTL DEF TrustRoots!Spec

(* The types of the variables of the trust store and of a cycle.           *)
THEOREM TrustTypeCorrect ==
  ASSUME TrustRoots!PackagesAssumption, TrustRoots!BoundsAssumption
  PROVE  TrustRoots!Spec => []TrustRoots!TypeOK
<1>1. TrustIInv => TrustRoots!TypeOK
  BY DEF TrustIInv
<1> QED BY <1>1, TrustInvariantAlways, PTL

-----------------------------------------------------------------------------
(* A bootstrap moves its plan alone, and only an upsert of it an anchor.   *)
LEMMA RootsStep ==
  ASSUME TrustIInv, [TrustRoots!Next]_(TrustRoots!trustVars), NEW b \in Bootstraps,
         planned'[b] # planned[b], NEW k \in TrustRoots!Keys, anchors[k] # None
  PROVE  anchors'[k] = anchors[k] \/ k \in raced[b]
<1>1. \/ \E c \in Bootstraps : TrustRoots!InstallAnchor(c)
      \/ anchors' = anchors \/ planned' = planned
  BY DEF TrustRoots!Next, TrustRoots!trustVars, TrustRoots!EditConfig, TrustRoots!RemoveAnchor,
     TrustRoots!InstallByHand, TrustRoots!Expire, TrustRoots!Bootstrap, TrustRoots!PlanBootstrap,
     TrustRoots!FinishBootstrap, TrustRoots!CrashBootstrap, TrustRoots!StartCycle,
     TrustRoots!ApplyPackage, TrustRoots!EndCycle
<1>2. ASSUME NEW c \in Bootstraps, TrustRoots!InstallAnchor(c)
      PROVE  anchors'[k] = anchors[k] \/ k \in raced[b]
  <2>1. PICK p \in planned[c] : TrustRoots!Upsert(p[1], p[2]) /\ planned' = [planned EXCEPT ![c] = @ \ {p}]
    BY <1>2 DEF TrustRoots!InstallAnchor
  <2>2. c = b
    BY <2>1 DEF TrustIInv, TrustRoots!TypeOK
  <2>3. planned[b] # None
    BY <1>2, <2>2 DEF TrustRoots!InstallAnchor
  <2>4. p[1] \in TrustRoots!Keys /\ (anchors[p[1]] = None \/ p[1] \in raced[b])
    BY <2>1, <2>2, <2>3, PlannedPairs DEF TrustIInv, PlanIsFresh
  <2>5. k # p[1] => anchors'[k] = anchors[k]
    BY <2>1 DEF TrustRoots!Upsert, TrustIInv, TrustRoots!TypeOK, TrustRoots!Anchors
  <2> QED BY <2>4, <2>5
<1> QED BY <1>1, <1>2

(* Only ApplyPackage moves a client forward, by one package.               *)
LEMMA AppliedStep ==
  ASSUME TrustRoots!PackagesAssumption, TrustIInv, [TrustRoots!Next]_(TrustRoots!trustVars),
         applied' > applied
  PROVE  /\ TrustRoots!ApplyPackage /\ applied' = applied + 1
         /\ SignedPackages[applied'] \in TrustRoots!SignedPackage
<1>1. TrustRoots!ApplyPackage \/ applied' = applied
  BY DEF TrustRoots!Next, TrustRoots!trustVars, TrustRoots!EditConfig, TrustRoots!RemoveAnchor,
         TrustRoots!InstallByHand, TrustRoots!Expire, TrustRoots!Bootstrap,
         TrustRoots!PlanBootstrap, TrustRoots!InstallAnchor,
         TrustRoots!FinishBootstrap, TrustRoots!CrashBootstrap, TrustRoots!StartCycle,
         TrustRoots!EndCycle
<1>2. TrustRoots!ApplyPackage
  BY <1>1 DEF TrustIInv, TrustRoots!TypeOK
<1>3. applied' = applied + 1 /\ applied < Len(SignedPackages)
  BY <1>2 DEF TrustRoots!ApplyPackage
<1> QED BY <1>2, <1>3, NextPackage DEF TrustIInv

(* A cycle applies what its anchors verify, at the moment it began.        *)
LEMMA RevocationStep ==
  ASSUME TrustRoots!PackagesAssumption, TrustIInv, [TrustRoots!Next]_(TrustRoots!trustVars),
         applied' > applied
  PROVE  TrustRoots!Verifies(known, SignedPackages[applied'])
<1>1. TrustRoots!ApplyPackage /\ applied' = applied + 1 /\ SignedPackages[applied'] \in TrustRoots!SignedPackage
  BY AppliedStep
<1>2. TrustRoots!Verifies(verifier, SignedPackages[applied']) /\ verifier # None
  BY <1>1 DEF TrustRoots!ApplyPackage
<1>3. SignedPackages[applied'].key \in PackageKeys
  BY <1>1 DEF TrustRoots!SignedPackage
<1>4. verifier[SignedPackages[applied'].key] = known[SignedPackages[applied'].key]
  BY <1>2, <1>3 DEF TrustIInv, VerifierIsKnown
<1> QED BY <1>2, <1>4 DEF TrustRoots!Verifies

LEMMA LicenseStep ==
  ASSUME TrustRoots!PackagesAssumption, TrustIInv, [TrustRoots!Next]_(TrustRoots!trustVars),
         applied' > applied,
         SignedPackages[applied'].tier # "open"
  PROVE  \E t \in tokens : /\ TrustRoots!Verifies(anchors, t) /\ t \notin clock
                           /\ t.epoch >= SignedPackages[applied'].epoch
<1>1. TrustRoots!ApplyPackage /\ applied' = applied + 1
  BY AppliedStep
<1>2. TrustRoots!Entitled(SignedPackages[applied'])
  BY <1>1 DEF TrustRoots!ApplyPackage
<1> QED BY <1>2 DEF TrustRoots!Entitled, TrustRoots!Entitles

(* What a client trusts is what an operator installed and has not revoked: *)
(* no bootstrap, however it is interrupted, replaces a root that was there *)
(* when it planned, no cycle that begins after a removal applies what was  *)
(* signed under it, and nothing licensed is applied without a license of a *)
(* key trusted at that moment.                                             *)
THEOREM TrustHoldsAlways ==
  ASSUME TrustRoots!PackagesAssumption, TrustRoots!BoundsAssumption
  PROVE  TrustRoots!Spec => TrustRoots!TrustHolds
<1>1. TrustIInv /\ [TrustRoots!Next]_(TrustRoots!trustVars) =>
        [\A b \in Bootstraps, k \in TrustRoots!Keys :
           planned'[b] # planned[b] /\ anchors[k] # None =>
             anchors'[k] = anchors[k] \/ k \in raced[b]]_(TrustRoots!trustVars)
  BY RootsStep
<1>2. TrustIInv /\ [TrustRoots!Next]_(TrustRoots!trustVars) =>
        [applied' > applied => TrustRoots!Verifies(known, SignedPackages[applied'])]_(TrustRoots!trustVars)
  BY RevocationStep
<1>3. TrustIInv /\ [TrustRoots!Next]_(TrustRoots!trustVars) =>
        [ applied' > applied /\ SignedPackages[applied'].tier # "open" =>
            \E t \in tokens : TrustRoots!Verifies(anchors,
            t) /\ t \notin clock /\ t.epoch >= SignedPackages[applied'].epoch ]_(TrustRoots!trustVars)
  BY LicenseStep
<1>4. TrustRoots!Spec => []TrustIInv
  BY TrustInvariantAlways
<1> QED BY <1>1, <1>2, <1>3, <1>4, PTL
        DEF TrustRoots!Spec, TrustRoots!TrustHolds, TrustRoots!RootsAreNotReplaced,
            TrustRoots!RevocationHolds, TrustRoots!LicenseStandsBehind

-----------------------------------------------------------------------------
(* The client: what holds of its parts holds of it.                        *)

LEMMA PartsBegin ==
  ASSUME SuiteInit
  PROVE  Init /\ Feed!Init /\ TrustRoots!Init /\ Search!Init
BY DEF SuiteInit

LEMMA PartsMove ==
  ASSUME [SuiteNext]_suiteVars
  PROVE  /\ [Next]_vars /\ [Feed!Next]_(Feed!vars)
         /\ [TrustRoots!Next]_(TrustRoots!trustVars) /\ [Search!Next]_(Search!searchVars)
<1>1. /\ Next \/ UNCHANGED vars
      /\ Feed!Next \/ UNCHANGED feedVars
      /\ TrustRoots!Next \/ UNCHANGED trustVars
      /\ Search!Next \/ UNCHANGED searchVars
  <2>1. CASE UNCHANGED suiteVars
    BY <2>1 DEF suiteVars
  <2>2. CASE SuiteNext
    BY <2>2 DEF SuiteNext, InReplica, InFeed, InTrust, InSearch
  <2> QED
    BY <2>1, <2>2
<1>2. UNCHANGED feedVars => UNCHANGED Feed!vars
  BY DEF feedVars, Feed!vars
<1>3. UNCHANGED trustVars => UNCHANGED TrustRoots!trustVars
  BY DEF trustVars, TrustRoots!trustVars
<1>4. UNCHANGED searchVars => UNCHANGED Search!searchVars
  BY DEF searchVars, Search!searchVars
<1> QED
  BY <1>1, <1>2, <1>3, <1>4

LEMMA SuiteHasParts == SuiteSpec => Spec /\ Feed!Spec /\ TrustRoots!Spec /\ Search!Spec
<1>1. SuiteInit => Init /\ Feed!Init /\ TrustRoots!Init /\ Search!Init
  BY PartsBegin
<1>2. [SuiteNext]_suiteVars =>
        /\ [Next]_vars /\ [Feed!Next]_(Feed!vars)
        /\ [TrustRoots!Next]_(TrustRoots!trustVars) /\ [Search!Next]_(Search!searchVars)
  BY PartsMove
<1> QED
  BY <1>1, <1>2, PTL DEF SuiteSpec, Spec, Feed!Spec, TrustRoots!Spec, Search!Spec

LEMMA FeedFacts == (Feed!Spec => []Feed!TypeOK) /\ (Feed!Spec => Feed!FeedIsFollowed)
BY FeedAssumption, Feed!TypeCorrect, Feed!FeedIsFollowedAlways

LEMMA TrustFacts == (TrustRoots!Spec => []TrustRoots!TypeOK) /\ (TrustRoots!Spec => TrustRoots!TrustHolds)
BY TrustAssumption, TrustTypeCorrect, TrustHoldsAlways

LEMMA SearchFacts ==
  /\ Search!Spec => []Search!TypeOK
  /\ Search!Spec => []Search!SteadyRowsShownOnce
  /\ Search!Spec => []Search!RelevanceDominates
BY SearchAssumption, Search!TypeCorrect, Search!SteadyRowsShownOnceAlways,
   Search!RelevanceDominatesAlways
   DEF Search!SearchAssumptions

(* What the variables of a client may hold, whatever it is doing: no       *)
(* generation in the registry without its corpus, no plan outside the      *)
(* feed, no verifier of unknown keys, no cursor without an open walk.      *)
THEOREM TypesOKAlways == SuiteSpec => []TypesOK
BY SuiteHasParts, TypeCorrect, FeedFacts, TrustFacts, SearchFacts, PTL DEF TypesOK

(* One-shot updates and daemons alike follow the chain of the producer     *)
(* (planner.rs, apply.rs).                                                 *)
THEOREM ClientFollowsFeed == SuiteSpec => UpdatesFollowFeed
BY SuiteHasParts, FeedFacts, PTL DEF UpdatesFollowFeed

(* A client applies what it trusts (trust.rs of the storage, the           *)
(* deployment and the daemon).                                             *)
THEOREM ClientTrusts == SuiteSpec => TrustHolds
BY SuiteHasParts, TrustFacts, PTL DEF TrustHolds

(* The pages of a search show what stood still once (search.rs), and       *)
(* authority never the less relevant first (authority.rs).                 *)
THEOREM PagesAreSoundAlways == SuiteSpec => []PagesAreSound
BY SuiteHasParts, SearchFacts, PTL DEF PagesAreSound
=============================================================================
