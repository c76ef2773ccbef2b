---------------------------- MODULE Outbox_proofs ----------------------------
(***************************************************************************)
(* The numbers of the outbox, for any number of writers, corpora and       *)
(* documents and any bounds: no window of a package ever closes over a     *)
(* change that is still to commit.                                         *)
(***************************************************************************)
EXTENDS Outbox, WellFoundedInduction, TLAPS

(* Every number in use was drawn from the sequence.                        *)
NumbersDrawn ==
  /\ \A e \in log : e.seq < nextSeq
  /\ \A w \in Writers : \A e \in logged[w] : e.seq < nextSeq
  /\ \A c \in Corpora : bpc[c] \in {"frozen", "cut"} => hi[c] < nextSeq
  /\ \A c \in Corpora : low[c] # None => low[c] < nextSeq

(* One builder holds the fence, from its acquisition to the frozen mark,   *)
(* and with it no transaction that has drawn a number is open.             *)
FenceHeld ==
  /\ \A c \in Corpora : bpc[c] \in {"fenced", "frozen"} <=> fence = c
  /\ fence # None => shared = {}
  /\ \A w \in Writers : logged[w] # {} => w \in shared

(* A builder past the freeze has a snapshot.                               *)
SnapshotTaken ==
  \A c \in Corpora : bpc[c] \in {"frozen", "cut"} => snap[c] \in Snapshot

IInv == TypeOK /\ NumbersDrawn /\ FenceHeld /\ SnapshotTaken /\ NoLateNumber

-----------------------------------------------------------------------------
(* The largest number of a bounded set.                                    *)

Less == {p \in Nat \X Nat : p[1] < p[2]}

LEMMA LessIsWellFounded == IsWellFoundedOn(Less, Nat)
<1>1. Less = OpToRel(<, Nat)
  BY DEF Less, OpToRel
<1> QED
  BY <1>1, NatLessThanWellFounded

LEMMA LeastExists ==
  ASSUME NEW T, T \subseteq Nat, T # {}
  PROVE  \E x \in T : \A y \in T : x <= y
<1>1. \E x \in T : \A y \in T : <<y, x>> \notin Less
  <2> HIDE DEF Less
  <2> QED BY LessIsWellFounded, WFMin
<1>2. ASSUME NEW x \in Nat, NEW y \in Nat, <<y, x>> \notin Less
      PROVE  x <= y
  BY <1>2 DEF Less
<1> QED
  BY <1>1, <1>2

LEMMA GreatestExists ==
  ASSUME NEW T, T \subseteq Nat, T # {}, NEW b \in Nat, \A x \in T : x < b
  PROVE  \E x \in T : \A y \in T : y <= x
<1> DEFINE Bounds == {u \in Nat : \A x \in T : x <= u}
<1>1. b \in Bounds
  OBVIOUS
<1>2. PICK m \in Bounds : \A u \in Bounds : m <= u
  BY <1>1, LeastExists
<1>3. m \in T
  <2> SUFFICES ASSUME m \notin T PROVE FALSE
    OBVIOUS
  <2>1. PICK t \in T : TRUE
    OBVIOUS
  <2>2. \A x \in T : x \in Nat /\ x <= m /\ x # m
    OBVIOUS
  <2>3. m \in Nat /\ m # 0
    BY <2>1, <2>2
  <2>4. m - 1 \in Bounds
    BY <2>2, <2>3
  <2> QED
    BY <2>3, <2>4, <1>2
<1> QED
  BY <1>3

(* The mark a builder freezes is a number that was drawn, or zero.         *)
LEMMA HighWaterDrawn ==
  ASSUME log \subseteq Entry, nextSeq \in Nat \ {0},
         \A e \in log : e.seq < nextSeq
  PROVE  /\ HighWater \in Nat /\ HighWater < nextSeq
         /\ \A e \in log : e.seq <= HighWater
<1>1. CASE log = {}
  BY <1>1 DEF HighWater
<1>2. CASE log # {}
  <2> DEFINE T == {e.seq : e \in log}
  <2>1. T \subseteq Nat /\ T # {} /\ \A x \in T : x < nextSeq
    BY <1>2 DEF Entry
  <2>2. \E x \in T : \A y \in T : y <= x
    <3> HIDE DEF T
    <3> QED BY <2>1, GreatestExists
  <2>3. \E e \in log : \A f \in log : f.seq <= e.seq
    BY <2>2
  <2>4. HighWater \in T /\ \A f \in log : f.seq <= HighWater
    BY <2>3, <1>2 DEF HighWater
  <2> QED
    BY <2>1, <2>4
<1> QED
  BY <1>1, <1>2

-----------------------------------------------------------------------------
(* Type correctness.                                                       *)

LEMMA InitTypeOK == Init => TypeOK
  BY BoundsAssumption DEF Init, TypeOK, Rows, NoRows, Row, Cells

LEMMA ShortSequences ==
  ASSUME NEW S, NEW a \in S, NEW b \in S
  PROVE  <<a>> \in Seq(S) /\ <<a, b>> \in Seq(S)
  OBVIOUS

LEMMA ScopesType == \A k \in Kinds : Scopes(k) \in Seq(Tables)
<1> TAKE k \in Kinds
<1> DEFINE S == Tables
<1>1. /\ "documents" \in S /\ "chunks" \in S /\ "chunk_embeddings" \in S
      /\ "decision_zones" \in S /\ "zone_units" \in S
      /\ "zone_unit_embeddings" \in S
  BY DEF Tables
<1> HIDE DEF S
<1>2. /\ <<"documents">> \in Seq(S) /\ <<"decision_zones">> \in Seq(S)
      /\ <<"zone_units">> \in Seq(S)
      /\ <<"documents", "chunk_embeddings">> \in Seq(S)
      /\ <<"chunks", "chunk_embeddings">> \in Seq(S)
      /\ <<"decision_zones", "zone_units">> \in Seq(S)
      /\ <<"zone_units", "zone_unit_embeddings">> \in Seq(S)
  BY <1>1, ShortSequences
<1>3. Scopes(k) \in Seq(S)
  BY <1>2, KindsAssumption DEF Scopes
<1> QED
  BY <1>3 DEF S

LEMMA WrittenTables ==
  \A k \in Kinds : Written(k) \subseteq Tables /\ Deleted(k) \subseteq Tables
  BY KindsAssumption DEF Written, Deleted, Tables

LEMMA TouchedCells == \A m \in Mutation : Touched(m) \subseteq Cells
  BY WrittenTables DEF Touched, Cells, Mutation

LEMMA ValueType ==
  ASSUME NEW m \in Mutation, NEW x
  PROVE  Value(m, x) \in Row
  BY BoundsAssumption DEF Value, Row, Mutation

LEMMA SeenType ==
  ASSUME TypeOK, NEW w \in Writers
  PROVE  Seen(w) \in Rows
  BY DEF TypeOK, Seen, Rows

LEMMA AfterPackageType ==
  ASSUME TypeOK, NEW c \in Corpora, snap[c] \in Snapshot
  PROVE  AfterPackage(c) \in Rows
<1>1. snap[c].rows \in Rows
  BY DEF Snapshot
<1>2. replica[c] \in Rows
  BY DEF TypeOK
<1>3. 0 \in Row
  BY BoundsAssumption DEF Row
<1> QED
  BY <1>1, <1>2, <1>3 DEF AfterPackage, Rows

LEMMA EndTransactionType ==
  ASSUME TypeOK, NEW w \in Writers, EndTransaction(w)
  PROVE  /\ cur' \in [Writers -> {None} \cup Mutation]
         /\ todo' \in [Writers -> Seq(Tables)]
         /\ DOMAIN dirty' = Writers
         /\ \A v \in Writers : /\ DOMAIN dirty'[v] \subseteq Cells
                               /\ \A x \in DOMAIN dirty'[v] : dirty'[v][x] \in Row
         /\ logged' \in [Writers -> SUBSET Entry]
         /\ count' \in [Writers -> 0..OpsPerTx]
         /\ shared' \subseteq Writers
  BY BoundsAssumption DEF TypeOK, EndTransaction

LEMMA BeginMutationType ==
  ASSUME TypeOK, NEW w \in Writers, NEW kind \in Kinds, NEW d \in Docs,
         BeginMutation(w, kind, d)
  PROVE  TypeOK'
<1>1. ops' \in 0..MaxOps /\ ops + 1 \in 1..MaxOps
  BY BoundsAssumption DEF TypeOK, BeginMutation
<1>2. [kind |-> kind, doc |-> d, n |-> ops + 1] \in Mutation
  BY <1>1 DEF Mutation
<1>3. cur' \in [Writers -> {None} \cup Mutation]
  BY <1>2 DEF TypeOK, BeginMutation
<1>4. count' \in [Writers -> 0..OpsPerTx]
  BY BoundsAssumption DEF TypeOK, BeginMutation
<1> QED
  BY <1>1, <1>3, <1>4 DEF TypeOK, BeginMutation, building

LEMMA MutateType ==
  ASSUME TypeOK, NEW w \in Writers, Mutate(w)
  PROVE  TypeOK'
<1>1. cur[w] \in Mutation
  BY DEF TypeOK, Mutate, Waits
<1>2. todo' \in [Writers -> Seq(Tables)]
  <2>1. Scopes(cur[w].kind) \in Seq(Tables)
    BY <1>1, ScopesType DEF Mutation
  <2> QED BY <2>1 DEF TypeOK, Mutate
<1>3. Touched(cur[w]) \subseteq Cells
  BY <1>1, TouchedCells
<1>4. \A x : Value(cur[w], x) \in Row
  BY <1>1, ValueType
<1>5. /\ DOMAIN dirty' = Writers
      /\ \A v \in Writers :
           /\ DOMAIN dirty'[v] \subseteq Cells
           /\ \A x \in DOMAIN dirty'[v] : dirty'[v][x] \in Row
  BY <1>3, <1>4 DEF TypeOK, Mutate
<1> QED
  BY <1>2, <1>5 DEF TypeOK, Mutate, producer, building

LEMMA EmitChangeType ==
  ASSUME TypeOK, NEW w \in Writers, EmitChange(w)
  PROVE  TypeOK'
<1>1. cur[w] \in Mutation /\ todo[w] \in Seq(Tables) /\ todo[w] # <<>>
  BY DEF TypeOK, EmitChange
<1>2. Head(todo[w]) \in Tables /\ Tail(todo[w]) \in Seq(Tables)
  BY <1>1
<1>3. [seq |-> nextSeq, table |-> Head(todo[w]), doc |-> cur[w].doc] \in Entry
  BY <1>1, <1>2 DEF Entry, Mutation, TypeOK
<1>4. logged' \in [Writers -> SUBSET Entry]
  BY <1>3 DEF TypeOK, EmitChange
<1>5. todo' \in [Writers -> Seq(Tables)]
  BY <1>2 DEF TypeOK, EmitChange
<1>6. cur' \in [Writers -> {None} \cup Mutation]
  BY DEF TypeOK, EmitChange
<1>7. nextSeq' \in Nat \ {0} /\ shared' \subseteq Writers
  BY DEF TypeOK, EmitChange
<1> QED
  BY <1>4, <1>5, <1>6, <1>7 DEF TypeOK, EmitChange, building

LEMMA CommitType ==
  ASSUME TypeOK, NEW w \in Writers, Commit(w)
  PROVE  TypeOK'
<1>1. db' \in Rows
  BY SeenType DEF Commit
<1>2. log' \subseteq Entry
  BY DEF TypeOK, Commit
<1> QED
  BY <1>1, <1>2, EndTransactionType DEF TypeOK, Commit, building

LEMMA RollbackType ==
  ASSUME TypeOK, NEW w \in Writers, Rollback(w)
  PROVE  TypeOK'
  BY EndTransactionType DEF TypeOK, Rollback, producer, building

LEMMA BuilderType ==
  ASSUME TypeOK, NumbersDrawn, SnapshotTaken, NEW c \in Corpora,
         \/ RequestFence(c) \/ AcquireFence(c) \/ Freeze(c) \/ ReleaseFence(c)
         \/ CatalogPackage(c) \/ BuildFails(c)
  PROVE  TypeOK'
<1>1. CASE RequestFence(c)
  BY <1>1 DEF TypeOK, RequestFence, producer, session
<1>2. CASE AcquireFence(c)
  BY <1>2 DEF TypeOK, AcquireFence, producer, session
<1>3. CASE Freeze(c)
  <2>1. HighWater \in Nat
    BY HighWaterDrawn DEF TypeOK, NumbersDrawn
  <2>2. [rows |-> db, log |-> log] \in Snapshot
    BY DEF TypeOK, Snapshot
  <2> QED
    BY <1>3, <2>1, <2>2 DEF TypeOK, Freeze, producer, session
<1>4. CASE ReleaseFence(c)
  BY <1>4 DEF TypeOK, ReleaseFence, producer, session
<1>5. CASE CatalogPackage(c)
  <2>1. AfterPackage(c) \in Rows
    BY <1>5, AfterPackageType DEF CatalogPackage, SnapshotTaken
  <2>2. low' \in [Corpora -> {None} \cup Nat]
    BY <1>5 DEF TypeOK, CatalogPackage
  <2>3. replica' \in [Corpora -> Rows]
    BY <1>5, <2>1 DEF TypeOK, CatalogPackage
  <2> QED
    BY <1>5, <2>2, <2>3 DEF TypeOK, CatalogPackage, producer, session
<1>6. CASE BuildFails(c)
  <2>1. failures' \in 0..MaxFailures
    BY <1>6, BoundsAssumption DEF TypeOK, BuildFails
  <2> QED
    BY <1>6, <2>1 DEF TypeOK, BuildFails, producer, session
<1> QED
  BY <1>1, <1>2, <1>3, <1>4, <1>5, <1>6

-----------------------------------------------------------------------------
(* The numbers.                                                            *)

Numbers == NumbersDrawn /\ FenceHeld /\ SnapshotTaken /\ NoLateNumber

(* A number is drawn while no builder is between its fence and its mark.   *)
LEMMA EmitChangeNumbers ==
  ASSUME IInv, NEW w \in Writers, EmitChange(w)
  PROVE  Numbers'
<1> DEFINE entry == [seq |-> nextSeq, table |-> Head(todo[w]), doc |-> cur[w].doc]
<1>1. /\ nextSeq \in Nat /\ nextSeq' = nextSeq + 1
      /\ \A v \in Writers : logged'[v] \subseteq logged[v] \cup {entry}
      /\ \A v \in Writers : v # w => logged'[v] = logged[v]
      /\ entry.seq = nextSeq
  BY DEF IInv, TypeOK, EmitChange
<1> HIDE DEF entry
<1>2. /\ \A e \in log : e.seq \in Nat
      /\ \A v \in Writers : \A e \in logged[v] : e.seq \in Nat
      /\ \A c \in Corpora : hi[c] \in Nat
      /\ \A c \in Corpora : low[c] # None => low[c] \in Nat
  BY DEF IInv, TypeOK, Entry
<1>3. UNCHANGED <<log, bpc, hi, low, snap, fence>> /\ shared' = shared \cup {w}
      /\ fence = None
  BY DEF EmitChange, building, SharedGranted
<1>4. NumbersDrawn'
  BY <1>1, <1>2, <1>3 DEF IInv, NumbersDrawn
<1>5. FenceHeld'
  BY <1>1, <1>3 DEF IInv, FenceHeld
<1>6. SnapshotTaken'
  BY <1>3 DEF IInv, SnapshotTaken
<1>7. NoLateNumber'
  BY <1>1, <1>2, <1>3 DEF IInv, NumbersDrawn, NoLateNumber
<1> QED
  BY <1>4, <1>5, <1>6, <1>7 DEF Numbers

LEMMA EndTransactionNumbers ==
  ASSUME IInv, NEW w \in Writers, EndTransaction(w),
         log' = log \/ log' = log \cup logged[w],
         UNCHANGED <<nextSeq, fence, building>>
  PROVE  Numbers'
<1>1. /\ \A v \in Writers : logged'[v] \subseteq logged[v]
      /\ \A v \in Writers : v # w => logged'[v] = logged[v]
      /\ logged'[w] = {}
      /\ shared' = shared \ {w}
  BY DEF IInv, TypeOK, EndTransaction
<1>2. NumbersDrawn'
  BY <1>1 DEF IInv, NumbersDrawn, building
<1>3. FenceHeld'
  BY <1>1 DEF IInv, FenceHeld, building
<1>4. SnapshotTaken' /\ NoLateNumber'
  BY <1>1 DEF IInv, SnapshotTaken, NoLateNumber, building
<1> QED
  BY <1>2, <1>3, <1>4 DEF Numbers

(* The mark is frozen while no open transaction has a number.              *)
LEMMA FreezeNumbers ==
  ASSUME IInv, NEW c \in Corpora, Freeze(c)
  PROVE  Numbers'
<1>1. HighWater \in Nat /\ HighWater < nextSeq
  BY HighWaterDrawn DEF IInv, TypeOK, NumbersDrawn
<1>2. [rows |-> db, log |-> log] \in Snapshot
  BY DEF IInv, TypeOK, Snapshot
<1>3. \A w \in Writers : logged[w] = {}
  BY NoneAssumption DEF IInv, FenceHeld, Freeze
<1>4. /\ UNCHANGED <<log, nextSeq, logged, shared, fence, low>>
      /\ snap' = [snap EXCEPT ![c] = [rows |-> db, log |-> log]]
      /\ hi' = [hi EXCEPT ![c] = HighWater]
      /\ bpc[c] = "fenced" /\ bpc' = [bpc EXCEPT ![c] = "frozen"]
  BY DEF Freeze, producer, session
<1>5. /\ hi \in [Corpora -> Nat]
      /\ bpc \in [Corpora -> {"idle", "wait", "fenced", "frozen", "cut"}]
      /\ snap \in [Corpora -> {None} \cup Snapshot]
  BY DEF IInv, TypeOK
<1> HIDE DEF HighWater
<1>6. NumbersDrawn'
  BY <1>1, <1>4, <1>5 DEF IInv, NumbersDrawn
<1>7. FenceHeld'
  BY <1>4, <1>5 DEF IInv, FenceHeld
<1>8. SnapshotTaken'
  BY <1>2, <1>4, <1>5 DEF IInv, SnapshotTaken
<1>9. NoLateNumber'
  BY <1>3, <1>4, <1>5 DEF IInv, NoLateNumber
<1> QED
  BY <1>6, <1>7, <1>8, <1>9 DEF Numbers

(* A build that ends, in a package or in an error, leaves its mark below   *)
(* every number still to come.                                             *)
LEMMA BuildEndsNumbers ==
  ASSUME IInv, NEW c \in Corpora, CatalogPackage(c) \/ BuildFails(c)
  PROVE  Numbers'
<1>1. /\ UNCHANGED <<log, nextSeq, logged, shared>>
      /\ bpc' = [bpc EXCEPT ![c] = "idle"]
      /\ hi' = [hi EXCEPT ![c] = 0]
      /\ snap' = [snap EXCEPT ![c] = None]
      /\ fence' = IF fence = c THEN None ELSE fence
  <2>1. CASE CatalogPackage(c)
    <3>1. fence # c
      BY <2>1 DEF CatalogPackage, IInv, FenceHeld
    <3> QED
      BY <2>1, <3>1 DEF CatalogPackage, producer, session
  <2>2. CASE BuildFails(c)
    BY <2>2 DEF BuildFails, producer, session
  <2> QED
    BY <2>1, <2>2
<1>2. /\ hi \in [Corpora -> Nat] /\ low \in [Corpora -> {None} \cup Nat]
      /\ bpc \in [Corpora -> {"idle", "wait", "fenced", "frozen", "cut"}]
      /\ snap \in [Corpora -> {None} \cup Snapshot]
  BY DEF IInv, TypeOK
<1>3. \/ low' = low
      \/ bpc[c] = "cut" /\ low' = [low EXCEPT ![c] = hi[c]]
  BY DEF CatalogPackage, BuildFails
<1>4. NumbersDrawn'
  BY <1>1, <1>2, <1>3 DEF IInv, NumbersDrawn
<1>5. FenceHeld'
  BY <1>1, <1>2, NoneAssumption DEF IInv, FenceHeld
<1>6. SnapshotTaken'
  BY <1>1, <1>2 DEF IInv, SnapshotTaken
<1>7. NoLateNumber'
  BY <1>1, <1>2, <1>3 DEF IInv, NoLateNumber
<1> QED
  BY <1>4, <1>5, <1>6, <1>7 DEF Numbers

LEMMA InitIInv == Init => IInv
<1> SUFFICES ASSUME Init PROVE IInv
  OBVIOUS
<1>1. NumbersDrawn /\ SnapshotTaken /\ NoLateNumber
  BY DEF Init, NumbersDrawn, SnapshotTaken, NoLateNumber
<1>2. FenceHeld
  BY NoneAssumption DEF Init, FenceHeld
<1> QED
  BY <1>1, <1>2, InitTypeOK DEF IInv

LEMMA NextIInv == IInv /\ [Next]_vars => IInv'
<1> SUFFICES ASSUME IInv, [Next]_vars PROVE TypeOK' /\ Numbers'
  BY DEF IInv, Numbers
<1>1. ASSUME NEW w \in Writers, NEW kind \in Kinds, NEW d \in Docs,
             BeginMutation(w, kind, d)
      PROVE  TypeOK' /\ Numbers'
  BY <1>1, BeginMutationType
     DEF BeginMutation, building, IInv, Numbers, NumbersDrawn, FenceHeld,
         SnapshotTaken, NoLateNumber
<1>2. ASSUME NEW w \in Writers, Mutate(w)
      PROVE  TypeOK' /\ Numbers'
  BY <1>2, MutateType
     DEF Mutate, producer, building, IInv, Numbers, NumbersDrawn, FenceHeld,
         SnapshotTaken, NoLateNumber
<1>3. ASSUME NEW w \in Writers, EmitChange(w)
      PROVE  TypeOK' /\ Numbers'
  BY <1>3, EmitChangeType, EmitChangeNumbers DEF IInv
<1>4. ASSUME NEW w \in Writers, Commit(w)
      PROVE  TypeOK' /\ Numbers'
  BY <1>4, CommitType, EndTransactionNumbers DEF IInv, Commit
<1>5. ASSUME NEW w \in Writers, Rollback(w)
      PROVE  TypeOK' /\ Numbers'
  BY <1>5, RollbackType, EndTransactionNumbers DEF IInv, Rollback, producer
<1>6. ASSUME NEW c \in Corpora,
             RequestFence(c) \/ AcquireFence(c) \/ ReleaseFence(c)
      PROVE  TypeOK' /\ Numbers'
  <2>1. TypeOK'
    BY <1>6, BuilderType DEF IInv
  <2>2. /\ bpc \in [Corpora -> {"idle", "wait", "fenced", "frozen", "cut"}]
        /\ UNCHANGED <<log, nextSeq, logged, shared, hi, low, snap>>
    BY <1>6 DEF IInv, TypeOK, RequestFence, AcquireFence, ReleaseFence,
                producer, session
  <2>3. CASE RequestFence(c)
    BY <2>1, <2>2, <2>3 DEF RequestFence, IInv, Numbers, NumbersDrawn, FenceHeld,
                            SnapshotTaken, NoLateNumber
  <2>4. CASE AcquireFence(c)
    BY <2>1, <2>2, <2>4, NoneAssumption
       DEF AcquireFence, IInv, Numbers, NumbersDrawn, FenceHeld,
           SnapshotTaken, NoLateNumber
  <2>5. CASE ReleaseFence(c)
    BY <2>1, <2>2, <2>5, NoneAssumption
       DEF ReleaseFence, IInv, Numbers, NumbersDrawn, FenceHeld,
           SnapshotTaken, NoLateNumber
  <2> QED
    BY <1>6, <2>3, <2>4, <2>5
<1>7. ASSUME NEW c \in Corpora, Freeze(c)
      PROVE  TypeOK' /\ Numbers'
  BY <1>7, BuilderType, FreezeNumbers DEF IInv
<1>8. ASSUME NEW c \in Corpora, CatalogPackage(c) \/ BuildFails(c)
      PROVE  TypeOK' /\ Numbers'
  BY <1>8, BuilderType, BuildEndsNumbers DEF IInv
<1>9. CASE UNCHANGED vars
  BY <1>9 DEF vars, IInv, Numbers, TypeOK, NumbersDrawn, FenceHeld, SnapshotTaken,
              NoLateNumber
<1> QED
  BY <1>1, <1>2, <1>3, <1>4, <1>5, <1>6, <1>7, <1>8, <1>9 DEF Next, WriterStep

LEMMA InvariantHolds == Spec => []IInv
<1> QED
  BY InitIInv, NextIInv, PTL DEF Spec

(* Every variable keeps its type.                                          *)
THEOREM TypeCorrect == Spec => []TypeOK
<1>1. IInv => TypeOK
  BY DEF IInv
<1> QED
  BY <1>1, InvariantHolds, PTL

(* No transaction commits a change under a number that a builder has       *)
(* already frozen or packaged past: acquire_outbox_fence and emit_change.  *)
THEOREM NoLateNumberAlways == Spec => []NoLateNumber
<1>1. IInv => NoLateNumber
  BY DEF IInv
<1> QED
  BY <1>1, InvariantHolds, PTL

(* The log up to the mark of the last package never changes, so that the   *)
(* windows (low, hi] of the packages partition it.                         *)
THEOREM SettledBelowLowAlways == Spec => SettledBelowLow
<1> DEFINE Settled == \A c \in Corpora : low[c] # None =>
             {e \in log' : e.seq <= low[c]} = {e \in log : e.seq <= low[c]}
<1>1. IInv /\ [Next]_vars => [Settled]_vars
  <2> SUFFICES ASSUME IInv, Next PROVE Settled
    BY DEF vars
  <2>1. CASE log' = log
    BY <2>1
  <2>2. CASE \E w \in Writers : log' = log \cup logged[w]
    <3> SUFFICES ASSUME NEW c \in Corpora, low[c] # None
                 PROVE  {e \in log' : e.seq <= low[c]} = {e \in log : e.seq <= low[c]}
      OBVIOUS
    <3>1. PICK w \in Writers : log' = log \cup logged[w]
      BY <2>2
    <3>2. \A e \in logged[w] : low[c] < e.seq
      BY DEF IInv, NoLateNumber
    <3>3. low[c] \in Nat /\ \A e \in logged[w] : e.seq \in Nat
      BY DEF IInv, TypeOK, Entry
    <3> QED
      BY <3>1, <3>2, <3>3
  <2>3. log' = log \/ \E w \in Writers : log' = log \cup logged[w]
    BY DEF Next, WriterStep, BeginMutation, Mutate, EmitChange, Commit, Rollback,
           RequestFence, AcquireFence, Freeze, ReleaseFence, CatalogPackage,
           BuildFails, producer
  <2> QED
    BY <2>1, <2>2, <2>3
<1> QED
  BY <1>1, InvariantHolds, PTL DEF Spec, SettledBelowLow

-----------------------------------------------------------------------------
(* The package.                                                            *)

Covers(e, x) == e.doc = x[2] /\ x[1] \in Carried(e)

(* What an open transaction has written is logged or about to be.          *)
DirtyCovered ==
  \A w \in Writers : \A x \in DOMAIN dirty[w] :
    \/ \E e \in logged[w] : Covers(e, x)
    \/ /\ cur[w] # None /\ x[2] = cur[w].doc
       /\ \E i \in 1..Len(todo[w]) : x[1] \in Carried([table |-> todo[w][i]])

(* Where rows a and b of corpus c differ, the log says so above number n.  *)
LoggedAbove(c, a, b, n) ==
  \A x \in Cells : CorpusOf[x[2]] = c =>
    a[x] = b[x] \/ \E e \in log : n < e.seq /\ Covers(e, x)

ReplicaCovered ==
  \A c \in Corpora : low[c] # None => LoggedAbove(c, replica[c], db, low[c])

FrozenCovered ==
  \A c \in Corpora : bpc[c] \in {"frozen", "cut"} =>
    LoggedAbove(c, snap[c].rows, db, hi[c])

WindowCovers ==
  \A c \in Corpora : bpc[c] \in {"frozen", "cut"} /\ low[c] # None =>
    \A x \in Cells : CorpusOf[x[2]] = c =>
      replica[c][x] = snap[c].rows[x] \/ \E e \in Window(c) : Covers(e, x)

Coverage == DirtyCovered /\ ReplicaCovered /\ FrozenCovered /\ WindowCovers

LEMMA CarriedTables ==
  /\ Carried([table |-> "documents"]) =
       {"documents", "graph_edges", "chunks", "chunk_embeddings"}
  /\ Carried([table |-> "chunks"]) = {"chunks", "chunk_embeddings"}
  /\ Carried([table |-> "chunk_embeddings"]) = {"chunk_embeddings"}
  /\ Carried([table |-> "decision_zones"]) = {"decision_zones"}
  /\ Carried([table |-> "zone_units"]) = {"zone_units", "zone_unit_embeddings"}
  BY DEF Carried

(* The scopes a mutation logs carry every table it changes.                *)
LEMMA ScopesCover ==
  ASSUME NEW k \in Kinds, NEW t \in Written(k) \cup Deleted(k)
  PROVE  \E i \in 1..Len(Scopes(k)) : t \in Carried([table |-> Scopes(k)[i]])
<1>1. CASE k = "project"
  <2>1. Scopes(k) = <<"documents">>
    BY <1>1 DEF Scopes
  <2>2. t \in {"documents", "graph_edges", "chunks"}
    BY <1>1 DEF Written, Deleted
  <2> QED BY <2>1, <2>2, CarriedTables
<1>2. CASE k = "backfill"
  <2>1. Scopes(k) = <<"documents", "chunk_embeddings">>
    BY <1>2 DEF Scopes
  <2>2. t \in {"documents", "chunks", "chunk_embeddings"}
    BY <1>2 DEF Written, Deleted
  <2>3. 1 \in 1..Len(Scopes(k)) /\ Scopes(k)[1] = "documents"
    BY <2>1
  <2> QED BY <2>2, <2>3, CarriedTables
<1>3. CASE k = "embed"
  <2>1. Scopes(k) = <<"chunks", "chunk_embeddings">>
    BY <1>3 DEF Scopes
  <2>2. t \in {"chunks", "chunk_embeddings"}
    BY <1>3 DEF Written, Deleted
  <2>3. 1 \in 1..Len(Scopes(k)) /\ Scopes(k)[1] = "chunks"
    BY <2>1
  <2> QED BY <2>2, <2>3, CarriedTables
<1>4. CASE k = "zones"
  <2>1. Scopes(k) = <<"decision_zones">>
    BY <1>4 DEF Scopes
  <2>2. t \in {"decision_zones"}
    BY <1>4 DEF Written, Deleted
  <2> QED BY <2>1, <2>2, CarriedTables
<1>5. CASE k = "no_zones"
  <2>1. Scopes(k) = <<"decision_zones", "zone_units">>
    BY <1>5 DEF Scopes
  <2>2. t \in {"decision_zones", "zone_units", "zone_unit_embeddings"}
    BY <1>5 DEF Written, Deleted
  <2>3. /\ 1 \in 1..Len(Scopes(k)) /\ Scopes(k)[1] = "decision_zones"
        /\ 2 \in 1..Len(Scopes(k)) /\ Scopes(k)[2] = "zone_units"
    BY <2>1
  <2> QED BY <2>2, <2>3, CarriedTables
<1>6. CASE k = "derive"
  <2>1. Scopes(k) = <<"zone_units">>
    BY <1>6 DEF Scopes
  <2>2. t \in {"zone_units", "zone_unit_embeddings"}
    BY <1>6 DEF Written, Deleted
  <2> QED BY <2>1, <2>2, CarriedTables
<1>7. CASE k = "embed_zones"
  <2>1. Scopes(k) = <<"zone_units", "zone_unit_embeddings">>
    BY <1>7 DEF Scopes
  <2>2. t \in {"zone_units", "zone_unit_embeddings"}
    BY <1>7 DEF Written, Deleted
  <2>3. 1 \in 1..Len(Scopes(k)) /\ Scopes(k)[1] = "zone_units"
    BY <2>1
  <2> QED BY <2>2, <2>3, CarriedTables
<1> QED
  BY <1>1, <1>2, <1>3, <1>4, <1>5, <1>6, <1>7, KindsAssumption

LEMMA MutateCoverage ==
  ASSUME IInv, Coverage, NEW w \in Writers, Mutate(w)
  PROVE  Coverage'
<1>1. cur[w] \in Mutation /\ cur[w] # None /\ todo[w] = <<>>
  BY DEF IInv, TypeOK, Mutate, Waits
<1>2. ASSUME NEW x \in Touched(cur[w])
      PROVE  /\ x[2] = cur[w].doc
             /\ \E i \in 1..Len(Scopes(cur[w].kind)) :
                  x[1] \in Carried([table |-> Scopes(cur[w].kind)[i]])
  <2>1. x[1] \in Written(cur[w].kind) \cup Deleted(cur[w].kind) /\ x[2] = cur[w].doc
    BY DEF Touched
  <2>2. cur[w].kind \in Kinds
    BY <1>1 DEF Mutation
  <2> QED
    BY <2>1, <2>2, ScopesCover
<1>3. /\ DOMAIN dirty'[w] = DOMAIN dirty[w] \cup Touched(cur[w])
      /\ \A v \in Writers : v # w => dirty'[v] = dirty[v] /\ todo'[v] = todo[v]
      /\ todo'[w] = Scopes(cur[w].kind)
      /\ cur' = cur /\ logged' = logged
  BY DEF IInv, TypeOK, Mutate
<1>4. \A x \in DOMAIN dirty[w] : \E e \in logged[w] : Covers(e, x)
  <2>1. 1..Len(todo[w]) = {}
    BY <1>1
  <2> QED
    BY <2>1 DEF Coverage, DirtyCovered
<1>5. DirtyCovered'
  <2> SUFFICES ASSUME NEW v \in Writers, NEW x \in DOMAIN dirty'[v]
               PROVE  \/ \E e \in logged[v] : Covers(e, x)
                      \/ /\ cur[v] # None /\ x[2] = cur[v].doc
                         /\ \E i \in 1..Len(todo'[v]) :
                              x[1] \in Carried([table |-> todo'[v][i]])
    BY <1>3 DEF DirtyCovered
  <2>1. CASE v # w
    BY <1>3, <2>1 DEF Coverage, DirtyCovered
  <2>2. CASE v = w /\ x \in Touched(cur[w])
    BY <1>1, <1>2, <1>3, <2>2
  <2>3. CASE v = w /\ x \in DOMAIN dirty[w]
    BY <1>4, <2>3
  <2> QED
    BY <1>3, <2>1, <2>2, <2>3
<1>6. ReplicaCovered' /\ FrozenCovered' /\ WindowCovers'
  BY DEF Mutate, producer, building, Coverage, ReplicaCovered, FrozenCovered,
         WindowCovers, LoggedAbove, Window
<1> QED
  BY <1>5, <1>6 DEF Coverage

LEMMA EmitChangeCoverage ==
  ASSUME IInv, Coverage, NEW w \in Writers, EmitChange(w)
  PROVE  Coverage'
<1> DEFINE entry == [seq |-> nextSeq, table |-> Head(todo[w]), doc |-> cur[w].doc]
<1>1. /\ cur[w] # None /\ todo[w] \in Seq(Tables) /\ todo[w] # <<>>
      /\ dirty' = dirty
      /\ logged'[w] = logged[w] \cup {entry}
      /\ todo'[w] = Tail(todo[w])
      /\ cur'[w] = IF Len(todo[w]) = 1 THEN None ELSE cur[w]
      /\ \A v \in Writers : v # w =>
           todo'[v] = todo[v] /\ logged'[v] = logged[v] /\ cur'[v] = cur[v]
  BY DEF IInv, TypeOK, EmitChange
<1>2. entry.doc = cur[w].doc /\ Carried(entry) = Carried([table |-> todo[w][1]])
  BY <1>1 DEF Carried
<1> HIDE DEF entry
<1>3. DirtyCovered'
  <2> SUFFICES ASSUME NEW v \in Writers, NEW x \in DOMAIN dirty[v]
               PROVE  \/ \E e \in logged'[v] : Covers(e, x)
                      \/ /\ cur'[v] # None /\ x[2] = cur'[v].doc
                         /\ \E i \in 1..Len(todo'[v]) :
                              x[1] \in Carried([table |-> todo'[v][i]])
    BY <1>1 DEF DirtyCovered
  <2>1. \/ \E e \in logged[v] : Covers(e, x)
        \/ /\ cur[v] # None /\ x[2] = cur[v].doc
           /\ \E i \in 1..Len(todo[v]) : x[1] \in Carried([table |-> todo[v][i]])
    BY DEF Coverage, DirtyCovered
  <2>2. CASE v # w
    BY <1>1, <2>1, <2>2
  <2>3. CASE v = w /\ \E e \in logged[w] : Covers(e, x)
    BY <1>1, <2>3
  <2>4. ASSUME v = w, x[2] = cur[w].doc, NEW i \in 1..Len(todo[w]),
               x[1] \in Carried([table |-> todo[w][i]])
        PROVE  \/ \E e \in logged'[w] : Covers(e, x)
               \/ /\ cur'[w] # None /\ x[2] = cur'[w].doc
                  /\ \E j \in 1..Len(todo'[w]) :
                       x[1] \in Carried([table |-> todo'[w][j]])
    <3>1. CASE i = 1
      BY <1>1, <1>2, <2>4, <3>1 DEF Covers
    <3>2. CASE i # 1
      <4>1. /\ Len(todo[w]) # 1
            /\ i - 1 \in 1..Len(Tail(todo[w]))
            /\ Tail(todo[w])[i - 1] = todo[w][i]
        BY <1>1, <2>4, <3>2
      <4> QED
        BY <1>1, <2>4, <4>1
    <3> QED
      BY <3>1, <3>2
  <2> QED
    BY <2>1, <2>2, <2>3, <2>4
<1>4. ReplicaCovered' /\ FrozenCovered' /\ WindowCovers'
  BY DEF EmitChange, building, Coverage, ReplicaCovered, FrozenCovered,
         WindowCovers, LoggedAbove, Window
<1> QED
  BY <1>3, <1>4 DEF Coverage

(* A commit makes rows and entries visible at once, and the entries lie    *)
(* above every mark.                                                       *)
LEMMA CommitCoverage ==
  ASSUME IInv, Coverage, NEW w \in Writers, Commit(w)
  PROVE  Coverage'
<1>1. /\ db' = Seen(w) /\ log' = log \cup logged[w] /\ cur[w] = None
      /\ dirty'[w] = <<>>
      /\ \A v \in Writers : v # w => /\ todo'[v] = todo[v] /\ logged'[v] = logged[v]
                                     /\ cur'[v] = cur[v] /\ dirty'[v] = dirty[v]
      /\ UNCHANGED <<bpc, snap, hi, low, replica>>
  BY DEF IInv, TypeOK, Commit, EndTransaction, building
<1>2. DirtyCovered'
  <2>1. DOMAIN dirty'[w] = {}
    BY <1>1
  <2> QED
    BY <1>1, <2>1 DEF Coverage, DirtyCovered
<1>3. ASSUME NEW c \in Corpora, NEW a, NEW n, LoggedAbove(c, a, db, n),
             \A e \in logged[w] : n < e.seq
      PROVE  \A x \in Cells : CorpusOf[x[2]] = c =>
               a[x] = db'[x] \/ \E e \in log' : n < e.seq /\ Covers(e, x)
  <2> SUFFICES ASSUME NEW x \in Cells, CorpusOf[x[2]] = c
               PROVE  a[x] = db'[x] \/ \E e \in log' : n < e.seq /\ Covers(e, x)
    OBVIOUS
  <2>1. CASE x \in DOMAIN dirty[w]
    <3>1. \E e \in logged[w] : Covers(e, x)
      BY <1>1, <2>1 DEF Coverage, DirtyCovered
    <3> QED
      BY <1>1, <1>3, <3>1
  <2>2. CASE x \notin DOMAIN dirty[w]
    <3>1. db'[x] = db[x]
      BY <1>1, <2>2 DEF Seen
    <3> QED
      BY <1>1, <1>3, <3>1 DEF LoggedAbove
  <2> QED
    BY <2>1, <2>2
<1>4. ReplicaCovered'
  <2> SUFFICES ASSUME NEW c \in Corpora, low[c] # None
               PROVE  \A x \in Cells : CorpusOf[x[2]] = c =>
                        \/ replica[c][x] = db'[x]
                        \/ \E e \in log' : low[c] < e.seq /\ Covers(e, x)
    BY <1>1 DEF ReplicaCovered, LoggedAbove
  <2>1. LoggedAbove(c, replica[c], db, low[c])
    BY DEF Coverage, ReplicaCovered
  <2>2. \A e \in logged[w] : low[c] < e.seq
    BY DEF IInv, NoLateNumber
  <2> QED
    BY <1>3, <2>1, <2>2
<1>5. FrozenCovered'
  <2> SUFFICES ASSUME NEW c \in Corpora, bpc[c] \in {"frozen", "cut"}
               PROVE  \A x \in Cells : CorpusOf[x[2]] = c =>
                        \/ snap[c].rows[x] = db'[x]
                        \/ \E e \in log' : hi[c] < e.seq /\ Covers(e, x)
    BY <1>1 DEF FrozenCovered, LoggedAbove
  <2>1. LoggedAbove(c, snap[c].rows, db, hi[c])
    BY DEF Coverage, FrozenCovered
  <2>2. \A e \in logged[w] : hi[c] < e.seq
    BY DEF IInv, NoLateNumber
  <2> QED
    BY <1>3, <2>1, <2>2
<1>6. WindowCovers'
  BY <1>1 DEF Coverage, WindowCovers, Window
<1> QED
  BY <1>2, <1>4, <1>5, <1>6 DEF Coverage

LEMMA RollbackCoverage ==
  ASSUME IInv, Coverage, NEW w \in Writers, Rollback(w)
  PROVE  Coverage'
<1>1. /\ dirty'[w] = <<>>
      /\ \A v \in Writers : v # w => /\ todo'[v] = todo[v] /\ logged'[v] = logged[v]
                                     /\ cur'[v] = cur[v] /\ dirty'[v] = dirty[v]
      /\ UNCHANGED <<db, log, bpc, snap, hi, low, replica>>
  BY DEF IInv, TypeOK, Rollback, EndTransaction, producer, building
<1>2. DOMAIN dirty'[w] = {}
  BY <1>1
<1>3. DirtyCovered'
  BY <1>1, <1>2 DEF Coverage, DirtyCovered
<1>4. ReplicaCovered' /\ FrozenCovered' /\ WindowCovers'
  BY <1>1 DEF Coverage, ReplicaCovered, FrozenCovered, WindowCovers, LoggedAbove,
              Window
<1> QED
  BY <1>3, <1>4 DEF Coverage

(* All that is logged above the last package is in the window that the     *)
(* frozen mark closes.                                                     *)
LEMMA FreezeCoverage ==
  ASSUME IInv, Coverage, NEW c \in Corpora, Freeze(c)
  PROVE  Coverage'
<1> DEFINE shot == [rows |-> db, log |-> log]
<1>1. /\ snap'[c] = shot /\ hi'[c] = HighWater
      /\ \A b \in Corpora : b # c =>
           snap'[b] = snap[b] /\ hi'[b] = hi[b] /\ bpc'[b] = bpc[b]
      /\ UNCHANGED <<db, log, cur, todo, dirty, logged, low, replica>>
  BY DEF IInv, TypeOK, Freeze, producer, session
<1>2. shot.rows = db /\ shot.log = log
  OBVIOUS
<1>3. \A e \in log : e.seq <= HighWater
  BY HighWaterDrawn DEF IInv, TypeOK, NumbersDrawn
<1> HIDE DEF shot, HighWater
<1>4. DirtyCovered' /\ ReplicaCovered'
  BY <1>1 DEF Coverage, DirtyCovered, ReplicaCovered, LoggedAbove
<1>5. FrozenCovered'
  BY <1>1, <1>2 DEF Coverage, FrozenCovered, LoggedAbove
<1>6. WindowCovers'
  <2> SUFFICES ASSUME NEW b \in Corpora, low[b] # None,
                      bpc'[b] \in {"frozen", "cut"},
                      NEW x \in Cells, CorpusOf[x[2]] = b
               PROVE  \/ replica[b][x] = snap'[b].rows[x]
                      \/ \E e \in Window(b)' : Covers(e, x)
    BY <1>1 DEF WindowCovers
  <2>1. CASE b # c
    <3>1. Window(b)' = Window(b)
      BY <1>1, <2>1 DEF Window
    <3> QED
      BY <1>1, <2>1, <3>1 DEF Coverage, WindowCovers
  <2>2. CASE b = c
    <3>1. CASE \E e \in log : low[c] < e.seq /\ Covers(e, x)
      <4>1. PICK e \in log : low[c] < e.seq /\ Covers(e, x)
        BY <3>1
      <4>2. e \in Window(c)'
        BY <1>1, <1>2, <1>3, <2>2, <4>1 DEF Window, Covers
      <4> QED
        BY <2>2, <4>1, <4>2
    <3>2. CASE replica[c][x] = db[x]
      BY <1>1, <1>2, <2>2, <3>2
    <3> QED
      BY <2>2, <3>1, <3>2 DEF Coverage, ReplicaCovered, LoggedAbove
  <2> QED
    BY <2>1, <2>2
<1> QED
  BY <1>4, <1>5, <1>6 DEF Coverage

LEMMA Reproduces ==
  ASSUME IInv, Coverage
  PROVE  PackageReproduces
<1> SUFFICES ASSUME NEW c \in Corpora, bpc[c] = "cut",
                    NEW x \in Cells, CorpusOf[x[2]] = c
             PROVE  AfterPackage(c)[x] = snap[c].rows[x]
  BY DEF PackageReproduces
<1>1. CASE low[c] = None
  BY <1>1 DEF AfterPackage
<1>2. CASE low[c] # None /\ \E e \in Window(c) : Covers(e, x)
  BY <1>2 DEF AfterPackage, Covers
<1>3. CASE low[c] # None /\ replica[c][x] = snap[c].rows[x]
  BY <1>3 DEF AfterPackage
<1> QED
  BY <1>1, <1>2, <1>3 DEF Coverage, WindowCovers

LEMMA CatalogCoverage ==
  ASSUME IInv, Coverage, NEW c \in Corpora, CatalogPackage(c)
  PROVE  Coverage'
<1>1. /\ bpc[c] = "cut" /\ bpc'[c] = "idle"
      /\ \A b \in Corpora : b # c =>
           /\ snap'[b] = snap[b] /\ hi'[b] = hi[b] /\ bpc'[b] = bpc[b]
           /\ low'[b] = low[b] /\ replica'[b] = replica[b]
      /\ UNCHANGED <<db, log, cur, todo, dirty, logged>>
      /\ \/ low'[c] = low[c] /\ replica'[c] = replica[c]
         \/ low'[c] = hi[c] /\ replica'[c] = AfterPackage(c)
  BY DEF IInv, TypeOK, CatalogPackage, producer, session
<1>2. DirtyCovered'
  BY <1>1 DEF Coverage, DirtyCovered
<1>3. ReplicaCovered'
  <2> SUFFICES ASSUME NEW b \in Corpora, low'[b] # None
               PROVE  \A x \in Cells : CorpusOf[x[2]] = b =>
                        \/ replica'[b][x] = db[x]
                        \/ \E e \in log : low'[b] < e.seq /\ Covers(e, x)
    BY <1>1 DEF ReplicaCovered, LoggedAbove
  <2>1. CASE low'[b] = low[b] /\ replica'[b] = replica[b]
    BY <2>1 DEF Coverage, ReplicaCovered, LoggedAbove
  <2>2. CASE b = c /\ low'[c] = hi[c] /\ replica'[c] = AfterPackage(c)
    <3>1. \A x \in Cells : CorpusOf[x[2]] = c =>
            AfterPackage(c)[x] = snap[c].rows[x]
      BY <1>1, Reproduces DEF PackageReproduces
    <3>2. LoggedAbove(c, snap[c].rows, db, hi[c])
      BY <1>1 DEF Coverage, FrozenCovered
    <3> QED
      BY <2>2, <3>1, <3>2 DEF LoggedAbove
  <2> QED
    BY <1>1, <2>1, <2>2
<1>4. FrozenCovered'
  BY <1>1 DEF Coverage, FrozenCovered, LoggedAbove
<1>5. WindowCovers'
  <2>1. \A b \in Corpora : b # c => Window(b)' = Window(b)
    BY <1>1 DEF Window
  <2> QED
    BY <1>1, <2>1 DEF Coverage, WindowCovers
<1> QED
  BY <1>2, <1>3, <1>4, <1>5 DEF Coverage

LEMMA BuilderMovesCoverage ==
  ASSUME IInv, Coverage, NEW c \in Corpora,
         RequestFence(c) \/ AcquireFence(c) \/ ReleaseFence(c) \/ BuildFails(c)
  PROVE  Coverage'
<1>1. /\ UNCHANGED <<db, log, cur, todo, dirty, logged, low, replica>>
      /\ \A b \in Corpora : bpc'[b] \in {"frozen", "cut"} =>
           /\ bpc[b] \in {"frozen", "cut"}
           /\ snap'[b] = snap[b] /\ hi'[b] = hi[b]
  <2>1. CASE RequestFence(c)
    BY <2>1 DEF IInv, TypeOK, RequestFence, producer, session
  <2>2. CASE AcquireFence(c)
    BY <2>2 DEF IInv, TypeOK, AcquireFence, producer, session
  <2>3. CASE ReleaseFence(c)
    BY <2>3 DEF IInv, TypeOK, ReleaseFence, producer, session
  <2>4. CASE BuildFails(c)
    BY <2>4 DEF IInv, TypeOK, BuildFails, producer, session
  <2> QED
    BY <2>1, <2>2, <2>3, <2>4
<1>2. DirtyCovered' /\ ReplicaCovered'
  BY <1>1 DEF Coverage, DirtyCovered, ReplicaCovered, LoggedAbove
<1>3. FrozenCovered'
  BY <1>1 DEF Coverage, FrozenCovered, LoggedAbove
<1>4. WindowCovers'
  <2>1. \A b \in Corpora : bpc'[b] \in {"frozen", "cut"} => Window(b)' = Window(b)
    BY <1>1 DEF Window
  <2> QED
    BY <1>1, <2>1 DEF Coverage, WindowCovers
<1> QED
  BY <1>2, <1>3, <1>4 DEF Coverage

LEMMA InitCoverage == Init => Coverage
  BY DEF Init, Coverage, DirtyCovered, ReplicaCovered, FrozenCovered, WindowCovers

LEMMA NextCoverage == IInv /\ Coverage /\ [Next]_vars => Coverage'
<1> SUFFICES ASSUME IInv, Coverage, [Next]_vars PROVE Coverage'
  OBVIOUS
<1>1. ASSUME NEW w \in Writers, NEW kind \in Kinds, NEW d \in Docs,
             BeginMutation(w, kind, d)
      PROVE  Coverage'
  <2>1. /\ UNCHANGED <<db, log, todo, dirty, logged, bpc, snap, hi, low, replica>>
        /\ cur[w] = None
        /\ \A v \in Writers : v # w => cur'[v] = cur[v]
    BY <1>1 DEF IInv, TypeOK, BeginMutation, building
  <2>2. DirtyCovered'
    BY <2>1 DEF Coverage, DirtyCovered
  <2>3. ReplicaCovered' /\ FrozenCovered' /\ WindowCovers'
    BY <2>1 DEF Coverage, ReplicaCovered, FrozenCovered, WindowCovers,
                LoggedAbove, Window
  <2> QED
    BY <2>2, <2>3 DEF Coverage
<1>2. CASE UNCHANGED vars
  BY <1>2 DEF vars, Coverage, DirtyCovered, ReplicaCovered, FrozenCovered,
              WindowCovers, LoggedAbove, Window
<1> QED
  BY <1>1, <1>2, MutateCoverage, EmitChangeCoverage, CommitCoverage,
     RollbackCoverage, FreezeCoverage, CatalogCoverage, BuilderMovesCoverage
     DEF Next, WriterStep

(* Every package carries all that its snapshot differs by from the client  *)
(* that has applied the packages before it, in every replicated table:     *)
(* emit_change in the writers, scopes_changed and the materialisation in   *)
(* build_incremental.                                                      *)
THEOREM PackageReproducesAlways == Spec => []PackageReproduces
<1>1. IInv /\ Coverage => PackageReproduces
  BY Reproduces
<1> QED
  BY <1>1, InitCoverage, NextCoverage, InvariantHolds, PTL DEF Spec
=============================================================================
