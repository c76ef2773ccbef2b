------------------------------- MODULE Outbox --------------------------------
(***************************************************************************)
(* Change capture and the cut of a package (jurisearch-storage/outbox.rs   *)
(* with the writers that call emit_change, and the builders of jurisearch- *)
(* package-build).  Concurrent transactions change the replicated tables   *)
(* and log the scopes they touched under numbers of one global sequence.   *)
(* A builder waits for the transactions that hold numbers (the fence),     *)
(* freezes a snapshot with the highest number in it, and packages the rows *)
(* of the scopes logged since the last package.                            *)
(*                                                                         *)
(* What is to be shown: whatever the writers interleave, a client that     *)
(* applies the package has the rows of the snapshot, in every table.       *)
(***************************************************************************)
EXTENDS Integers, Sequences, FiniteSets

CONSTANTS
  Writers,    \* sessions that ingest, embed and enrich
  Corpora,    \* each has a builder
  Docs,       \* documents
  CorpusOf,   \* document -> its corpus
  Kinds,      \* the mutations the writers make
  MaxOps,     \* bound: mutations made
  OpsPerTx,   \* bound: mutations in one transaction
  MaxFailures, \* bound: builds that fail
  None

ASSUME CorpusAssumption == CorpusOf \in [Docs -> Corpora]
ASSUME KindsAssumption ==
  Kinds \subseteq {"project", "backfill", "embed", "zones", "no_zones",
                   "derive", "embed_zones"}
ASSUME BoundsAssumption ==
  MaxOps \in Nat /\ OpsPerTx \in Nat \ {0} /\ MaxFailures \in Nat
ASSUME NoneAssumption == None \notin Writers \cup Corpora \cup Kinds \cup Int

Tables == {"documents", "graph_edges", "chunks", "chunk_embeddings",
           "decision_zones", "zone_units", "zone_unit_embeddings"}

(* The rows a document has in a table: 0 when there are none, else the     *)
(* number of the mutation that wrote them; a negative number is a decision *)
(* found to have no official zones.                                        *)
Cells == Tables \X Docs
NoRows == [x \in Cells |-> 0]

VARIABLES
  db,       \* committed rows of the producer
  log,      \* committed package_change_log entries
  nextSeq,  \* next value of the change_seq sequence
  ops,      \* mutations made so far
  cur,      \* writer -> the mutation it makes, None between two of them
  todo,     \* writer -> tables whose scope it has still to log
  dirty,    \* writer -> uncommitted cells (their row locks) and values
  logged,   \* writer -> uncommitted log entries
  count,    \* writer -> mutations in its open transaction
  shared,   \* transactions that hold the fence shared
  fence,    \* the corpus whose builder holds the fence exclusively
  bpc,      \* corpus -> where its builder is
  snap, hi, \* corpus -> the snapshot it reads and the mark frozen in it
  low,      \* corpus -> high-water mark of its last package, None before
  replica,  \* corpus -> rows of a client that has applied that package
  failures  \* builds that failed so far

producer == <<db, log, nextSeq, ops>>
session == <<cur, todo, dirty, logged, count>>
building == <<bpc, snap, hi, low, replica, failures>>
vars == <<db, log, nextSeq, ops, cur, todo, dirty, logged, count, shared, fence,
          bpc, snap, hi, low, replica, failures>>

DocsOf(c) == {d \in Docs : CorpusOf[d] = c}

-----------------------------------------------------------------------------
(* The mutations.                                                          *)

(* Fault: clearing the zone units of a decision is not logged.             *)
Scopes_NoClearedUnits(kind) ==
  CASE kind = "project" -> <<"documents">>
    [] kind = "backfill" -> <<"documents", "chunk_embeddings">>
    [] kind = "embed" -> <<"chunks", "chunk_embeddings">>
    [] kind = "zones" -> <<"decision_zones">>
    [] kind = "no_zones" -> <<"decision_zones">>
    [] kind = "derive" -> <<"zone_units">>
    [] kind = "embed_zones" -> <<"zone_units", "zone_unit_embeddings">>

(* The scopes a mutation logs, in its own transaction.                     *)
Scopes(kind) ==
  CASE kind = "project" -> <<"documents">>
    [] kind = "backfill" -> <<"documents", "chunk_embeddings">>
    [] kind = "embed" -> <<"chunks", "chunk_embeddings">>
    [] kind = "zones" -> <<"decision_zones">>
    [] kind = "no_zones" -> <<"decision_zones", "zone_units">>
    [] kind = "derive" -> <<"zone_units">>
    [] kind = "embed_zones" -> <<"zone_units", "zone_unit_embeddings">>

(* The rows it finds: a projected document for all but the projection,     *)
(* official zones to derive units from, units to embed.                    *)
Applicable(kind, d, rows) ==
  /\ kind # "project" => rows[<<"documents", d>>] # 0
  /\ kind = "derive" => rows[<<"decision_zones", d>>] > 0
  /\ kind = "embed_zones" => rows[<<"zone_units", d>>] # 0

(* The rows it writes ...                                                  *)
Written(kind) ==
  CASE kind = "project" -> {"documents", "graph_edges", "chunks"}
    [] kind = "backfill" -> {"documents", "chunks"}
    [] kind = "embed" -> {"chunks", "chunk_embeddings"}
    [] kind = "zones" -> {"decision_zones"}
    [] kind = "no_zones" -> {"decision_zones"}
    [] kind = "derive" -> {"zone_units"}
    [] kind = "embed_zones" -> {"zone_units", "zone_unit_embeddings"}

(* ... and those it deletes: a re-projection keeps the embeddings of the   *)
(* text it changes, the backfill and the derivation do not.                *)
Deleted(kind) ==
  CASE kind = "backfill" -> {"chunk_embeddings"}
    [] kind = "no_zones" -> {"zone_units", "zone_unit_embeddings"}
    [] kind = "derive" -> {"zone_unit_embeddings"}
    [] OTHER -> {}

Touched(m) == (Written(m.kind) \cup Deleted(m.kind)) \X {m.doc}

Value(m, x) == IF x[1] \in Deleted(m.kind) THEN 0
               ELSE IF m.kind = "no_zones" THEN -m.n ELSE m.n

-----------------------------------------------------------------------------
Init ==
  /\ db = NoRows /\ log = {} /\ nextSeq = 1 /\ ops = 0
  /\ cur = [w \in Writers |-> None]
  /\ todo = [w \in Writers |-> <<>>]
  /\ dirty = [w \in Writers |-> <<>>]
  /\ logged = [w \in Writers |-> {}]
  /\ count = [w \in Writers |-> 0]
  /\ shared = {} /\ fence = None
  /\ bpc = [c \in Corpora |-> "idle"]
  /\ snap = [c \in Corpora |-> None]
  /\ hi = [c \in Corpora |-> 0]
  /\ low = [c \in Corpora |-> None]
  /\ replica = [c \in Corpora |-> NoRows]
  /\ failures = 0

-----------------------------------------------------------------------------
(* The writers.                                                            *)

(* What the transaction of w reads: committed rows and its own.            *)
Seen(w) == [x \in Cells |-> IF x \in DOMAIN dirty[w] THEN dirty[w][x] ELSE db[x]]

Waits(w) == cur[w] # None /\ todo[w] = <<>>

(* Its next mutation meets rows that v has written and not committed.      *)
WaitsFor(w, v) ==
  /\ v # w
  /\ Waits(w)
  /\ Touched(cur[w]) \cap DOMAIN dirty[v] # {}

(* The next mutation of a transaction, or the first of a new one.          *)
BeginMutation(w, kind, d) ==
  /\ cur[w] = None
  /\ ops < MaxOps /\ count[w] < OpsPerTx
  /\ Applicable(kind, d, Seen(w))
  /\ ops' = ops + 1
  /\ count' = [count EXCEPT ![w] = @ + 1]
  /\ cur' = [cur EXCEPT ![w] = [kind |-> kind, doc |-> d, n |-> ops + 1]]
  /\ UNCHANGED <<db, log, nextSeq, todo, dirty, logged, shared, fence, building>>

Mutate(w) ==
  /\ Waits(w)
  /\ \A v \in Writers : ~WaitsFor(w, v)
  /\ Applicable(cur[w].kind, cur[w].doc, Seen(w))
  /\ dirty' = [dirty EXCEPT ![w] =
                 [x \in DOMAIN @ \cup Touched(cur[w]) |->
                    IF x \in Touched(cur[w]) THEN Value(cur[w], x) ELSE @[x]]]
  /\ todo' = [todo EXCEPT ![w] = Scopes(cur[w].kind)]
  /\ UNCHANGED <<producer, cur, logged, count, shared, fence, building>>

(* The lock manager grants the fence in the order of the requests; a       *)
(* deadlock it detects is resolved by letting a shared request overtake    *)
(* the builder that waits for the other party.                             *)
SharedGranted(w) ==
  /\ fence = None
  /\ \/ w \in shared
     \/ \A c \in Corpora : bpc[c] # "wait"
     \/ \E v \in shared : WaitsFor(v, w)

(* Fault: the number is allocated without the fence.                       *)
EmitChange_Unfenced(w) ==
  /\ cur[w] # None /\ todo[w] # <<>>
  /\ logged' = [logged EXCEPT ![w] = @ \cup
       {[seq |-> nextSeq, table |-> Head(todo[w]), doc |-> cur[w].doc]}]
  /\ nextSeq' = nextSeq + 1
  /\ todo' = [todo EXCEPT ![w] = Tail(@)]
  /\ cur' = [cur EXCEPT ![w] = IF Len(todo[w]) = 1 THEN None ELSE @]
  /\ UNCHANGED <<db, log, ops, dirty, count, shared, fence, building>>

(* emit_change: the shared fence, then the number, in one statement.       *)
EmitChange(w) ==
  /\ cur[w] # None /\ todo[w] # <<>>
  /\ SharedGranted(w)
  /\ shared' = shared \cup {w}
  /\ logged' = [logged EXCEPT ![w] = @ \cup
       {[seq |-> nextSeq, table |-> Head(todo[w]), doc |-> cur[w].doc]}]
  /\ nextSeq' = nextSeq + 1
  /\ todo' = [todo EXCEPT ![w] = Tail(@)]
  /\ cur' = [cur EXCEPT ![w] = IF Len(todo[w]) = 1 THEN None ELSE @]
  /\ UNCHANGED <<db, log, ops, dirty, count, fence, building>>

EndTransaction(w) ==
  /\ cur' = [cur EXCEPT ![w] = None]
  /\ todo' = [todo EXCEPT ![w] = <<>>]
  /\ dirty' = [dirty EXCEPT ![w] = <<>>]
  /\ logged' = [logged EXCEPT ![w] = {}]
  /\ count' = [count EXCEPT ![w] = 0]
  /\ shared' = shared \ {w}

(* The rows and the log entries become visible together.                   *)
Commit(w) ==
  /\ cur[w] = None /\ count[w] > 0
  /\ db' = Seen(w)
  /\ log' = log \cup logged[w]
  /\ EndTransaction(w)
  /\ UNCHANGED <<nextSeq, ops, fence, building>>

(* An error, a death, or the choice of the deadlock detector: the numbers  *)
(* the transaction drew are not used again.                                *)
Rollback(w) ==
  /\ count[w] > 0
  /\ EndTransaction(w)
  /\ UNCHANGED <<producer, fence, building>>

-----------------------------------------------------------------------------
(* The builders.  Per corpus one at a time (the build lock).               *)

RequestFence(c) ==
  /\ bpc[c] = "idle"
  /\ bpc' = [bpc EXCEPT ![c] = "wait"]
  /\ UNCHANGED <<producer, session, shared, fence, snap, hi, low, replica, failures>>

(* acquire_outbox_fence waits for every transaction that holds it.         *)
AcquireFence(c) ==
  /\ bpc[c] = "wait"
  /\ fence = None /\ shared = {}
  /\ fence' = c
  /\ bpc' = [bpc EXCEPT ![c] = "fenced"]
  /\ UNCHANGED <<producer, session, shared, snap, hi, low, replica, failures>>

(* Fault: an empty log has no maximum, and nothing stands in for it.       *)
HighWater_Null ==
  IF log = {} THEN None
  ELSE (CHOOSE e \in log : \A f \in log : f.seq <= e.seq).seq

(* current_change_seq: the highest number in the log.                      *)
HighWater == IF log = {} THEN 0
             ELSE (CHOOSE e \in log : \A f \in log : f.seq <= e.seq).seq

(* The first query of the REPEATABLE READ transaction fixes its snapshot   *)
(* and reads max(change_seq) in it.                                        *)
Freeze(c) ==
  /\ bpc[c] = "fenced"
  /\ snap' = [snap EXCEPT ![c] = [rows |-> db, log |-> log]]
  /\ hi' = [hi EXCEPT ![c] = HighWater]
  /\ bpc' = [bpc EXCEPT ![c] = "frozen"]
  /\ UNCHANGED <<producer, session, shared, fence, low, replica, failures>>

ReleaseFence(c) ==
  /\ bpc[c] = "frozen"
  /\ fence' = None
  /\ bpc' = [bpc EXCEPT ![c] = "cut"]
  /\ UNCHANGED <<producer, session, shared, snap, hi, low, replica, failures>>

(* Fault: the window ends before its mark.                                 *)
Window_OpenTop(c) ==
  {e \in snap[c].log : CorpusOf[e.doc] = c /\ low[c] < e.seq /\ e.seq < hi[c]}

(* The log entries of the corpus in (low, hi], read in the snapshot.       *)
Window(c) ==
  {e \in snap[c].log : CorpusOf[e.doc] = c /\ low[c] < e.seq /\ e.seq <= hi[c]}

(* Fault: a document does not bring its chunks and their embeddings along. *)
Carried_NotWidened(e) ==
  CASE e.table = "documents" -> {"documents", "graph_edges"}
    [] e.table = "chunks" -> {"chunks", "chunk_embeddings"}
    [] e.table \in {"zone_units", "zone_unit_embeddings"} ->
         {"zone_units", "zone_unit_embeddings"}
    [] OTHER -> {e.table}

(* The tables a logged scope brings into the package: coalescing takes the *)
(* widest set, a replace-set its child table, a document its edges and     *)
(* chunks.                                                                 *)
Carried(e) ==
  CASE e.table = "documents" ->
         {"documents", "graph_edges", "chunks", "chunk_embeddings"}
    [] e.table = "chunks" -> {"chunks", "chunk_embeddings"}
    [] e.table \in {"zone_units", "zone_unit_embeddings"} ->
         {"zone_units", "zone_unit_embeddings"}
    [] OTHER -> {e.table}

(* The client after the package: of what it carries, the rows of the       *)
(* snapshot; a baseline carries everything.                                *)
AfterPackage(c) ==
  [x \in Cells |->
     IF CorpusOf[x[2]] # c THEN 0
     ELSE IF low[c] = None THEN snap[c].rows[x]
     ELSE IF \E e \in Window(c) : e.doc = x[2] /\ x[1] \in Carried(e)
     THEN snap[c].rows[x] ELSE replica[c][x]]

(* The package is written and cataloged, with hi as its high-water mark;   *)
(* no scope in the window, no package.                                     *)
CatalogPackage(c) ==
  /\ bpc[c] = "cut"
  /\ IF low[c] # None /\ Window(c) = {}
     THEN UNCHANGED <<low, replica>>
     ELSE /\ low' = [low EXCEPT ![c] = hi[c]]
          /\ replica' = [replica EXCEPT ![c] = AfterPackage(c)]
  /\ bpc' = [bpc EXCEPT ![c] = "idle"]
  /\ hi' = [hi EXCEPT ![c] = 0]
  /\ snap' = [snap EXCEPT ![c] = None]
  /\ UNCHANGED <<producer, session, shared, fence, failures>>

(* The build fails or dies: its sessions end, nothing is cataloged.        *)
BuildFails(c) ==
  /\ bpc[c] # "idle"
  /\ failures < MaxFailures
  /\ failures' = failures + 1
  /\ bpc' = [bpc EXCEPT ![c] = "idle"]
  /\ hi' = [hi EXCEPT ![c] = 0]
  /\ snap' = [snap EXCEPT ![c] = None]
  /\ fence' = IF fence = c THEN None ELSE fence
  /\ UNCHANGED <<producer, session, shared, low, replica>>

WriterStep(w) == Mutate(w) \/ EmitChange(w) \/ Commit(w)

(* The detector picks one of two transactions that wait for rows of each   *)
(* other; a mutation that does not find its rows any more is an error.     *)
Aborted(w) ==
  /\ \/ \E v \in Writers : WaitsFor(w, v) /\ WaitsFor(v, w)
     \/ Waits(w) /\ ~Applicable(cur[w].kind, cur[w].doc, Seen(w))
  /\ Rollback(w)

Next ==
  \/ \E w \in Writers :
       \/ \E kind \in Kinds, d \in Docs : BeginMutation(w, kind, d)
       \/ WriterStep(w)
       \/ Rollback(w)
  \/ \E c \in Corpora :
       \/ RequestFence(c) \/ AcquireFence(c) \/ Freeze(c) \/ ReleaseFence(c)
       \/ CatalogPackage(c) \/ BuildFails(c)

(* A transaction goes on to its end, a build too unless it fails; a timer  *)
(* starts builds over and over, and the lock manager serves the fence in   *)
(* the order of the requests.                                              *)
Fairness ==
  /\ \A w \in Writers : /\ WF_vars(WriterStep(w) \/ Aborted(w))
                         /\ SF_vars(EmitChange(w))
  /\ \A c \in Corpora :
       /\ WF_vars(RequestFence(c))
       /\ SF_vars(AcquireFence(c))
       /\ WF_vars(Freeze(c) \/ ReleaseFence(c) \/ CatalogPackage(c))

Spec == Init /\ [][Next]_vars
FairSpec == Spec /\ Fairness

-----------------------------------------------------------------------------
(* Properties.                                                             *)

Row == -MaxOps..MaxOps
Rows == [Cells -> Row]
Entry == [seq : Nat \ {0}, table : Tables, doc : Docs]
Mutation == [kind : Kinds, doc : Docs, n : 1..MaxOps]
Snapshot == [rows : Rows, log : SUBSET Entry]

(* The types of the variables.                                             *)
TypeOK ==
  /\ db \in Rows
  /\ log \subseteq Entry
  /\ nextSeq \in Nat \ {0}
  /\ ops \in 0..MaxOps
  /\ cur \in [Writers -> {None} \cup Mutation]
  /\ todo \in [Writers -> Seq(Tables)]
  /\ DOMAIN dirty = Writers
  /\ \A w \in Writers : /\ DOMAIN dirty[w] \subseteq Cells
                        /\ \A x \in DOMAIN dirty[w] : dirty[w][x] \in Row
  /\ logged \in [Writers -> SUBSET Entry]
  /\ count \in [Writers -> 0..OpsPerTx]
  /\ shared \subseteq Writers
  /\ fence \in {None} \cup Corpora
  /\ bpc \in [Corpora -> {"idle", "wait", "fenced", "frozen", "cut"}]
  /\ snap \in [Corpora -> {None} \cup Snapshot]
  /\ hi \in [Corpora -> Nat]
  /\ low \in [Corpora -> {None} \cup Nat]
  /\ replica \in [Corpora -> Rows]
  /\ failures \in 0..MaxFailures

(* A number is never late: whatever is still uncommitted lies above the    *)
(* mark that is frozen and above the one the last package went up to, or   *)
(* it would fall into a window that is closed.                             *)
NoLateNumber ==
  \A c \in Corpora, w \in Writers : \A e \in logged[w] :
    /\ bpc[c] \in {"frozen", "cut"} => hi[c] < e.seq
    /\ low[c] # None => low[c] < e.seq

(* The package reproduces its snapshot: the changes logged in the window,  *)
(* widened as the builder does, are all that differs from the client.      *)
PackageReproduces ==
  \A c \in Corpora : bpc[c] = "cut" =>
    \A x \in Cells : CorpusOf[x[2]] = c =>
      AfterPackage(c)[x] = snap[c].rows[x]

(* No number is in two windows and none is skipped: the log up to the mark *)
(* of the last package is settled.                                         *)
SettledBelowLow ==
  [][\A c \in Corpora : low[c] # None =>
       {e \in log' : e.seq <= low[c]} = {e \in log : e.seq <= low[c]}]_vars

(* Row locks, the fence and its queue never stop everybody: in the end     *)
(* every transaction is over and the clients have the last change.         *)
EventuallyReplicated ==
  <>[]( /\ \A w \in Writers : count[w] = 0
        /\ \A x \in Cells : replica[CorpusOf[x[2]]][x] = db[x] )
=============================================================================
