---------------------------- MODULE EmbeddingPool ----------------------------
(***************************************************************************)
(* The embedding pass of an update run (jurisearch-pipeline/embed.rs and   *)
(* embedding/pool.rs, jurisearch-storage/dense.rs).  A pass loads pages of *)
(* pending chunks until none is left, then finalizes the dense index.  A   *)
(* page goes through a pool: worker threads take batches from a queue,     *)
(* call the least loaded endpoint, and send the outcome through a channel  *)
(* to the main thread, which is the only one that writes.                  *)
(*                                                                         *)
(* A chunk stands for a batch, the unit of a request and of an insert.     *)
(***************************************************************************)
EXTENDS Naturals, Sequences, FiniteSets, FiniteSetsExt

CONSTANTS
  NumChunks,      \* bound: chunks the corpus may hold
  Workers,        \* pool_concurrency threads
  NumEndpoints,
  PageSize,       \* EMBED_STREAM_PAGE_SIZE, in batches
  MaxAttempts,    \* EMBEDDING_ENDPOINT_MAX_ATTEMPTS
  MaxModels,      \* bound: embedding fingerprints configured in turn
  MaxFaults       \* bound: failed requests, failed writes and crashes

(* A pool without workers is refused (embed.rs:90).                        *)
BoundsAssumption ==
  /\ NumChunks \in Nat /\ NumEndpoints \in Nat /\ MaxFaults \in Nat
  /\ IsFiniteSet(Workers) /\ Workers # {}
  /\ {PageSize, MaxAttempts, MaxModels} \subseteq Nat \ {0}

Chunks == 1..NumChunks
Endpoints == 1..NumEndpoints

VARIABLES
  config,     \* the configured storage fingerprint
  chunks,     \* rows of chunks
  vector,     \* chunk_embeddings: chunk -> fingerprint it is embedded under, 0 if absent
  manifest,   \* index_manifest['embedding']: fingerprint and coverage of the built index
  pass,       \* where the main thread is, the page, its first error, pages so far
  queue,      \* work_queue
  worker,     \* what each worker holds
  endpoint,   \* endpoint_states
  stop,       \* stop_requested
  channel,    \* outcomes sent and not yet received
  outcome,    \* how the last pass ended, "none" once its input changed
  faults

poolVars == <<queue, worker, endpoint, stop, channel>>
vars == <<config, chunks, vector, manifest, pass, poolVars, outcome, faults>>

NoPass == [pc |-> "idle", page |-> {}, error |-> FALSE, considered |-> FALSE]
Off == [pc |-> "done", chunk |-> 0, at |-> 0, tries |-> 0]
Unloaded == [e \in Endpoints |-> [outstanding |-> 0, requests |-> 0]]

Manifests == [fp : 0..MaxModels, covers : SUBSET Chunks]
Passes == [pc : {"idle", "load", "pool", "finalize"}, page : SUBSET Chunks,
           error : BOOLEAN, considered : BOOLEAN]
Holdings == [pc : {"new", "look", "call", "done"}, chunk : 0..NumChunks,
             at : 0..NumEndpoints, tries : 0..MaxAttempts]
Loads == [outstanding : Nat, requests : Nat]
Outcomes == [chunk : 0..NumChunks, ok : BOOLEAN]

TypeOK ==
  /\ config \in 1..MaxModels
  /\ chunks \subseteq Chunks /\ vector \in [Chunks -> 0..MaxModels]
  /\ manifest \in Manifests
  /\ pass \in Passes
  /\ queue \in Seq(Chunks)
  /\ worker \in [Workers -> Holdings]
  /\ endpoint \in [Endpoints -> Loads]
  /\ stop \in BOOLEAN
  /\ channel \in Seq(Outcomes)
  /\ outcome \in {"none", "ok", "no_results", "error"}
  /\ faults \in 0..MaxFaults

Init ==
  /\ config = 1 /\ chunks = {} /\ vector = [c \in Chunks |-> 0]
  /\ manifest = [fp |-> 0, covers |-> {}]
  /\ pass = NoPass
  /\ queue = <<>> /\ worker = [w \in Workers |-> Off] /\ endpoint = Unloaded
  /\ stop = FALSE /\ channel = <<>>
  /\ outcome = "none" /\ faults = 0

Fault == faults < MaxFaults /\ faults' = faults + 1
Pending == {c \in chunks : vector[c] # config}

(* The ingest projects chunks: a new or changed one has no embedding.      *)
Project(S) ==
  /\ pass.pc = "idle" /\ S # {}
  /\ chunks' = chunks \cup S
  /\ vector' = [c \in Chunks |-> IF c \in S THEN 0 ELSE vector[c]]
  /\ outcome' = "none"
  /\ UNCHANGED <<config, manifest, pass, poolVars, faults>>

Reconfigure ==
  /\ pass.pc = "idle" /\ config < MaxModels
  /\ config' = config + 1 /\ outcome' = "none"
  /\ UNCHANGED <<chunks, vector, manifest, pass, poolVars, faults>>

-----------------------------------------------------------------------------
(* The main thread.                                                        *)

EndPass(result) == pass' = NoPass /\ outcome' = result

Start ==
  /\ pass.pc = "idle"
  /\ pass' = [NoPass EXCEPT !.pc = "load"]
  /\ UNCHANGED <<config, chunks, vector, manifest, poolVars, outcome, faults>>

FirstPage == {c \in Pending : Cardinality({b \in Pending : b < c}) < PageSize}
InOrder(S) == [i \in 1..Cardinality(S) |->
                CHOOSE c \in S : Cardinality({b \in S : b < c}) = i - 1]

(* One page is spread over min(pool_concurrency, batches) new workers.     *)
LoadPage ==
  /\ pass.pc = "load" /\ Pending # {}
  /\ pass' = [pass EXCEPT !.pc = "pool", !.page = FirstPage, !.considered = TRUE]
  /\ queue' = InOrder(FirstPage)
  /\ \E W \in SUBSET Workers :
       /\ Cardinality(W) = Min({Cardinality(Workers), Cardinality(FirstPage)})
       /\ worker' = [w \in Workers |-> IF w \in W THEN [Off EXCEPT !.pc = "new"] ELSE Off]
  /\ endpoint' = Unloaded /\ stop' = FALSE /\ channel' = <<>>
  /\ UNCHANGED <<config, chunks, vector, manifest, outcome, faults>>

(* No pending chunk: a pass that considered none returns NoResults, which  *)
(* embed_pending takes for a success; the others finalize.                 *)
NothingLeft ==
  /\ pass.pc = "load" /\ Pending = {}
  /\ IF pass.considered
     THEN pass' = [pass EXCEPT !.pc = "finalize"] /\ UNCHANGED outcome
     ELSE EndPass("no_results")
  /\ UNCHANGED <<config, chunks, vector, manifest, poolVars, faults>>

(* Receiving an outcome: the first error stops the workers, and nothing is *)
(* written after it.                                                       *)
Receive ==
  /\ pass.pc = "pool" /\ channel # <<>>
  /\ LET m == Head(channel)
     IN /\ vector' = IF m.ok /\ ~pass.error
                     THEN [vector EXCEPT ![m.chunk] = config] ELSE vector
        /\ stop' = (stop \/ ~m.ok)
        /\ pass' = [pass EXCEPT !.error = @ \/ ~m.ok]
  /\ channel' = Tail(channel)
  /\ UNCHANGED <<config, chunks, manifest, queue, worker, endpoint, outcome, faults>>

InsertFails ==
  /\ pass.pc = "pool" /\ channel # <<>> /\ Head(channel).ok /\ ~pass.error
  /\ Fault
  /\ stop' = TRUE
  /\ pass' = [pass EXCEPT !.error = TRUE]
  /\ channel' = Tail(channel)
  /\ UNCHANGED <<config, chunks, vector, manifest, queue, worker, endpoint, outcome>>

(* Fault: the main thread keeps its own sender.                            *)
Closed_Kept == FALSE

(* The receiver ends when every sender is dropped: the main thread drops   *)
(* its own before it listens, a worker drops its clone when it returns.    *)
Closed == \A w \in Workers : worker[w].pc = "done"

PoolReturns ==
  /\ pass.pc = "pool" /\ channel = <<>> /\ Closed
  /\ IF pass.error
     THEN EndPass("error")
     ELSE pass' = [pass EXCEPT !.pc = "load", !.page = {}] /\ UNCHANGED outcome
  /\ UNCHANGED <<config, chunks, vector, manifest, poolVars, faults>>

(* finalize_dense_rebuild, one transaction.                                *)
Finalize ==
  /\ pass.pc = "finalize"
  /\ manifest' = [fp |-> config, covers |-> chunks]
  /\ EndPass("ok")
  /\ UNCHANGED <<config, chunks, vector, poolVars, faults>>

FinalizeFails ==
  /\ pass.pc = "finalize"
  /\ Fault
  /\ EndPass("error")
  /\ UNCHANGED <<config, chunks, vector, manifest, poolVars>>

Crash ==
  /\ pass.pc # "idle"
  /\ Fault
  /\ pass' = NoPass /\ outcome' = "none"
  /\ queue' = <<>> /\ worker' = [w \in Workers |-> Off] /\ endpoint' = Unloaded
  /\ stop' = FALSE /\ channel' = <<>>
  /\ UNCHANGED <<config, chunks, vector, manifest>>

-----------------------------------------------------------------------------
(* A worker.                                                               *)

Connect(w) ==
  /\ worker[w].pc = "new"
  /\ worker' = [worker EXCEPT ![w].pc = "look"]
  /\ UNCHANGED <<config, chunks, vector, manifest, pass, queue, endpoint, stop, channel, outcome, faults>>

(* No client can be built from the endpoint's configuration.               *)
ConnectFails(w) ==
  /\ worker[w].pc = "new"
  /\ Fault
  /\ stop' = TRUE
  /\ channel' = Append(channel, [chunk |-> 0, ok |-> FALSE])
  /\ worker' = [worker EXCEPT ![w] = Off]
  /\ UNCHANGED <<config, chunks, vector, manifest, pass, queue, endpoint, outcome>>

(* Fault: the first endpoint, however busy.                                *)
Before_First(x, y) == x[3] < y[3]

(* acquire_least_outstanding_endpoint: by outstanding, then by requests,   *)
(* then the first.                                                         *)
Load(e) == <<endpoint[e].outstanding, endpoint[e].requests, e>>
Before(x, y) ==
  \/ x[1] < y[1]
  \/ x[1] = y[1] /\ x[2] < y[2]
  \/ x[1] = y[1] /\ x[2] = y[2] /\ x[3] < y[3]
LeastLoaded(e) == \A f \in Endpoints \ {e} : Before(Load(e), Load(f))

Take(w) ==
  /\ worker[w].pc = "look" /\ ~stop /\ queue # <<>>
  /\ \E e \in Endpoints :
       /\ LeastLoaded(e)
       /\ worker' = [worker EXCEPT ![w] = [pc |-> "call", chunk |-> Head(queue), at |-> e, tries |-> 1]]
       /\ endpoint' = [endpoint EXCEPT ![e].outstanding = @ + 1, ![e].requests = @ + 1]
  /\ queue' = Tail(queue)
  /\ UNCHANGED <<config, chunks, vector, manifest, pass, stop, channel, outcome, faults>>

Leave(w) ==
  /\ worker[w].pc = "look" /\ (stop \/ queue = <<>>)
  /\ worker' = [worker EXCEPT ![w] = Off]
  /\ UNCHANGED <<config, chunks, vector, manifest, pass, queue, endpoint, stop, channel, outcome, faults>>

(* release_embedding_endpoint, then the outcome is sent.                   *)
Reply(w, ok) ==
  /\ endpoint' = [endpoint EXCEPT ![worker[w].at].outstanding = @ - 1]
  /\ channel' = Append(channel, [chunk |-> worker[w].chunk, ok |-> ok])
  /\ worker' = [worker EXCEPT ![w] = [Off EXCEPT !.pc = "look"]]
  /\ UNCHANGED <<config, chunks, vector, manifest, pass, queue, stop, outcome>>

Answer(w) == worker[w].pc = "call" /\ Reply(w, TRUE) /\ UNCHANGED faults

(* embed_batch_with_retries: the same endpoint is asked again.             *)
Retry(w) ==
  /\ worker[w].pc = "call" /\ worker[w].tries < MaxAttempts
  /\ Fault
  /\ worker' = [worker EXCEPT ![w].tries = @ + 1]
  /\ UNCHANGED <<config, chunks, vector, manifest, pass, queue, endpoint, stop, channel, outcome>>

(* Fault: the batch is given up without a word to the main thread.         *)
GiveUp_Silent(w) ==
  /\ worker[w].pc = "call" /\ worker[w].tries = MaxAttempts
  /\ Fault
  /\ endpoint' = [endpoint EXCEPT ![worker[w].at].outstanding = @ - 1]
  /\ worker' = [worker EXCEPT ![w] = [Off EXCEPT !.pc = "look"]]
  /\ UNCHANGED <<config, chunks, vector, manifest, pass, queue, stop, channel, outcome>>

GiveUp(w) ==
  /\ worker[w].pc = "call" /\ worker[w].tries = MaxAttempts
  /\ Fault
  /\ Reply(w, FALSE)

-----------------------------------------------------------------------------
MainStep == LoadPage \/ NothingLeft \/ Receive \/ PoolReturns \/ Finalize
WorkerStep(w) == Connect(w) \/ Take(w) \/ Leave(w) \/ Answer(w)

Next ==
  \/ \E S \in SUBSET Chunks : Project(S)
  \/ Reconfigure \/ Start
  \/ MainStep \/ InsertFails \/ FinalizeFails \/ Crash
  \/ \E w \in Workers : WorkerStep(w) \/ ConnectFails(w) \/ Retry(w) \/ GiveUp(w)

Spec == Init /\ [][Next]_vars

-----------------------------------------------------------------------------
(* Properties.                                                             *)

(* A pool that returns without an error has stored every batch of its      *)
(* page, whichever worker took it and in whatever order the outcomes came  *)
(* (the streaming loop would otherwise load the same page for ever).       *)
PoolStoresItsPage ==
  [][pass.pc = "pool" /\ pass'.pc = "load" => pass.page \cap Pending = {}]_vars

(* Requests are spread: no endpoint has more in flight than its even share *)
(* of the workers, and every request counted is one a worker waits for.    *)
InFlight(e) == {w \in Workers : worker[w].pc = "call" /\ worker[w].at = e}
EvenlyOutstanding ==
  pass.pc = "pool" =>
    \A e \in Endpoints :
      /\ endpoint[e].outstanding = Cardinality(InFlight(e))
      /\ (endpoint[e].outstanding - 1) * NumEndpoints < Cardinality(Workers)

(* A pass that was started ends: workers leave once one of them, or a      *)
(* write, has failed, and the channel closes behind them.                  *)
PassEnds == []<>(pass.pc = "idle")

(* embed.rs: embedding upserts and dense finalization are separate         *)
(* recoverable steps, and re-running the command converges: after a pass   *)
(* without failure the index is the one of the chunks and of the model.    *)
RerunConverges ==
  outcome \in {"ok", "no_results"} /\ chunks # {} =>
    manifest = [fp |-> config, covers |-> chunks]
=============================================================================
