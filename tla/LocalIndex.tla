----------------------------- MODULE LocalIndex -----------------------------
(***************************************************************************)
(* The working set of one index directory: the ingest, hierarchy-backfill  *)
(* and embed-chunks commands that change it, each in several transactions, *)
(* and the readiness gate of the read commands, which counts coverage once *)
(* and then trusts the cached report until a writer drops it.  The data    *)
(* directory's lock runs one command at a time (ManagedPostgres); a        *)
(* command may fail or die between two transactions.                       *)
(***************************************************************************)
EXTENDS Integers, FiniteSets

CONSTANTS Docs,      \* documents of the corpus, of one chunk each
          Models,    \* embedding models that can be configured
          MaxEdits,  \* bound: texts a document takes
          MaxFaults, \* bound: commands that fail or die
          MaxModels, \* bound: reconfigurations
          None

VARIABLES text,      \* document -> version of its chunk's text, 0 before its first ingest
          stamp,     \* document -> chunks.embedding_fingerprint
          vector,    \* document -> its chunk_embeddings row: the model and the text embedded
          manifest,  \* index_manifest['embedding']: the model the dense index is built for
          cache,     \* index_manifest['query_readiness']: the cached report
          model,     \* the configured model
          command,   \* the running command and where it stands
          answered,  \* the last gate that let a read through
          faults, switches

Gates == {"fetch", "lexical", "search"}

BoundsAssumption ==
  /\ IsFiniteSet(Docs)
  /\ MaxEdits \in Nat /\ MaxFaults \in Nat /\ MaxModels \in Nat

(* A vector, with the model and the text it was computed from.             *)
Vectors == [model : Models, text : 1..MaxEdits]
NoneAssumption == None \notin Models \cup Vectors \cup Gates

indexVars == <<text, stamp, vector, manifest, cache, model, command, answered, faults, switches>>

Present == {d \in Docs : text[d] # 0}

Init ==
  /\ text = [d \in Docs |-> 0]
  /\ stamp = [d \in Docs |-> None]
  /\ vector = [d \in Docs |-> None]
  /\ manifest = None
  /\ cache = None
  /\ model \in Models
  /\ command = "none"
  /\ answered = None
  /\ faults = 0 /\ switches = 0

(* The coverage the gate counts: over the public working set, a chunk is   *)
(* covered when its own stamp and its vector's agree, whatever the model.  *)
Covered == {d \in Present : stamp[d] # None /\ vector[d] # None /\ vector[d].model = stamp[d]}
Report == [projection |-> <<Cardinality(Present), Cardinality(Present)>>,
           embedding |-> <<Cardinality(Covered), Cardinality(Present)>>]
Complete(metric) == metric[2] > 0 /\ metric[1] = metric[2]
Cacheable(report) == Complete(report.projection) /\ Complete(report.embedding)

(* load_or_compute_query_readiness and the gate of a read command.         *)
Resolved == IF cache # None THEN cache ELSE Report
Passes(gate, report) ==
  /\ Complete(report.projection)
  /\ gate = "search" => Complete(report.embedding)

Query(gate) ==
  /\ command = "none"
  /\ cache' = IF cache = None /\ Cacheable(Report) THEN Report ELSE cache
  /\ answered' = IF Passes(gate, Resolved) THEN gate ELSE None
  /\ UNCHANGED <<text, stamp, vector, manifest, model, command, faults, switches>>

(* Fault: a writer leaves the cached report in place.                      *)
Start_KeepsCache(name) ==
  /\ command = "none"
  /\ command' = name /\ answered' = None
  /\ UNCHANGED <<text, stamp, vector, manifest, cache, model, faults, switches>>

(* Every writing command drops the cached report before its first write.   *)
(* start_ingest_run does so right after it has recorded the run.           *)
Start(name) ==
  /\ command = "none"
  /\ command' = name /\ cache' = None /\ answered' = None
  /\ UNCHANGED <<text, stamp, vector, manifest, model, faults, switches>>

(* One batch of archive members: a new document, or a new text for one of  *)
(* them, whose chunk loses its stamp and keeps its old vector.             *)
Flush(d) ==
  /\ command = "ingest" /\ text[d] < MaxEdits
  /\ text' = [text EXCEPT ![d] = @ + 1]
  /\ stamp' = [stamp EXCEPT ![d] = None]
  /\ UNCHANGED <<vector, manifest, cache, model, command, answered, faults, switches>>

(* A backfill gives chunks a new contextualized text: stamp and vector go. *)
Backfill(D) ==
  /\ command = "backfill" /\ D \subseteq Present /\ D # {}
  /\ \A d \in D : text[d] < MaxEdits
  /\ text' = [d \in Docs |-> IF d \in D THEN text[d] + 1 ELSE text[d]]
  /\ stamp' = [d \in Docs |-> IF d \in D THEN None ELSE stamp[d]]
  /\ vector' = [d \in Docs |-> IF d \in D THEN None ELSE vector[d]]
  /\ command' = "none"
  /\ UNCHANGED <<manifest, cache, model, answered, faults, switches>>

(* Chunks without a vector of the configured model.                        *)
Missing == {d \in Present : vector[d] = None \/ (vector[d] # None /\ vector[d].model # model)}

(* Fault: a chunk that has a vector is not embedded again.                 *)
Pending_VectorsOnly == Missing

(* embed-chunks: what load_chunk_embedding_inputs selects, and the batch   *)
(* insert, whose transaction refuses chunks stamped for another model.     *)
Pending == {d \in Present : stamp[d] = None} \cup Missing
Accepts(batch) == \A d \in batch : stamp[d] \in {None, model}

Embed(batch) ==
  /\ command \in {"embed", "embedding"} /\ batch \subseteq Pending /\ batch # {} /\ Accepts(batch)
  /\ stamp' = [d \in Docs |-> IF d \in batch THEN model ELSE stamp[d]]
  /\ vector' = [d \in Docs |-> IF d \in batch THEN [model |-> model, text |-> text[d]] ELSE vector[d]]
  /\ command' = "embedding"
  /\ UNCHANGED <<text, manifest, cache, model, answered, faults, switches>>

Refused == \E d \in Pending : ~Accepts({d})

EmbedFails ==
  /\ command \in {"embed", "embedding"} /\ Refused
  /\ command' = "none"
  /\ UNCHANGED <<text, stamp, vector, manifest, cache, model, answered, faults, switches>>

(* Nothing left pending by the pages of this run: the dense index is       *)
(* rebuilt and every chunk stamped.                                        *)
Finalize ==
  /\ command = "embedding" /\ Pending = {} /\ Missing = {}
  /\ stamp' = [d \in Docs |-> IF d \in Present THEN model ELSE stamp[d]]
  /\ manifest' = model
  /\ command' = "none"
  /\ UNCHANGED <<text, vector, cache, model, answered, faults, switches>>

(* An ingest is finished; a backfill changes nothing; embed-chunks found    *)
(* nothing to embed and ends without a rebuild.                            *)
Finish ==
  /\ \/ command \in {"ingest", "backfill"}
     \/ command = "embed" /\ Pending = {}
  /\ command' = "none"
  /\ UNCHANGED <<text, stamp, vector, manifest, cache, model, answered, faults, switches>>

(* The process dies, or its endpoint or archive fails it.                  *)
Die ==
  /\ command # "none" /\ faults < MaxFaults
  /\ command' = "none" /\ faults' = faults + 1
  /\ UNCHANGED <<text, stamp, vector, manifest, cache, model, answered, switches>>

Reconfigure(m) ==
  /\ command = "none" /\ m # model /\ switches < MaxModels
  /\ model' = m /\ switches' = switches + 1
  /\ UNCHANGED <<text, stamp, vector, manifest, cache, command, answered, faults>>

EmbedStep == (\E batch \in SUBSET Docs : Embed(batch)) \/ EmbedFails \/ Finalize
CommandStep == EmbedStep \/ Finish

Next ==
  \/ \E gate \in Gates : Query(gate)
  \/ \E name \in {"ingest", "backfill", "embed"} : Start(name)
  \/ \E d \in Docs : Flush(d)
  \/ \E D \in SUBSET Docs : Backfill(D)
  \/ CommandStep \/ Die
  \/ \E m \in Models : Reconfigure(m)

SafetySpec == Init /\ [][Next]_indexVars

(* A running command goes on, and the operator embeds and searches again   *)
(* and again.                                                              *)
Spec ==
  /\ SafetySpec
  /\ WF_indexVars(CommandStep)
  /\ SF_indexVars(command = "none" /\ Start("embed"))
  /\ SF_indexVars(Query("search"))

-----------------------------------------------------------------------------
(* What the variables may hold.                                            *)
TypeOK ==
  /\ text \in [Docs -> 0..MaxEdits]
  /\ stamp \in [Docs -> Models \cup {None}]
  /\ vector \in [Docs -> Vectors \cup {None}]
  /\ manifest \in Models \cup {None}
  /\ cache = None \/ DOMAIN cache = {"projection", "embedding"}
  /\ model \in Models
  /\ command \in {"none", "ingest", "backfill", "embed", "embedding"}
  /\ answered \in Gates \cup {None}
  /\ faults \in 0..MaxFaults /\ switches \in 0..MaxModels

AllCurrent == Present # {} /\ \A d \in Present : vector[d] # None /\ vector[d].text = text[d]

(* A search the gate let through ran over vectors of the texts the index   *)
(* holds: neither the cached report nor the counted one calls an index     *)
(* ready while a chunk carries no vector or the vector of an older text,   *)
(* whichever commands died on the way.                                     *)
ReadyIsCurrent ==
  [][answered' = "search" => AllCurrent']_indexVars

(* As long as the embedding model stays the same, an index that receives   *)
(* documents ends up answering searches, or its texts keep changing.       *)
EventuallySearchable ==
  <>[](switches = 0 /\ Present # {}) => []<>(answered = "search")

=============================================================================
