---------------------------- MODULE ProducerSuite ----------------------------
(***************************************************************************)
(* The work of the producer, one part of it per behaviour (variable part): *)
(* the update runs of a source, the embedding pass of a run, the           *)
(* enrichment of decisions by their official zones, the resolution of the  *)
(* articles they cite, the exchange with an official API, and the index a  *)
(* developer builds and searches locally.  The parts that do not run stay  *)
(* in one initial state.                                                   *)
(***************************************************************************)
EXTENDS SourceUpdate

CONSTANTS
  Parts,
  NumChunks, PoolWorkers, NumEndpoints, PoolPage, MaxAttempts, MaxPoolModels,
  MaxFailures,                                                         \* EmbeddingPool
  NumDocs, Nameless, ZonePage, NumWorkers, MaxZoneEdits, MaxCrashes,   \* Enrichment
  NumDecisions, Corpus, Articles, Visas, CitationPage, MaxResponses,
  MaxDeaths,                                                           \* Citations
  MaxRetries, BaseDelay, MaxDelay, Width, Skew, ReadTimeout, MaxLatency,
  Lifetimes, MaxRevoked,                                                      \* OfficialApi
  Models, MaxTextEdits, MaxKills, MaxModels                            \* LocalIndex

VARIABLES part,
  config, chunks, vector, manifest, pass, queue, worker, endpoint, stop, channel, outcome, failures,
  upstream, service, row, units, phase, order, after, considered, slice, stage, answer, page, edits,
  crashes,
  responses, occurrences, resolution, known, legifrance, command, retry, from, batch, reply, deaths,
  keys, call, provider, attempt, delay, late, token, bearer, result, revoked,
  text, stamp, embedded, dense, cache, model, task, answered, kills, switches

poolVars == <<config, chunks, vector, manifest, pass, queue, worker, endpoint,
              stop, channel, outcome, failures>>
zoneVars == <<upstream, service, row, units, phase, order, after, considered, slice, stage, answer,
              page, edits, crashes>>
citationVars == <<responses, occurrences, resolution, known, legifrance, command, retry, from, batch,
                  reply, deaths>>
callVars == <<keys, call, provider, attempt, delay, late, token, bearer, result, revoked>>
localVars == <<text, stamp, embedded, dense, cache, model, task, answered, kills, switches>>
suiteVars == <<vars, poolVars, zoneVars, citationVars, callVars, localVars, part>>

Pool == INSTANCE EmbeddingPool
  WITH Workers <- PoolWorkers, PageSize <- PoolPage, MaxModels <- MaxPoolModels,
       MaxFaults <- MaxFailures, faults <- failures

Zones == INSTANCE Enrichment
  WITH PageSize <- ZonePage, MaxEdits <- MaxZoneEdits, MaxFaults <- MaxCrashes,
       cursor <- after, faults <- crashes

Cited == INSTANCE Citations
  WITH PageSize <- CitationPage, MaxFaults <- MaxDeaths, service <- legifrance,
       phase <- command, cursor <- from, page <- batch, answer <- reply, faults <- deaths

Api == INSTANCE OfficialApi
  WITH phase <- call, outcome <- result

Local == INSTANCE LocalIndex
  WITH MaxEdits <- MaxTextEdits, MaxFaults <- MaxKills, vector <- embedded,
       manifest <- dense, command <- task, faults <- kills

ASSUME PoolAssumption == Pool!BoundsAssumption
ASSUME ZonesAssumption == Zones!BoundsAssumption /\ Zones!NoneAssumption
ASSUME CitedAssumption == Cited!BoundsAssumption /\ Cited!NoneAssumption
ASSUME ApiAssumption == Api!BoundsAssumption /\ Api!NoneAssumption
ASSUME LocalAssumption == Local!BoundsAssumption /\ Local!NoneAssumption

SuiteInit ==
  /\ Init /\ Pool!Init /\ Zones!Init /\ Cited!Init /\ Api!Init /\ Local!Init
  /\ part \in Parts
  /\ part # "zones" => \A d \in Zones!Documents : row[d] = None
  /\ part # "citations" => known = {}
  /\ part # "api" => keys = {}
  /\ part # "local" => model = CHOOSE m \in Models : TRUE

(* The rest of the suite stands still while a part runs.                    *)
InUpdate == part = "update" /\ UNCHANGED <<part, poolVars, zoneVars, citationVars, callVars, localVars>>
InPool == part = "pool" /\ UNCHANGED <<part, vars, zoneVars, citationVars, callVars, localVars>>
InZones == part = "zones" /\ UNCHANGED <<part, vars, poolVars, citationVars, callVars, localVars>>
InCitations == part = "citations" /\ UNCHANGED <<part, vars, poolVars, zoneVars, callVars, localVars>>
InApi == part = "api" /\ UNCHANGED <<part, vars, poolVars, zoneVars, citationVars, localVars>>
InLocal == part = "local" /\ UNCHANGED <<part, vars, poolVars, zoneVars, citationVars, callVars>>

SuiteNext ==
  \/ InUpdate /\ Next
  \/ InPool /\ Pool!Next
  \/ InZones /\ Zones!Next
  \/ InCitations /\ Cited!Next
  \/ InApi /\ Api!Next
  \/ InLocal /\ Local!Next

SuiteSpec == SuiteInit /\ [][SuiteNext]_suiteVars

-----------------------------------------------------------------------------
(* The safety properties, by theme; each is stated, with the code it is    *)
(* about, in the module of the part.                                       *)

(* What the variables of every part may hold.                              *)
TypesOK ==
  /\ TypeOK /\ Pool!TypeOK /\ Zones!TypeOK /\ Cited!TypeOK /\ Api!TypeOK /\ Local!TypeOK

(* What the producer asks others for, and what it keeps of the answers: a  *)
(* pass over evenly used endpoints stores every batch of its pages; units  *)
(* only under official zones; every cited article on the list of what is   *)
(* to be resolved, and no answer about one lost; an official API asked     *)
(* first under a live token, if that token came in time with an expiry,    *)
(* and again after delays that do not shrink; a local search let through   *)
(* only over vectors of the present texts.                                 *)
WorkIsSound ==
  /\ []Pool!EvenlyOutstanding /\ Pool!PoolStoresItsPage
  /\ []Zones!ZonesAreSound
  /\ []Cited!OccurrencesAreResolvable /\ Cited!AnswersAreKept
  /\ [](Api!FirstAttemptIsAuthorised /\ Api!BackoffNeverShrinks)
  /\ Local!ReadyIsCurrent
=============================================================================
