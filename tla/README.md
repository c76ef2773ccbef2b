# A verification project for jurisearch

jurisearch distributes French legal corpora. One central producer ingests the
official archives into PostgreSQL, cuts signed packages from that database
(baselines, incrementals, rebaselines) and serves them as static files. Every
site runs its own PostgreSQL, applies the packages, and answers queries from it.
What has to be right is the path of a text from an archive of the publisher to a
row that a query of some site returns: nothing lost or applied out of order, no
half-installed corpus visible, whatever interleaves, fails or dies on the way.

This directory holds TLA+ models of that path and of what operates it, the TLC
instances that check them, and TLAPS proofs: for the path of a change (the update runs of a
source, the change outbox with the package builder, the publication cycle, the daemons that
follow the feed, the application of packages at a site and the trust they are applied
under), for the pages of a search, for the projection of LEGI archives, and for everything else
that runs at a producer or at a site but the way of one record from its XML to its chunks.

Contents: 1 inventory, 2 modules and code, 3 runs, 4 bounds, 5 fairness,
6 proofs, 7 findings, 8 what is abstracted or not modelled, 9 plan.

## 1. Inventory

Paths are under `src/crates/`; in section 2, `storage/x.rs` is `jurisearch-storage/src/x.rs`,
and so on.

### 1.1 The components

| component | code | state it keeps | operations |
|---|---|---|---|
| archive fetching | `jurisearch-fetch` | a mirror, a cursor file | list, download, verify, promote or quarantine, save the cursor |
| archive parsing and ingest | `jurisearch-ingest`, `jurisearch-pipeline/src/ingest`, `-storage/src/{ingest_accounting,projection}` | runs and members accounted for, documents, chunks, hierarchy, journal | plan archives, parse, chunk, project, account, resume, complete the hierarchy |
| embedding | `jurisearch-embed`, `jurisearch-pipeline/src/embedding`, `-storage/src/dense.rs` | a worker pool, vectors, the dense manifest | load a page, embed, retry, store, rebuild the index |
| official API enrichment | `jurisearch-official-api`, `jurisearch-pipeline/src/{enrich.rs,build_zone_units.rs,enrichment}`, `-storage/src/{decision_zones,zone_units,legislation_citations}.rs` | a token, cached zones, zone units, citations and their resolutions | authenticate, call, back off, archive, derive, resolve |
| change outbox | `jurisearch-storage/src/outbox.rs`; writers in `projection/{legi,decisions,embeddings,hierarchy_backfill}.rs`, `decision_zones.rs`, `zone_units.rs` | `package_change_log`, the `change_seq` sequence, the outbox fence (advisory lock) | `emit_change` in the transaction of each mutation; `outbox_high_water` under the exclusive fence |
| package and baseline builders | `jurisearch-package-build/src/{incremental,baseline}.rs` | a REPEATABLE READ snapshot, the staged artifact | freeze the window, coalesce scopes, materialise replace-sets and deletes, digests |
| producer cycle and publication | `jurisearch-package-build/src/{cycle,publish,package_catalog,remote_manifest,verify}.rs` | `package_catalog`, the staging slot, the served root, the signed remote manifest, adoption markers | build, catalog, publish, mark, clean, serve, adopt; resume or discard what a dead run left |
| producer orchestration | `jurisearch-producer/src/{update,baseline,lock,...}.rs` | the update lock, fetch cursors, run records | per group: fetch, route, ingest, enrich, embed, boundary check, cycle, adoption; seed |
| remote feed and planner | `jurisearch-package/src/manifest/remote.rs`, `jurisearch-syncd/src/planner.rs` | the manifest read | choose: nothing, incrementals, baseline, blocked |
| sync daemon | `jurisearch-syncd/src/daemon.rs`, `main.rs` | lease (session advisory lock), rounds, bursts, back-off, shutdown flag | poll every corpus, fetch, plan, apply in order; one-shot `apply` and `update` next to it |
| client applier | `jurisearch-syncd/src/{apply,incremental}.rs` | `corpus_state` (the cursor) | baseline, rebaseline, incremental application |
| generations and read gate | `jurisearch-storage/src/generations.rs`, `ingest_accounting/readiness.rs` | generation registry and schemas, stable union views, readiness stamp, per-corpus and global advisory locks | reset, create, load, index, validate, switch, drop, stamp |
| signing and trust | `jurisearch-package`, `jurisearch-storage/src/trust.rs`, `jurisearch-deploy/src/ops/trust.rs`, `jurisearch-syncd/src/trust.rs` | anchors, licence tokens | plan and bootstrap anchors, revoke, verify, entitle |
| schema and releases | `jurisearch-storage/src/migrations.rs`, `jurisearch-package/src/compat.rs` | `schema_migrations`, extensions | migrate, gate a package by version and schema |
| managed PostgreSQL | `jurisearch-storage/src/runtime.rs` | data directory, lock file, configuration, a server | initialise, reclaim, start, migrate, stop |
| roles | `jurisearch-storage/src/{backend,provision}.rs` | roles, memberships, grants, owners | provision, repair, grant a generation, probe |
| read snapshots | `jurisearch-storage/src/query.rs` | one REPEATABLE READ transaction per request | open, read a generation or the views, close |
| retrieval and ranking | `jurisearch-query`, `jurisearch-storage/src/{retrieval,authority.rs,zone_retrieval.rs}` | a page cursor held by the client | rank, fuse, group, page |
| site server, local session | `jurisearch-cli/src/{site,serve.rs,session.rs}`, `jurisearch-transport`, `jurisearch-client` | worker and embedder permits, connections | accept, read a frame, dispatch, reply, close |
| local index | `jurisearch-cli/src/{index_runtime.rs,ingest}`, `jurisearch-storage/src/{dense.rs,ingest_accounting}` | dense manifest, cached readiness report | ingest, backfill, embed, finalise, gate a query |
| deployment control | `jurisearch-deploy` | units, install records, the watchdog's state | install, start under gates, repeat, watch |
| rendering, dashboard, evaluation | `jurisearch-render`, `-dashboard`, `jurisearch-cli/src/eval` | none | formatting, a view of status files, offline metrics |

### 1.2 How they interact

- A timer starts an update run per group. It fetches archives into the mirror outside
  the update lock, and under the lock routes them (walk the deltas from the journal,
  or a full walk from a baseline), ingests, enriches and embeds, and ends with a cycle.
- A writer changes replicated rows and calls `emit_change` in the same
  transaction: the outbox fence is taken shared, then a number is drawn from the
  one global sequence. A builder takes the fence exclusively, which waits for all
  numbers in flight, and freezes a snapshot and its high-water mark.
- The cycle turns a window `(low, high]` of numbers into a package chained on the
  latest cataloged one, and serves a manifest over what is published.
- Cycles run under the producer's update lock (a `flock`, one per host). The
  `jurisearch_package` command line can build and publish without it.
- A site reads the manifest and its own cursor, plans, and applies. The daemon holds
  a lease; the one-shot `apply` and `update` do not take it, so several processes
  may apply at once. What orders them is in the database: a per-corpus session lock
  for media packages and a global transaction lock for every switch and every
  incremental.
- Readers share only PostgreSQL with the appliers: a snapshot, the locks a statement
  keeps to the end of its transaction, and the readiness stamp, compared with the
  signature of the installed topology. The pages of one search are separate requests.
- An operator edits trust anchors and roles, replaces binaries, installs and restarts
  units, while the daemon and the readers run.

### 1.3 What is hard here, and what makes it correct

- *Numbers commit out of order.* A smaller number may become visible after a larger
  one. Correct: nothing is ever committed below a frozen or packaged mark, and the
  package of a window reproduces the frozen snapshot on a client.
- *A load is many commits over hours*, next to other appliers. Correct: the cursor
  proves the rows; one live generation per corpus; the guards that were evaluated
  before the load are evaluated again in the switch; a dead attempt leaves nothing
  that a later one trips on.
- *A cycle may die between any two of eight durable steps*, over two file trees and
  a database. Correct: what is served exists, verifies, and chains; the catalog has
  no hole; nothing committed stays unserved.
- *A new upstream baseline* must go out as a rebaseline, and be adopted only once
  that rebaseline is served.
- *The publisher's listing forgets.* A delta is listed for some weeks only. Correct: the
  cursor names only what the mirror has, the journal passes no archive the walk did not
  account for, and runs that are repeated catch up or say that an operator is needed.
- *A document's text and its hierarchy come from different archives*, in any order, over
  runs that die. Correct: the index carries the present text, and every version ends up
  where the sections known by then put it.
- *Workers fail next to each other* (embedding pool, enrichment slices). Correct: a page
  is stored or the pass says it failed, and the pass ends.
- *Answers of an official source expire and change.* Correct: units exist under the zones
  of the text they were computed on, and the cache converges to the source.
- *Everything a client plans with may be stale.* Correct: the cursor moves along the
  published chain only, never past the served head, and a site settles.
- *A switch replaces the views under open requests.* Correct: one request, one
  topology; nobody waits for ever.
- *Pages of one search straddle packages.* Correct: a row that stood still is shown once.
- *A command is killed, or the power fails*, while it runs a server of its own. Correct: the
  next command takes the directory back and serves a server of its own. What it does to get
  there is not so careful: it has `pg_ctl` stop whatever process the pidfile names, and a
  recycled pid may be another PostgreSQL of the same user.
- *Roles, anchors and releases drift.* Correct: what is repaired is least privilege again
  and still readable; a bootstrap replaces no root it could see, a removed root trusts
  nothing; a site applies only what its schema
  was built for, and an upgraded fleet follows its feed again.

`PROJECT.json` lists the hazards one by one, at their lines, with the properties that
cover them.

## 2. The modules and the code

| module | about | code |
|---|---|---|
| `Replica` | abstract: a site's corpus is at every moment exactly one published package, and moves by `Install`, `Supersede`, `Extend` | what the applier promises |
| `ClientReplica` | the applier, step by step | `syncd/apply.rs`, `syncd/incremental.rs`, `storage/generations.rs`, `storage/ingest_accounting/readiness.rs` |
| `Outbox` | writers, fence, snapshot, window, package, client | `storage/outbox.rs` and its callers, `package-build/incremental.rs` |
| `ProducerCycle` | the cycles of one corpus with deaths and resumption | `package-build/{cycle,publish,package_catalog,remote_manifest,verify}.rs`, `producer/{update,baseline}.rs` |
| `CatchupFeed` | daemons and one-shot updates against a moving feed | `syncd/{planner,daemon,main}.rs`, `package-build/remote_manifest.rs` |
| `ReadSnapshot` | requests against switches, incrementals and drops | `storage/query.rs`, `storage/generations.rs` |
| `FetchEngine` | mirror and cursor of one source | `fetch/{engine,cursor,integrity,listing}.rs` |
| `SourceUpdate` | a source through its update runs; composes `FetchEngine` | `producer/{update,baseline,cursors,runrecord}.rs`, `pipeline/ingest`, `storage/ingest_accounting`, `ingest/archive/planner.rs` |
| `LegiProjection` | LEGI members into documents, chunks and hierarchy, over runs that die | `storage/projection/{legi,hierarchy_backfill,metadata}.rs`, `ingest/legi`, `pipeline/ingest/legi.rs` |
| `Chunking` | one record from XML events to validated chunks | `ingest/{juri,legi}`, `pipeline/ingest/juri`, `storage/projection/decisions.rs` |
| `EmbeddingPool` | a pass: pages, workers, endpoints, channel, dense index | `pipeline/{embed,embedding/pool}.rs`, `storage/dense.rs` |
| `Enrichment` | official zones and the units derived from them | `pipeline/{enrich,build_zone_units}.rs`, `pipeline/enrichment`, `storage/{decision_zones,zone_units}.rs` |
| `Citations` | cited articles: collection and resolution | `cli/enrichment/legislation.rs`, `pipeline/enrichment/archive.rs`, `storage/legislation_citations.rs` |
| `OfficialApi` | token, retries and back-off of an exchange | `official-api/{client,retry,config,error}.rs` |
| `LocalIndex` | writers of a local index and its readiness gate | `cli/{index_runtime,ingest}`, `pipeline/embed.rs`, `storage/dense.rs`, `storage/ingest_accounting/readiness.rs` |
| `Trust` | anchors, licence tokens, bootstrap, the verifier of a cycle | `storage/trust.rs`, `deploy/ops/trust.rs`, `syncd/trust.rs` |
| `SchemaUpgrade` | a producer and its sites moved to new releases | `storage/{migrations,generations}.rs`, `package-build/{baseline,incremental}.rs`, `syncd/{planner,apply}.rs` |
| `ManagedPostgres` | the server a local index runs for itself | `storage/runtime.rs` |
| `Roles` | provisioning, repair, hand-over of a generation | `storage/{backend,provision}.rs` |
| `SearchPages` | a walk over the pages of one search | `query/{search,cursor}.rs`, `storage/retrieval`, `storage/{authority,zone_retrieval}.rs` |
| `SiteServer` | acceptor, permits, connections, replies | `cli/site`, `cli/{serve,session}.rs`, `transport`, `client` |
| `Deployment` | `jurisearchctl` on a site host | `deploy/src/ops` |
| `SiteWatchdog` | the watchdog beside producer and daemon | `deploy/src/ops/watchdog.rs` |
| `MCClientReplica`, `MCOutbox`, `MCReadSnapshot` | TLC instances of one module | |
| `PublicationSuite`, `ProducerSuite`, `SiteSuite`, `ClientSuite` | suites: several modules, one of them at work per behaviour | |
| `MCPublication`, `MCProducer`, `MCSite`, `MCClient` | TLC instances of suites; the first adds two parts to its suite | |
| `Outbox_proofs`, `CatchupFeed_proofs`, `SearchPages_proofs`, `LegiProjection_proofs` | theorems about a module | |
| `PublicationSuite_proofs`, `ProducerSuite_proofs`, `SiteSuite_proofs`, `ClientSuite_proofs` | theorems about the parts of a suite, and about the suite; the first has those about `ProducerCycle` and `Chunking`, the second those about `SourceUpdate`, the last those about `ClientReplica` and `Trust` | |

The exact lines of every definition are in the `map` of `PROJECT.json`.

### The path of a change

**ClientReplica.** `corpusState`, `registry`, `schemas`, `views` and `stamp` are the
tables of `jurisearch_control`, the generation schemas, the union views and the
readiness stamp. `corpusLock` and `applyLock` are the two advisory locks: the first
belongs to the session, the second to a transaction. A writer's `pc` runs through
the statements of `apply_baseline`/`apply_rebaseline`, which autocommit
(`AcquireCorpusApplyLock`, the three `Decide*` outcomes, `ResetBuildingGeneration`,
`RegisterGeneration`, `CreateLoadTables`, one `CopyTable` per table,
`BuildGenerationIndexes`, `ValidatePostconditions`, then `BeginSwitch` and
`CommitSwitch`), or through the one transaction of `apply_incremental`
(`TakeApplyLock`, `CommitIncremental` or `CommitNothing`). `FailOrCrash` may happen
between any two of them. A document stands for its row in each of three tables of
the foreign key chain; `ApplyFiles` keeps the delete cascade along that chain.

**Outbox.** `db` and `log` are committed rows and change-log entries; `dirty`,
`logged` and `count` are the open transaction of a writer. Cells (table, document)
carry the number of the mutation that wrote them, so a lost or stale row shows as a
different value. Seven kinds of mutation say, as the code does, which tables they
write, which they delete from and which scopes they log: projection, hierarchy
backfill, embedding, official zones, absence of zones, derivation of zone units,
embedding of units. Writers hold row locks per cell; PostgreSQL's lock manager and
deadlock detector (`Rollback` of a waiter in a cycle) are external. A builder goes
`wait`, `fenced`, `frozen` (snapshot and mark taken, fence still held), `cut` (fence
released, package computed from the snapshot) and catalogs, or fails. `Carried` is the
widening of a scope to the tables its replace-set brings with it; `AfterPackage` is what
the package does to the rows of a client.

**ProducerCycle.** `catalog`, `packages`, `pending`, `bootSlot`, `manifest` and
`adopted` are what survives a death; the rest of the run is lost with it. Each
package carries its window, the payload digest it chains on and a build identity
(the `created_at` and run id in its embedded manifest), because the publication
compares payload digests and the manifest builder compares all of it. `change` is
the outbox mark and stands for the content of the corpus. Publication to the served
root is a rename, and slots are removed only after the row is marked or deleted, so
a copy or removal cut short is not observable; the one write that is not atomic,
the staged manifest, has `CrashTorn`.

**CatchupFeed.** Fetching the manifest, reading the cursor and planning, and each
application are separate steps; the producer publishes and other processes apply in
between. `Plan` is the planner; `Accepts` the ordering guards of the applier.
Applying a package is one step here: what it consists of is `ClientReplica`.

**ReadSnapshot.** PostgreSQL is modelled by what the code relies on: rows as of the
request's snapshot, names and view definitions as of the statement, share locks kept
to the end of the transaction, exclusive locks for `CREATE OR REPLACE VIEW` and
`DROP SCHEMA`, waiters in order, `lock_timeout` for the switch.

### The producer's inputs

**FetchEngine, SourceUpdate.** An archive is the instant of its timestamp; the publisher
lists a delta for `Keep` instants. `mirror` is the archive directory and `cursor` the
cursor file, saved once per fetch. A run of `SourceUpdate` goes through the fetch (outside
the lock), `RouteSnapshot` (the newest mirrored baseline, the walk of the deltas after it
from the `journal`), one `Member` after the other with its accounting record (which a later
run processes, skips, retries or blocks), `FinishIngest`, `Publish` and `Adopt`. `Begin`
takes the order of the command line: `update`, `skip_fetch`, `forced`, `from_db`,
`accept_stale`, a dry run. `Seed`, `Upgrade` (a release that reads members the one before
could not) and `Crash` happen around it. The stored text of a document is the archive it
was last written from, so a stale or lost text shows.

**LegiProjection.** Articles, section versions and text structures arrive in any order over
several archives. `document` carries its path and where it came from, `chunks` their
text and stamp, `vectors` the text they were computed on. The backfill of a run reads and
writes in two steps; `Stop` is a death or an unreadable archive anywhere in a run.

**Chunking.** Events of the streaming XML reader (`Start`, `Empty`, `End`, `Text`, `Eof`) fill
the body and the summaries; `Eof` cuts, validates and stores. A letter is its rank among
the letters read, a space and a line end are what they are: text that is lost, doubled,
run together or reordered shows. What the tags mean otherwise is left out. Its loops are
folds by a function (`Folded`), so that they can be proved about.

**EmbeddingPool.** `pass` is the main thread, which alone writes; workers `Take` a batch, `Answer`
or `GiveUp` on the least loaded endpoint, and send the outcome through `channel`; the
first error stops the others. `Project` and `Reconfigure` change what is pending between
passes.

**Enrichment, Citations, OfficialApi.** `Enrichment` caches in `row` what the API answered, with
a lifetime (`Expire`), from pages cut in one slice per worker (`WorkerLost`); derivation
gives `units` from the rows that are fresh. `FetchOnline` is the same upsert from a
query. `Citations` collects occurrences and pending resolutions from archived responses
and asks Legifrance about each. `OfficialApi` is one exchange after the other: the cached token with
the skew, `Retryable` answers with `RetryDelay`, `Revoke` by the server. A token comes with an
`expires_in` or without; then it is cached for ever, dead or alive, as in the code. No call has
a timeout of its own: `Trickle` is another piece of an answer, within the read timeout of the
last, and `late` the time it has taken so far; a silence longer than that ends the call like any
other error (`Rejected`). `TokenArrives` counts a token's life at the server from when it was given and by
the client from when it was read.

**LocalIndex.** The transactions of `ingest`, `hierarchy-backfill` and `embed-chunks` on one index
directory, the dense manifest and the cached readiness report; `Query` goes through the
gate of the read commands.

### Operation of a site

**Trust.** A bootstrap plans from the installed anchors, of both purposes (`PlanBootstrap`, which
refuses on a conflict), then installs one after the other, each in a transaction of its own that
compares nothing any more (`InstallAnchor`); `CrashBootstrap` may cut it short, another bootstrap
and `syncd trust install-anchor` (`InstallByHand`) may come in between. `raced` remembers, for each
bootstrap, the keys that others have installed since it planned: those it may replace, although its
refusal of a conflict says that a root is never replaced silently (`ops/trust.rs:270`); no other. A cycle
loads its verifier once and looks entitlement up for each package. The anchors of the two
purposes are read in one step.

**SchemaUpgrade.** Each host has a binary, a migrated schema, a server version and extensions.
`Build` stamps a package with the binary's schema version and the digest of the database's
bundle; `Cycle` of a site is planning and applying it under the gates. `Operate` is what
an operator may do next in an upgrade, in any order over the hosts.

**ManagedPostgres.** `Step` takes a command through lock, `initdb`, configuration, reclaim, start,
database creation and the migrations; the profile (durable or bulk) decides
`synchronous_commit`. Kills and power loss leave a pidfile whose pid may be another process's by
then (`holder`): nobody's, of a process of another name, of one that cannot be signalled, or of
another PostgreSQL of the same user. `Reclaim` stops what the pidfile names, whoever it is,
before it asks whether it is a postmaster, as `runtime.rs:807` does.

**Roles.** PostgreSQL's rules (`ActsAs`, `Can`, `ReadsThroughViews`) are external; `Provision` is
the one SQL batch over whatever `Drift` left, `Activate` the writer's grants, view
replacement and probe, rolled back as a whole.

**SiteServer.** Both servers over one protocol: the site service takes a worker permit, then
accepts, and its thread releases it; the local daemon serves one connection after the other.
A dense request also takes an embedder permit; peers may stall, hang up or send garbage.

**SearchPages.** Each page is a request on its own snapshot; the cursor of the last row is carried.
`Apply` and `Activate` change contents between pages. With one active corpus the ranking
is SQL's, with several it is fused from per-corpus streams whose depth follows from the
cursor. Scores are integers of the code's rounded values.

**Deployment, SiteWatchdog.** `InstallStep` is the sequence of an install with its gates, the
producer and the daemon moving between its reads; a watchdog run reads head, cursor and
time separately.

### Suites

A suite (`PublicationSuite`, `ProducerSuite`, `SiteSuite`, `ClientSuite`)
instantiates several modules and has a variable `part` that is chosen initially and never
changes: one behaviour runs one part, the variables of the others stay in one initial state.
It is a way to ask one kind of question of many components in one run, and to prove the
answer for all of them in one theorem; it does not compose them, and adds no behaviour. That
a behaviour of a suite is one of each part is proved (`SuiteHasParts`), so that a theorem about
a part is one about the suite. `ClientSuite` and `PublicationSuite` take parts from the modules
that prove them, so that their theorems are cited by the name of the instance
(`Search!TypeCorrect`). `MCPublication` adds to its suite, in the same way, the parts whose
theorems are elsewhere (update, zones). The modules that do compose are
`SourceUpdate` (over `FetchEngine`) and `ClientReplica` (which implements `Replica`).

## 3. The runs

| run | instance | properties |
|---|---|---|
| `replica_load` | two writers, one corpus, eight packages: baseline, incremental and a rival with the same id, rebaseline and a rival, an incremental on it, one that leaves a chunk without embedding, one whose declared rows do not match | `TypeOK`, `CursorProvesContent`, `LoadIsUndisturbed`, `RegistryMatchesSchemas`, `GateImpliesReady`, `LiveRowsFollowCursor`, `EveryCallReturns` |
| `client` | parts replica (two writers, two corpora, six packages, one signed for one corpus under a label of the other), feed (a daemon and a one-shot update), trust (two bootstraps, installs by hand), search | `TypesOK`, `OneLiveGeneration`, `CursorMovesByPackage`, `Refinement` (`ClientReplica` implements `Replica`), `UpdatesFollowFeed`, `PagesAreSound`, `TrustHolds` |
| `cycle_live` | two groups with a baseline each, one death anywhere; the deaths of findings 1 and 5 are among them, and are the only ones after which a run never comes right again | `ServedUnlessStuck`, `AdoptedUnlessStuck` |
| `publication` | parts cycle (one group, two upstream baselines, two deaths of any kind, a manifest window of one), update (runs of every order but a dry run, which `producer` has), legi, record, zones | `TypesOK`, `ChainIsServed`, `NoDeltaCrossesBaseline` (true with one group), `PublicationMoves`, `ProjectionHolds`, `InputsAreSound` |
| `outbox_statutes` | two writers, two corpora, projection, backfill and embedding, a build that fails | `NoLateNumber`, `PackageReproduces`, `SettledBelowLow` and the type invariant |
| `outbox_decisions` | two writers, one decision, the five kinds of mutation of a decision | `PackageReproduces`, `EventuallyReplicated` |
| `producer` | parts update (runs of four orders), pool, zones, citations, api, local | `TypesOK`, `MirrorAndJournalAgree`, `WorkIsSound`, `UpdatesCatchUp`, `PoolFinishes`, `EnrichmentConverges`, `LocalIndexServes` |
| `site` | parts feed (two daemons, a corpus polled after one whose feed is empty, a package ahead of the schema, a fault), reads, server, postgres, roles, deploy, watchdog, fleet | `TypesOK`, `FeedIsFollowed`, `RequestsAreServed`, `OperationIsSafe`, `Recovers` |
| `replica_stamp`, `cycle_wedge`, `cycle_straddle`, `read_views` | | violated: findings 2, 1, 3, 4 |

The properties of the suites name a theme; each conjunct is stated, with the code it is
about, in its module:

| property | conjuncts |
|---|---|
| `PagesAreSound` | a steady row is on one page (`SteadyRowsShownOnce`), the re-ranking stays in its band (`RelevanceDominates`) |
| `TrustHolds` | `RootsAreNotReplaced`, `RevocationHolds`, `LicenseStandsBehind` |
| `UpdatesFollowFeed`, `FeedIsFollowed` | `NeverAhead`, `FollowsChain` |
| `ChainIsServed` | `ServedIsPublished`, `ServedChainLinks`, `CatalogIsChain` |
| `PublicationMoves` | `ServedHeadMonotone`, `AdoptionIsServed` |
| `ProjectionHolds` | `IndexCarriesTheText`, `HierarchySettles`; `TextSurvives`, `NeverAborts`, `WithinBudget` of `Chunking` |
| `MirrorAndJournalAgree` | `CursorIsMirrored`, `JournalCoversMirror`, `SuccessIsServed`, `NoSilentGap`, `AdoptsWhatItIngested` |
| `InputsAreSound` | the conjuncts of `MirrorAndJournalAgree`; `ZonesAreSound`: `UnitsNeedOfficialZones`, `ConsideredOnce`; and what the variables of these parts may hold |
| `WorkIsSound` | `PoolStoresItsPage`, `EvenlyOutstanding`; `ZonesAreSound`; `OccurrencesAreResolvable`, `AnswersAreKept`; `FirstAttemptIsAuthorised`, `BackoffNeverShrinks`; `ReadyIsCurrent` |
| `PoolFinishes` | `PassEnds` |
| `EnrichmentConverges` | `UnitsAreUpstreams` in the end; `CitationsSettle`; `ExchangesEnd` |
| `LocalIndexServes` | `EventuallySearchable` |
| `RequestsAreServed` | `WaitersAreServed`, `EventuallyAccepted` |
| `OperationIsSafe` | a request reads one topology (`RoutedTopology`); permits are conserved (`PermitsAreConserved`), replies follow requests (`RepliesFollowRequests`); `ServesItsOwnServer`; `LeastPrivilege`, `ActiveStaysReadable`; `ShapeIsStamped`; `GatedStart` |
| `Recovers` | `EventuallySettled`; `OpensAgain`; `EventuallyVisible`; `InstallConverges`; `SitesFollow`; `TellsStuckFromQuiet` |

`UpdatesCatchUp` is `EventuallyCaughtUp` of `SourceUpdate`.

### Mutations

A definition with a suffix, like `Chain_PastHead`, is `Chain` as a plausible mistake would
have it; it stands next to what it mutates under the word `Fault:`. With it in place of the
definition, TLC finds the property violated. `PROJECT.json` has one for each property of a
passing run; where a property has several conjuncts, the others are here too.

| run | property | broken by |
|---|---|---|
| `replica_load` | `TypeOK` | `SwitchedCursor_LowSequence` |
| `replica_load` | `CursorProvesContent` | `PostconditionsHold_CountOnly` |
| `replica_load` | `LoadIsUndisturbed` | `AcquireCorpusApplyLock_NoWait` |
| `replica_load` | `RegistryMatchesSchemas` | `DropRetiredGeneration_KeepsSchema` |
| `replica_load` | `GateImpliesReady` | `StampAllowed_ProjectionOnly` |
| `replica_load` | `LiveRowsFollowCursor` | `AdvancedCursor_Forgotten` |
| `replica_load` | `EveryCallReturns` | `Finish_KeepsLock` |
| `client` | `TypesOK` | `SwitchedCursor_LowSequence` |
| `client` | `OneLiveGeneration` | `SwitchedRegistry_KeepsOld`, `RebuiltViews_OwnCorpusOnly` |
| `client` | `PagesAreSound` | `Depth_PageOnly`, `Follows_LowerScore`, `Leaders_Pairwise`, `NextCursor_LastFetched` |
| `client` | `CursorMovesByPackage` | `CursorGuard_Trusting` |
| `client` | `Refinement` | `ChainLink_SequenceOnly` |
| `client` | `UpdatesFollowFeed` | `Accepts_Anything` |
| `client` | `TrustHolds` | `LoadVerifier_Cached`, `Conflicting_Never`, `Entitles_Stored` |
| `cycle_live` | `ServedUnlessStuck` | `MayPublish_FreshOnly` |
| `cycle_live` | `AdoptedUnlessStuck` | `BeginUpdate_Incremental` |
| `publication` | `TypesOK` | `FirstBaseline_AtZero` |
| `publication` | `ChainIsServed` | `IncrementalOf_Overlapping`, `RebaselineOf_FullWindow`, `Verified_PayloadOnly` |
| `publication` | `NoDeltaCrossesBaseline` | `RebaselineOf_AsDelta` |
| `publication` | `ProjectionHolds` | `FullResume_Never`, `Rehung_Stamped`, `Upserted_ByBody`, `Closed_TrimsOnly`, `DecisionVerdict_Unchecked`, `Packed_KeepsCurrent`, `Packed_Unseparated` |
| `publication` | `InputsAreSound` | `Upsert_KeepsUnits`, `NextPage_NoCursor` |
| `publication` | `PublicationMoves` | `Retained_OverflowDropsAll`, `AdoptNewBaselines_Refetched` |
| `outbox_statutes` | `TypeOK` | `HighWater_Null` |
| `outbox_statutes` | `NoLateNumber` | `EmitChange_Unfenced` |
| `outbox_statutes` | `PackageReproduces` | `Carried_NotWidened` |
| `outbox_statutes` | `SettledBelowLow` | `EmitChange_Unfenced` |
| `outbox_decisions` | `PackageReproduces` | `Scopes_NoClearedUnits` |
| `outbox_decisions` | `EventuallyReplicated` | `Window_OpenTop` |
| `producer` | `TypesOK` | `SaveCursor_LeavesList` |
| `producer` | `MirrorAndJournalAgree` | `StaleJournal_Unchecked`, `Quarantine_Recorded`, `IngestFails_Counts`, `Begin_Unrecorded`, `FinishIngest_Partial` |
| `producer` | `WorkIsSound` | `ExpiresIn_NoSkew`, `Factor_Wraps`, `EnsurePending_AnyCorpus`, `EnsurePending_Reset`, `GiveUp_Silent`, `Before_First`, `Start_KeepsCache` |
| `producer` | `UpdatesCatchUp` | `Member_KeepsRecord` |
| `producer` | `PoolFinishes` | `Closed_Kept` |
| `producer` | `EnrichmentConverges` | `Candidates_FreshOnly`, `Finalize_OnlyNew`, `Retryable_Uncounted` |
| `producer` | `LocalIndexServes` | `Pending_VectorsOnly` |
| `site` | `TypesOK` | `QueueAfter_OneMore`, `DropRetiredGeneration_Any` |
| `site` | `FeedIsFollowed` | `Accepts_Anything` |
| `site` | `RequestsAreServed` | `LockTimeout_None`, `Close_KeepsPermit` |
| `site` | `OperationIsSafe` | `Readiness_Advisory`, `Visible_EachStatement`, `EndsConnection_Never`, `Embed_LeaksOnError`, `CatchupGreen_Installed`, `Stop_AfterUnlock`, `ApplyProfile_BulkOnly`, `Revoked_ReadOnly`, `Revoked_EverySchema`, `KeptMembers_OwnRoles`, `Reproduces_ItsColumns` |
| `site` | `Recovers` | `Reclaim_StopsOnly`, `QueueAfter_ErrorStops`, `StartPrerequisites_SyncdOnly`, `Memory_Verbatim`, `Visibility_ReadOnly`, `Visibility_OwnerOnly`, `SameSchema_Unchecked`, `ClassifyWatchdog_TrustsUnknownAge`, `ClassifyWatchdog_AgeFirst` |

## 4. Bounds, and why they are enough

- *Two writers and eight packages* give every pair of steps of two applications: the
  rival packages make the decision of one stale while the other waits or loads, and
  failure may end either at every step. A third writer adds no new pair. The proofs
  remove this bound.
- *Deaths.* One death is met by one recovery; two (`publication`) let the recovery
  die as well. `MaxSeq` is above what the other bounds can reach in `cycle_live`
  (raising it adds no state), so that run is never stuck for lack of a number; the part
  of `publication` may stop there, which costs a safety check nothing.
- *A manifest window of one or two* makes truncation happen within four packages.
- *Mutations.* Four in `outbox_decisions` are just enough for project, zones, derive,
  embed units in one history; three with two per transaction in `outbox_statutes` are
  enough for two transactions whose numbers interleave and a window that starts inside.
- *Feed.* Four packages and two retained (`site`): a site can be inside the window, at its
  edge and past it, and a package ahead of the schema comes last. `client` sets a
  one-shot update beside one daemon, with three packages. One fault of any kind suffices, because the state
  after it is again an arbitrary one. The proofs remove these bounds.
- *Contents.* Rows of a generation are told apart by a number, four of them for three
  generations, so that a package always finds a free one (three where liveness is checked,
  where it finds none once all generations are loaded). Two views, because a switch that has
  replaced one and waits for the next is where a request and a switch block each other.
- *Archives.* Five instants with two baselines and three deltas, a listing of three: a delta
  can be listed, forgotten by the listing, behind and ahead of a baseline, and the
  journal can be too old. Two releases: a member is unreadable, then readable.
- *LEGI.* Two articles, two versions of one section, one structure and a correction are one of
  each way an article gets its place; a chunk holds two units, so a text shrinks by one.
- *A record* has seven events and three open elements: a block in a block, a text on each side,
  a summary in between; three characters to a chunk give three chunks.
- *Pool and enrichment.* Two workers and two batches or decisions: one fails while the other
  is in flight, and no third role exists. Three decisions in `publication`, two in `producer`.
- *OfficialApi.* Times are small numbers. Tokens live 1 or 4 (shorter and longer than the skew of
  2) and name it or not; the time of an answer is counted up to 3, past the skew, and a read
  waits up to 2 for its next piece. The factor's width is passed by the retries, the longest
  delay is between two doublings.
- *Trust.* Two bootstraps and an operator who edits, removes and installs by hand, twice in all,
  next to a cycle: enough for one bootstrap or an install by hand to overtake another, once with
  and once without an edit of the configuration before it. One key of each purpose, three packages
  of both tiers, and a token that covers one of the paid ones.
- *Connections.* Two clients, two frames between them, one embedder permit, and a server of one
  worker or of two, chosen at the start: on either surface a client waits for the permit of
  another, and a reply has one before it.
- *Search.* Five chunks of four documents in two corpora, with equal scores between the arms
  and at a page's end, two chunks of one document, near-ties under the authority band;
  two packages between pages.
- *Operation.* Two commands of different releases on one data directory, and four kinds of process
  that may have the pid of a server that is gone; two generations and
  as many leftovers of roles as there are kinds; one corpus for the installer, with one
  failing step; two releases for the fleet, with the producer ahead or behind the site.
- `Quiet`, `Deaths`, `Builds`, `MaxOps`, `OpsPerTx`, `MaxFailures`, `MaxChange`, `MaxSeq`,
  `MaxBaselines`, `MaxCrashes`, `MaxFaults`, `MaxContent`, `MaxTime`, `MaxVersion`,
  `MaxEdits`, `MaxModels`, `MaxFrames`, `MaxEvents`, `MaxDepth`, `MaxResponses`,
  `MaxRevoked`, `MaxLatency`, `MaxWorkers`, `MaxDrifts`, `MaxAway`, `MaxApplies` are bounds; `MaxRetained`,
  `MaxChain`, `MaxBurst`, `SchemaAhead`, `Keep`, `MaxStale`, `MaxAttempts`, `MaxRetries`,
  `MaxEmbeds`, `MaxChars`, `Threshold` are parameters of the program.
- Symmetry (of the writers, and of the bootstraps) is used in safety runs only.
- Deadlock is not checked in the four suites, whose parts stop at a bound. It is checked in
  every other run.

## 5. Fairness

- `ClientReplica`: a call that runs takes its next step or fails (weak); the advisory
  lock is queued by PostgreSQL, so a waiter in front of a lock that is released
  again and again gets it (strong).
- `ProducerCycle`: a run goes on (weak); systemd timers start each group's update
  again and again and the operator repeats the bootstrap, however the lock is
  contended (strong on the start of a run).
- `SourceUpdate`: the same two, for a plain update run; time passes.
- `Outbox`: transactions end, by commit or error; the timer starts builds; fence
  requests are served in order (strong on acquisition). `EventuallyReplicated` is
  checked with one corpus: the model grants the fence to any waiter rather than to
  the oldest, and with two builders that turns into a starvation that PostgreSQL's
  queue does not have.
- `EmbeddingPool`, `Citations`, `OfficialApi`, `LocalIndex`: threads and commands step. Nobody
  has to fail, and a pass fails only within its bound on faults. `Citations` needs the
  collection and the resolution with retries to be started again and again (timers), and
  Legifrance to come back; `LocalIndex` needs `embed-chunks` and a search to be repeated.
  `OfficialApi` is not fair to an answer that has come in for longer than `MaxLatency`
  (`Overdue`): nothing in the client ends it, and `ExchangesEnd` excepts it by name.
- `Enrichment`: runs are started again and again with enrichment, in some direction; the service
  comes back; a cached row expires again and again, as its lifetime is finite.
- `CatchupFeed`: running processes step, the service manager restarts a daemon, the
  producer serves its manifest. Nobody has to run an update or publish a package.
- `ReadSnapshot`: the switch proceeds or times out, a waiting statement gets a lock
  that is free again and again. A request need not ever end.
- `SiteServer`: the acceptor and the threads step, where a read that times out is a step; a client
  need not send or hang up.
- `ManagedPostgres`: commands step and close, and one command is tried again and again. A process
  that has got the pid of a server that is gone need not end.
- `Roles`: the administrator provisions after a drift, the writer builds and activates.
- `Deployment`: the install steps, the embedder loads, and an install that left the site stopped
  is repeated (strong). `SiteWatchdog`: its timer fires again and again, and its reads end.
- `SchemaUpgrade`: the operator goes on with the upgrade, the service manager restarts the
  daemon, and its cycles run.

In a suite the strong fairness of several parts is one formula over a disjunction: since
`part` never changes, it is the fairness of the part that runs. Deaths and faults are never
fair: they may happen, up to their bound.

## 6. What is proved

`ClientSuite_proofs`, of `ClientReplica`, for any writers, corpora, generations, documents and packages:

- `TypeCorrect`, `CursorProvesContentAlways`, `OneLiveGenerationAlways`,
  `GateImpliesReadyAlways`, `LoadsAreUndisturbed`, `RegistryMatchesSchemasAlways`;
- the action properties `CursorMovesByPackageAlways`, `LiveRowsFollowCursorAlways`;
- `ClientImplementsReplica`: the refinement of `Replica`.

Assumptions: packages are well formed (`PackagesAssumption`), a label names one
corpus (`LabelAssumption`), and `None` is none of the values it is compared with.

The invariant is `IInv`. That a cursor proves its content is not inductive by itself:
the switch only re-reads the cursor guard, not the rows, so what it makes live must be
what was loaded and validated before, in other transactions. `LoadProgress` says what
each step of a load has established about its generation; it survives other writers'
steps because of `LocksHeld` (a loader holds the lock of its corpus, so there is one
loader per label: `OneLoader`), because a generation that is loading is `building` and
the dropper touches `retired` ones only (`RegistryMatchesSchemas`), and because
incrementals write to the active generation of the cursor, which is never one that is
being loaded (`LiveByCursor`). Each action has a lemma that it keeps `IInv`. The
refinement then takes `CommitSwitch` to `Install` or `Supersede`, `CommitIncremental`
to `Extend`, and every other step to a stutter.

`Outbox_proofs`, for any writers, corpora, documents and bounds:

- `TypeCorrect`, `NoLateNumberAlways`, `SettledBelowLowAlways`,
  `PackageReproducesAlways`.

Assumptions: a document has one corpus, the kinds of mutation are among the seven,
bounds are numbers, `None` is a fresh value.

The argument has two layers. `IInv` is about numbers: they are drawn below `nextSeq`
(`NumbersDrawn`), an uncommitted number is held under the shared fence and a builder
that is fenced or frozen holds it alone (`FenceHeld`), hence nothing uncommitted lies
below a mark (`NoLateNumber`). `Coverage` is about rows: whatever differs between the
database and a client is accounted for by a scope that is still to be logged, logged
and uncommitted, or logged above the client's mark; the same for the snapshot and for
the window. A commit keeps it because the mutation's scopes, widened as the builder
widens them, cover what it touched (a finite table for the seven kinds), a freeze
because of `NoLateNumber`. With the snapshot's difference covered by the window, the
package reproduces the snapshot.

`CatchupFeed_proofs`, for any daemons, updates, polled corpora and bounds:

- `TypeCorrect`, `NeverAheadAlways`, `FollowsChainAlways`, and the last two as
  `FeedIsFollowedAlways`, which states the property of the run.

Assumptions: bounds are numbers, daemons and updates are different processes, what is
polled is a sequence, `None` is fresh.

A process applies what it planned from a manifest and a cursor that may both be old by
then. The invariant `IInv` keeps, for the served manifest, that what it lists is published
(`ServedIsPublished`), and for each process in a cycle that its manifest is the served one of
some earlier moment (`CyclesAreStale`): its head is at most the served head, and the chain
it has left is a set of published packages below that head. Heads and catalogs only grow,
so this survives every step of another process. A package that the guards of the applier
then accept is therefore of the served chain, at the place the cursor is at.

`PublicationSuite_proofs`, of `ProducerCycle`, for any groups, baselines, windows, bounds and kinds
of death:

- `TypeCorrect`, `ChainIsServedAlways`, the action property `PublicationMovesAlways`;
- `OneGroupNeverStraddles`: with one group, `NoDeltaCrossesBaseline`. With two it is false
  (finding 3), so the hypothesis is the exact one.

A cycle leaves its state in five places that no transaction spans. `IInv` says what each
durable step implies about the ones before it: the rows of the catalog are one chain
(`CatalogShape`); a row that is not marked is the first baseline, or the newest row and still
in its slot, and what a slot holds is the build of its row or of none (`LeftBehind`); at each
point of a run the build it holds extends the catalog or is its row (`OpFollowsPc`,
`BuiltIsSound`); a manifest, served or about to be,
lists packages of the root, linked, from a media package on (`ManifestsAreSound`); and a
baseline about to be adopted is carried by the media package that is served
(`BaselineIsCarried`). The theorem about one group has a second invariant over `IInv`: what the
group ingested is held by a marked row or not yet adopted, and no window has it inside.

`ProducerSuite_proofs`, of `SourceUpdate`, for any archives, documents, releases, orders and faults:

- `TypeCorrect`; `NothingIsSkipped`: `CursorIsMirrored`, `JournalCoversMirror`, `NoSilentGap` and
  `AdoptsWhatItIngested`;
- `MirrorAndJournalAgreeAlways`: these and `SuccessIsServed`. A dry run is a success of its own
  exit class (`exit.rs`), which says nothing of what is served; its record replaces the one of
  the run before, a failure included.

`JournalCoversMirror` is inductive only with what a run has established about its plan
(`RunIsSound`: the archives it has left, those it has visited, and what its walk started from),
with the records of members standing for archives that are mirrored (`OnlyMirroredRead`),
with a mirror that lacks only deltas the publisher has stopped to list (`MirrorIsSound`), and
with a member that was read being written over by newer archives only (`BaselineHeld`).

The proof of `AdoptsWhatItIngested` showed that the marker may lag what was ingested: the
boundary check reads the fetch cursor (`update.rs:932`), the walk reads the mirror
(`ingest/archive/planner.rs`). A fetch that died before it saved its cursor leaves a
baseline that the next run ingests while it adopts the one before. Hence the property says
that the marker is at most the baseline ingested, and not equal to it.

`ClientSuite_proofs`, of `Trust`, for any keys, packages, tokens, edits, installs by hand and
bootstraps, side by side or interrupted:

- `TrustTypeCorrect`, and the three action properties as `TrustHoldsAlways`.

A plan is made from the anchors of an earlier moment, by a bootstrap that others may overtake. What
it has yet to install is over nothing, or over a key that another command has installed since
(`PlanIsFresh`): anchors otherwise only go away, and every upsert of another marks the plans it
overtakes (`UpsertOvertakes`). A cycle verifies with what was trusted when it began
(`VerifierIsKnown`).

`ProducerSuite_proofs`, of the suite, for any chunks, workers, endpoints, decisions, articles, texts, models,
page sizes, bounds and faults:

- `TypesOKAlways`, `WorkIsSoundAlways` and `UpdatesAgree`, which state three properties of the
  run of the suite, from one theorem for each conjunct and `SuiteHasParts`.

Each part has an inductive invariant of its own.

- *Pool.* A batch of the page is stored, queued, with a worker or in the channel, or an error
  is known or on its way (`PoolPageAccounted`); so a pass that ends without an error has stored
  its page. The counter of an endpoint is the number of workers that wait for it, and a worker
  goes to a least loaded one: as it is not waiting itself, the others are fewer than the
  workers, and the least of several numbers is at most their average (`PoolRequestsCounted`).
- *Zones.* Units are derived in one transaction from rows read in an earlier one. That no row
  is replaced between the two is `ZonesPageIsOfficial`, which needs the workers to rest outside
  of the enrichment (`ZonesWorkersFollowPhase`) and an expiring row to be an error while a run
  is under way. That a decision is considered once is a counting argument: a page's decisions
  are distinct and beyond the cursor, so what the pass counted is at most what is behind the
  cursor (`ZonesConsideredPassed`). That a page exists at all, with its size and its order, is
  proved for any finite set of decisions.
- *Citations.* What is left of a page was read for the phase that runs
  (`CitedPageFollowsPhase`); an upsert of an occurrence makes sure of its resolution in the same
  transaction, and no other step takes a resolution away.
- *Official API.* The client counts a token's life from when the answer was read, the server
  from when it was given; the skew pays for the difference. So the client never counts a token
  longer than the server does, if its answer took no longer than the skew and named an
  `expires_in`, while none was revoked (`ApiCacheIsCautious`). What the first attempt of a
  request carries is then live, from the cache or fresh (`FirstAttemptIsAuthorised`). The three
  conditions are in the statement, not in assumptions, as each can fail: a token without
  `expires_in` is cached for ever (`client.rs:317`, `:522`), so that every call after its end is a
  401; an answer that dribbles has no timeout (`client.rs:15`); a token may be shorter than its way.
  That the doubling is cut at the width before it is at the cap, and never shrinks, is
  arithmetic over the exponent.
- *Local index.* A stamped chunk has the vector of its present text (`LocalStampsAreTrue`); a
  cached report outlives no writer, and a search that was let through outlives nothing that
  changes a text (`LocalReadyStandsStill`).

`SiteSuite_proofs`, for any readers, connections, commands, generations, corpora, hosts,
releases, bounds and faults:

- `TypesOKAlways`, `OperationIsSafeAlways` and `SiteFollowsFeed`, which state three properties
  of the run of the suite;
- `ReadsRoutedTopologyAlways`, `ServerPermitsAreConservedAlways`,
  `ServerRepliesFollowRequestsAlways`: its conjuncts about requests and connections;
- `ReadsOneTopologyWithoutViews`: what `query.rs:7` promises holds for every request if none
  reads the union views, so finding 4 is about the views alone.

Again by part:

- *Reads.* A request holds a snapshot while names are resolved as of now. The snapshot has the
  rows of the generations the request resolved, as they were served when it opened
  (`ReadsSnapshotIsOpened`), and an answer repeats it (`ReadsAnswerIsSeen`); a live generation is
  loaded and not retired, and only retired ones are dropped (`ReadsLiveIsKept`); a switch leads
  to a loaded generation that is not live (`ReadsSwitchIsSound`); a corpus that was live stays so
  (`ReadsRouteIsLive`).
- *Server.* Permits are counted: free ones, threads, and the one the acceptor holds between the
  permit and the accept are all there are, and so are the embedder's (`ServerPermitsCounted`).
  Replies are in the order of the frames, one for each, because a connection serves one frame
  at a time and a fatal reply is its last (`ServerRepliesOrdered`, `ServerFatalIsLast`).
- *Postgres.* Only the command that holds the lock has a server open, and each stage it has
  reached says what the ones before established (`PostgresOpened`); the server it then finds is
  its own, with the durability of its profile and the schema of its binary. This is about the
  server a command uses, and says nothing of the processes its reclaim has signalled.
- *Roles.* What is granted, who is a member of what and who owns what are each within what the
  job of the roles needs (`SiteGranted`, `SiteJoined`, `SiteOwned`) once the site is provisioned;
  a visible generation was handed to reader and owner, and stays theirs through drift and repair
  (`SiteHanded`).
- *Deployment.* What an install has read is of the past by the time it starts the site: the
  invariant says what still follows, since feeds and cursors only grow (`CtlCaught`, `CtlGrows`).
- *Watchdog.* It has a type invariant and liveness only.
- *Fleet.* What is being applied passed the gates, and packages are never rebuilt under their
  number (`FleetJobsAreGated`), so the rows of a host have the shape of its stamp.

`SearchPages_proofs`, for any chunks, documents, corpora, rankings, requests, weights and packages
in between:

- `TypeCorrect`, `SteadyRowsShownOnceAlways`, `RelevanceDominatesAlways`.

A page is requested from a cursor that says nothing of the rows before it, over data that may be
another's by then. The invariant (`WalkFollows`) is that of the rows that stood still, those
shown are exactly the ones up to the cursor; it implies the property both ways, as nothing is
shown twice and, when the walk ends, nothing is left behind the cursor. It goes over a page
because a page is the first rows beyond the cursor of the order the client walks
(`PageIsTop`). With one corpus that is the keyset (`SinglePage`). With several, each arm is read
to a depth only: a row that was not read ranks, in its own corpus, behind the rank the cursor's
score implies and behind a page of rows of that corpus, so the page is full without it
(`SeveralPages`). That needs the score of a rank to tell the rank although it is rounded
(`CrossFalls`), hence `ScoresAssumption`: (60 + n + 1)^2 is at most the 10^8 of the code's eight
decimals, where n is how many rows an arm can rank. That is n < 9940, or `top_k` at most 248 by
document and 1242 by chunk; the default is 10, and the code has no upper bound. Beyond it
neighbouring ranks round to one score, and what a page passes over is left open here.
For the re-rank, clusters are intervals whose rows are in the band of their first
(`Clusters`), the re-rank permutes the rows of a cluster among themselves (`RerankPermutes`),
and a row in the band of the leader is in that of any row between them (`BandShrinks`).

`LegiProjection_proofs`, for any articles, members, chunk size, and runs that die anywhere:

- `TypeCorrect`, `IndexCarriesTheTextAlways`, `HierarchySettlesAlways`.

Assumption: a member is what a parser lets through (`MembersAssumption`: an article has lines, a
section version has a path that is not empty and a date, the links of a structure are a sequence).
Nothing is assumed of how members name each other.

`IndexCarriesTheText` is about one article at a time (`ArticleHolds`). Cutting a text into chunks
keeps its lines (`ChunksHoldTheBody`), and a longer old body leaves its last chunks with their
own vectors. A text is any sequence here: that the recursive functions `Chunked` and `Stack`
have the values their equations give, for every length, is `RecursionExists`, by the least
length at which there is none.

`HierarchySettles` speaks of the moment when everything is consumed, after any number of runs.
What holds in between (`HierarchyInv`) is: with nothing recorded beyond the cursor, every article is
settled, that is, a backfill of everything would leave it (`AllSettled`); during a run that
has skipped nothing, what it did not touch is settled over the sections and the structures
it did not add (`UntouchedSettled`); after the backfill has read, everything is settled with the
paths it is about to write. A death before the cursor moves leaves members recorded and
unconsumed: the next run skips them and looks at everything (`LedgerInv`, which relates a
run's batch to what is recorded and consumed). Settled is stated over the known
candidates of an article; the scoped backfill sees those it touched, and when they are
all of one section, either it sees all of them or the section was not touched
(`KnownSplits`, `BackfillSettles`). That there is a preferred one is because the dates of the
sections are bounded (`DatesBounded`).

`PublicationSuite_proofs`, of the suite: `TypesOKAlways` and `ProjectionHoldsAlways`, which state two
properties of the run `publication`, from these theorems, those about `Chunking` and
`SuiteHasParts`. For `Chunking`, with any texts, tags, context lengths and events, and any budget
of two characters or more (the code's is 6000):

- `RecordSurvives`: type correctness, `TextSurvives`, `NeverAborts` and `WithinBudget`.

The invariant while the document is read (`BodyHolds`) is that the body holds every letter read,
once and in order; it has no blank first and no two in a row, two letters have a blank between them
exactly where the source sets them apart, and it ends in a blank exactly when what comes next is
apart. Everything after is about intervals of letters. A text is a `Segment` from one rank to
another, and a sequence of texts is a `Chain` of segments that share no letter: the lines, the
paragraphs and the chunks of a body are chains from its first letter to its last
(`ParagraphsAre`, `SplitBodyIs`, `ArticleChunksAre`), and a chain laid end to end is the whole
(`ChainFlattens`). So a cut loses nothing; that two chunks are joined without what stood between
them is not a loss, as each starts where the source is apart, or is cut at the budget
(`HardSplitIs`). A stored record never aborts as every chunk has a letter
(`TrimEndOfLetters`). What a fold computes is an invariant of its steps (`FoldHolds`), by the least
step at which it would not hold.

`ClientSuite_proofs`, of the suite: `TypesOKAlways`, `ClientFollowsFeed`, `ClientTrusts` and
`PagesAreSoundAlways`, the properties of the run `client` about its other parts, from the
theorems about `CatchupFeed`, `Trust` and `SearchPages`.

Assumptions: the bounds are numbers, archives and baselines are instants, what the publisher
still lists is longer than a journal may age, a label or a generation belongs to one corpus,
packages are well formed, a corpus ranks chunks of its own documents, the sets of workers,
connections and releases are finite, and `None` is a fresh value. Each is a named
definition that an ASSUME states, of the module or of the suite, and that TLC evaluates in the
runs.

Model-checked only: all liveness (`EveryCallReturns`, `ServedUnlessStuck`,
`AdoptedUnlessStuck`, `EventuallyReplicated`, `UpdatesCatchUp`, `PoolFinishes`,
`EnrichmentConverges`, `LocalIndexServes`, `RequestsAreServed`, `Recovers`), because the
prover handles neither fairness nor ENABLED here; and `InputsAreSound`, whose conjuncts are
theorems about `SourceUpdate` and `Enrichment` in `ProducerSuite_proofs` (`UpdatesAgree`,
`ZonesAreSoundAlways`).

TLAPS cannot instantiate the library's induction over data, whose theorems have an operator
parameter. Where a proof needs induction over numbers it takes the least counterexample
instead (`LeastExists`, from `WFMin`), as the lemmas about pages and delays do. What the recursive helpers for
digests and merging compute is checked over bounded data.

## 7. Findings

1. *A rebaseline that dies between publication and mark wedges the producer*
   (`cycle_wedge`). The next run discards the staged rebaseline and its row, builds the
   same package id from the present database and is refused, as the served root has that
   id with other content. `cycle.rs:290` says rebuilding "is always safe".
2. *A stale readiness stamp* (`replica_stamp`). A media package that is already
   installed re-affirms the stamp under the per-corpus lock only; an incremental in
   between has its fresh stamp overwritten, and the gate stays shut until the next apply.
3. *A straddling delta* (`cycle_straddle`). The boundary check looks at the run's own
   group; a baseline ingested by another group whose run died leaves as an ordinary
   incremental.
4. *Union views under a switch* (`read_views`). A request open across a switch that reads
   the views resolves the new definition, whose rows its snapshot cannot see.
   `query.rs:7` promises one coherent topology.
5. *A torn staged manifest* (no run of its own). `incremental.rs:457` writes the
   file in place; a death in the write leaves one that `read_staged_identity`
   (`cycle.rs:373`) cannot parse, and every later cycle ends there although
   `package_catalog.rs:183` says an incomplete build is discarded. `cycle_live` shows that
   this and 1 are the only deaths the producer does not recover from
   (`ServedUnlessStuck`).
6. *Past the retention window* (no run of its own). A site that is behind the retained
   incrementals, while the media root is still the first baseline or not ahead of it, is
   blocked (`planner.rs:232`); `remote.rs:119` says "load the named baseline instead".
   `EventuallySettled` counts a site the planner refuses as settled.

The following are stated in the modules and were seen violated by TLC; they have no run of
their own, and no property relies on them.

| definition | what the code or its comments say | what happens |
|---|---|---|
| `SourceUpdate!NeverCrossesBaseline` | the backstop of `update.rs`: an incremental run crosses no baseline | a fetch that died left a new baseline in the mirror which its cursor file does not name: the run is routed as an incremental, plans the deltas after that baseline, and moves the journal past it |
| `SourceUpdate!CompletedMeansProcessed` | `runs.rs`: everything up to the completed-run cursor was fully processed | an operator's seed is a completed run dated now, whatever it passed over |
| `SourceUpdate!LatestArchiveWins` | replay in timestamp order leaves each document as its latest archive has it | a member that a new release blocked is processed by the run after, over the newer text written in between |
| `EmbeddingPool!RerunConverges` | `embed.rs`: re-running converges | a pass that finds nothing pending returns before it finalises, so an index left behind by a failed finalisation stays |
| `LegiProjection!ChunksAreOfTheBody` | | a body that became shorter leaves its last chunks, embedded and searchable |
| `Chunking!BlocksStandApart` | `juri/xml.rs:33`: a block tag's start ends a paragraph | the text before a block is joined to the text in it |
| `Chunking!MirrorsArticleBudget` | `juri/chunks.rs:7`: the decision budget mirrors the article's | the context line of a decision's chunk is not counted |
| `SiteWatchdog!AheadMeansOtherFeed` | `watchdog.rs:16`: a cursor ahead means another feed | also a package published and applied between the two reads |
| `SearchPages!OrdersNeverCross` | `authority.rs:207`: rows of different orders are never reordered | a row dealt to a higher slot of its own order passes them |
| `SchemaUpgrade!StampedAsBuilt` | `compat.rs:17`: the schema the package was built against | the binary's number and the database's digest: a producer with a newer binary than database publishes a rebaseline no site can apply |

## 8. Abstractions, and what is not modelled

- In `ClientReplica`, signatures, entitlements and licences are checks on a package before
  anything changes: only packages that passed are enumerated; the checks and what they are
  made against are `Trust`, where a token is stored by a bootstrap only (`syncd subscribe`, which
  verifies and stores one by itself, is left out). Compatibility is one value per package, compared where the code
  compares; `SchemaUpgrade` takes it apart. A signature is a key and its material; canonical
  bytes are not modelled.
- Digests are the content they are taken of.
- In `CatchupFeed`, artifact size, replay cost and the fingerprint bound are one limit on
  the chain (`MaxChain`), the schema gate is `SchemaAhead`; the client-version gate and
  the back-off delays are left out.
- In `Outbox`, single-table scopes that nothing widens to (metadata roots, citations,
  archived API responses) and two dense-rebuild finalisers (`dense.rs:241`,
  `zone_units.rs:698`) are left out. `graph_edges` are additive in the code and one cell
  per document here. A mutation gets its value when it writes.
- The hierarchy backfill reads before the transaction it writes in
  (`hierarchy_backfill.rs:200`). `LegiProjection` keeps the two apart, but runs one ingest
  at a time, as the update lock does; a second ingest, started by hand, is not modelled.
- In `ProducerCycle`, fetching and ingesting are single steps (`SourceUpdate` has theirs, with
  the cycle as one step); the update lock is one run at a time; the command line that
  builds and publishes without it is not modelled.
- A staged rebaseline of one group may be resumed by another group's cycle, which serves
  it without recording adoption; the owner rebaselines again. `AdoptedUnlessStuck` holds
  all the same.
- Vectors are the text and the model they were computed from; an HTTP call is one step that
  may fail. Time is a clock of ticks, or what is left of a deadline.
- In `Deployment` provisioning the database, bootstrapping the trust and enabling the units are
  one step (`Roles` and `Trust` take the first two apart).
- In `SearchPages` a query is the ranking of its arms; filters, query parsing and the text of
  results are left out. In `SiteServer` an operation is one step that may fail.
- In `Roles`, objects that are granted alike are one object. In `ManagedPostgres` a process that
  has the pid of a server that is gone is one of four kinds, told apart by whether an interrupt
  ends it, whether it can be signalled, and whether it names postgres; one that names postgres and
  survives keeps the index closed until it ends, which `OpensAgain` excepts. The DDL of
  a migration is one number; in `SchemaUpgrade` it is the set of columns it leaves.
- Not modelled: rendering and build information, the dashboard, the evaluation harness (no
  state, or a view of files); in the modelled parts, retention and alerts of the producer,
  validation and scaffolding of configuration files, argument parsing, and the assembly of
  the textual readiness report. `PROJECT.json` says for each component what is left out.

## 9. Plan

Done: the path of a change (`Outbox`, `ProducerCycle`, `CatchupFeed`, `ClientReplica`,
`ReadSnapshot`), the producer's inputs (`FetchEngine` to `LocalIndex`), the operation of a site
(`Trust` to `SiteWatchdog`) and its searches, with proofs of every safety property.

Left:

1. `EndToEnd`: an abstract feed (a site's rows are a prefix of the producer's history)
   implemented by the composition of the cycle, the feed and the applier, so that the
   chain assumed of packages in `ClientReplica` is one the cycle provides.
2. Pure algorithms against references: the planner's chain, catch-up ranges, sequence
   windows, the version gate.
3. The single-table scopes of the outbox, and a second ingest next to the first.

Modules with theorems use recursive functions and folds, never RECURSIVE operators.
