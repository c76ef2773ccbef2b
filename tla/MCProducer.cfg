SPECIFICATION FairSuite
CONSTANTS
  d1 = d1
  d2 = d2
  w1 = w1
  w2 = w2
  m1 = m1
  m2 = m2
  None = None
  Parts = {"update", "pool", "zones", "citations", "api", "local"}
  Docs = {d1, d2}
  Baselines <- MCBaselines
  Deltas <- MCDeltas
  Carries <- MCCarries
  Unparsable <- MCUnparsable
  MaxTime = 5
  Keep = 3
  MaxStale = 2
  MaxVersion = 2
  AutoAdopt = TRUE
  MaxFaults = 1
  Orders = {"update", "skip_fetch", "forced", "dry_run"}
  NumChunks = 2
  PoolWorkers = {w1, w2}
  NumEndpoints = 2
  PoolPage = 2
  MaxAttempts = 2
  MaxPoolModels = 2
  MaxFailures = 2
  NumDocs = 2
  Nameless = {}
  ZonePage = 1
  NumWorkers = 2
  MaxZoneEdits = 1
  MaxCrashes = 1
  NumDecisions = 2
  Corpus <- MCCorpus
  Articles = {1}
  Visas <- MCVisas
  CitationPage = 1
  MaxResponses = 2
  MaxDeaths = 1
  MaxRetries = 4
  BaseDelay = 2
  MaxDelay = 9
  Width = 2
  Skew = 2
  ReadTimeout = 2
  MaxLatency = 3
  Lifetimes = {1, 4}
  MaxRevoked = 1
  Models = {m1, m2}
  MaxTextEdits = 2
  MaxKills = 1
  MaxModels = 1
INVARIANTS TypesOK
PROPERTIES MirrorAndJournalAgree WorkIsSound UpdatesCatchUp PoolFinishes EnrichmentConverges LocalIndexServes
CHECK_DEADLOCK FALSE
