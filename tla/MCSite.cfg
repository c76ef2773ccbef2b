SPECIFICATION FairSuite
CONSTANTS
  d1 = d1
  d2 = d2
  u1 = u1
  core = core
  inpi = inpi
  None = None
  Daemons = {d1, d2}
  Updates = {}
  Polled <- TwoCorpora
  MaxRetained = 2
  MaxChain = 2
  MaxBurst = 2
  SchemaAhead = {4}
  MaxSeq = 4
  Quiet = {inpi}
  MaxFaults = 1
  Readers = {"r1"}
  Corpora = {"core", "inpi"}
  Generations = {"core1", "core2", "inpi1"}
  CorpusOf <- MCCorpusOf
  Views <- TwoViews
  Paths = {"generation", "views"}
  MaxContent = 3
  Clients = {"c1", "c2"}
  MaxWorkers = 2
  MaxEmbeds = 1
  MaxFrames = 2
  Commands = {"k1", "k2"}
  CommandRelease <- MCCommandRelease
  MaxKills = 2
  Schemas = {"g1", "g2"}
  MaxDrifts = 2
  Subscribed = {"core"}
  MaxReleases = 2
  MaxMishaps = 1
  MaxHead = 3
  Threshold = 2
  MaxAway = 2
  Sites = {"site"}
  Producer = "producer"
  FleetReleases = {1, 3}
  Privileged = {"producer"}
  MaxPackages = 2
  MaxLosses = 1
  Parts = {"feed", "reads", "server", "postgres", "roles", "deploy", "watchdog", "fleet"}
INVARIANTS TypesOK
PROPERTIES FeedIsFollowed RequestsAreServed OperationIsSafe Recovers
CHECK_DEADLOCK FALSE
