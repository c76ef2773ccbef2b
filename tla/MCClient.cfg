SPECIFICATION SuiteSpec
CONSTANTS
  None = None
  d1 = d1
  d2 = d2
  Procs = {w1, w2}
  Corpora = {"core", "extra"}
  Docs = {d1, d2}
  Generations <- AllGenerations
  CorpusOf <- MCCorpusOf
  Packages <- RacePackages
  Daemons = {"daemon"}
  Updates = {"update"}
  Polled <- PolledInOrder
  Quiet = {"inpi"}
  MaxRetained = 2
  MaxChain = 2
  MaxBurst = 2
  SchemaAhead = {}
  MaxSeq = 3
  MaxFaults = 1
  PackageKeys = {"p1"}
  LicenseKeys = {"l1"}
  Materials = {"ours", "theirs"}
  SignedPackages <- BothTiers
  Licenses <- OneToken
  Bootstraps = {b1, b2}
  MaxEdits = 2
  MaxCrashes = 1
  Chunks <- FiveChunks
  DocOf <- FourDocuments
  Contents <- TwoContents
  Requests <- AllRequests
  Source <- Sources
  Marker <- Markers
  PoolMultiplier = 4
  WindowFactor = 8
  K = 20
  LexicalWeight = 10
  DenseWeight = 3
  Scale = 1000000
  BandPercent = 10
  Weight = 1
  MaxApplies = 2
  Parts = {"replica", "feed", "trust", "search"}
SYMMETRY ClientSymmetry
INVARIANTS TypesOK OneLiveGeneration PagesAreSound
PROPERTIES CursorMovesByPackage Refinement UpdatesFollowFeed TrustHolds
CHECK_DEADLOCK FALSE
