SPECIFICATION FairSpec
CONSTANTS
  None = None
  d1 = d1
  d2 = d2
  Writers = {w1, w2}
  Corpora = {"core"}
  Docs = {d1}
  CorpusOf <- OneCorpus
  Kinds <- DecisionKinds
  MaxOps = 4
  OpsPerTx = 2
  MaxFailures = 0
INVARIANTS PackageReproduces
PROPERTIES EventuallyReplicated
