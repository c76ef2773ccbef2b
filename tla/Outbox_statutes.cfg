SPECIFICATION Spec
CONSTANTS
  None = None
  d1 = d1
  d2 = d2
  Writers = {w1, w2}
  Corpora = {"core", "extra"}
  Docs = {d1, d2}
  CorpusOf <- TwoCorpora
  Kinds <- StatuteKinds
  MaxOps = 3
  OpsPerTx = 2
  MaxFailures = 1
SYMMETRY WriterSymmetry
INVARIANTS TypeOK NoLateNumber PackageReproduces
PROPERTIES SettledBelowLow
