SPECIFICATION Spec
CONSTANTS
  core = core
  inpi = inpi
  core1 = core1
  core2 = core2
  inpi1 = inpi1
  r1 = r1
  None = None
  Readers = {r1}
  Corpora <- TwoCorpora
  Generations <- ThreeGenerations
  CorpusOf <- Labels
  Views <- TwoViews
  Paths = {"views"}
  MaxContent = 4
INVARIANTS OneTopology
