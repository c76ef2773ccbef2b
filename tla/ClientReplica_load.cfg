SPECIFICATION FairSpec
CONSTANTS
  None = None
  d1 = d1
  d2 = d2
  Procs = {w1, w2}
  Corpora = {"core"}
  Docs = {d1, d2}
  Generations <- CoreGenerations
  CorpusOf <- MCCorpusOf
  Packages <- LoadPackages
INVARIANTS TypeOK CursorProvesContent LoadIsUndisturbed RegistryMatchesSchemas GateImpliesReady
PROPERTIES LiveRowsFollowCursor EveryCallReturns
