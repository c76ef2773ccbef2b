SPECIFICATION FairSpec
CONSTANTS
  None = None
  Torn = Torn
  Groups = {g1, g2}
  MaxChange = 2
  MaxSeq = 7
  MaxBaselines = 1
  MaxCrashes = 1
  MaxRetained = 2
  Deaths = {"torn", "unmarked"}
  Builds = {b1, b2, b3, b4, b5, b6, b7, b8, b9, b10}
PROPERTIES ServedUnlessStuck AdoptedUnlessStuck
