SPECIFICATION MCSpec
CONSTANTS
  None = None
  Torn = Torn
  Groups = {g1}
  MaxChange = 2
  MaxSeq = 4
  MaxBaselines = 2
  MaxCrashes = 2
  MaxRetained = 1
  Deaths = {"torn", "unmarked"}
  Builds = {b1, b2, b3, b4, b5, b6, b7, b8, b9, b10}
  Articles = {"A", "B"}
  Words = {"x", "y", "z", "L", "P", "T"}
  Archived <- LegiMembers
  Limit = 2
  MaxFaults = 1
  Pieces <- RecordPieces
  ContextLengths = {0, 1}
  MaxChars = 3
  MaxEvents = 7
  MaxDepth = 3
  Parts = {"cycle", "legi", "record", "update", "zones"}
INVARIANTS TypesOK ChainIsServed NoDeltaCrossesBaseline ProjectionHolds
PROPERTIES PublicationMoves InputsAreSound
CHECK_DEADLOCK FALSE
