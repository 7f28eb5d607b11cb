CONSTANTS
  MinSize = 10
  MinHalf = 2
  MinStep = 1
  TooShort = 4
  Lengths = {0, 1, 9, 10, 11, 12, 21, 25}
  SizeArgs = {0, 10, 11, 13}
  OverlapArgs = {0, 1, 4, 5, 6, 20}
SPECIFICATION ChunkerSpec
INVARIANTS
  Lossless
  DraftsWellFormed
