CONSTANTS
  Options <- MCOptions
  MaxChunks = 3
  MaxReduced = 2
SPECIFICATION FairSpec
INVARIANTS
  CoverageAddsUp
  EvidenceReachable
  ShownOnce
  ReturnIsSettled
PROPERTIES
  RunEnds
