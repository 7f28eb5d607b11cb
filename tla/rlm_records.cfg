CONSTANTS
  w1 = w1
  w2 = w2
  Workers = {w1, w2}
  Batches = 2
  IndexGiven = {TRUE}
  MaxCalls = 5
  MaxCrashes = 1
SPECIFICATION Spec
SYMMETRY Symmetry
INVARIANTS
  RecordIsKept
  AggregateIsComplete
  AggregateStands
PROPERTIES
  ImplementsLosslessView
