CONSTANTS
  p1 = p1
  p2 = p2
  f1 = f1
  f2 = f2
  c1 = c1
  c2 = c2
  Indexers = {p1, p2}
  Files = {f1, f2}
  Contents = {c1, c2}
  First <- OwnContent
  MaxEdits = 2
  MaxCalls = 3
  MaxCrashes = 1
  MaxFailures = 1
SPECIFICATION HistorySpec
INVARIANTS
  IngestedOnce
  SkippedIsRecallable
