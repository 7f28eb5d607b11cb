CONSTANTS
  p1 = p1
  p2 = p2
  a = a
  b = b
  c = c
  Processes = {p1, p2}
  Texts = {a, b, c}
  NoText = NoText
  Joined <- TwoParts
  MaxCalls = 3
  MaxDeaths = 1
  MaxFailures = 1
SPECIFICATION Spec
SYMMETRY Symmetry
INVARIANTS
  ContentIsShared
  FoundByVector
