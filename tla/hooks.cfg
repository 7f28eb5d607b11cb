CONSTANTS
  h1 = h1
  h2 = h2
  s1 = s1
  s2 = s2
  Hooks = {h1, h2}
  Sessions = {s1, s2}
  Anonymous = Anonymous
  StopPayloads <- MCStopPayloads
  MaxHooks = 3
  MaxDeaths = 1
  MaxDenials = 1
  MaxFailures = 1
  MaxAgings = 1
SPECIFICATION Spec
SYMMETRY Symmetry
INVARIANTS
  CapturedOnce
  OrderIsKept
  TurnsKeepTheirOwn
PROPERTIES
  DiscardedStaysOut
