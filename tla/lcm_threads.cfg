CONSTANTS
  t1 = t1
  t2 = t2
  Free = Free
  Threads = {t1, t2}
  Hosts = {t1}
  HostOf <- OneProcess
  Keep = 1
  MaxRounds = 3
  MaxRaw = 4
  MaxMessages = 12
  MaxCalls = 2
  MaxCrashes = 1
SPECIFICATION FairSpec
INVARIANTS
  ViewMatchesDag
  SpanIsExact
  LeafReused
PROPERTIES
  ImplementsOrderedView
  EveryCallReturns
