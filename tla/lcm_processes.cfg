CONSTANTS
  t1 = t1
  t2 = t2
  Free = Free
  Threads = {t1, t2}
  Hosts = {t1, t2}
  HostOf <- OwnProcess
  Keep = 1
  MaxRounds = 2
  MaxRaw = 3
  MaxMessages = 12
  MaxCalls = 2
  MaxCrashes = 1
SPECIFICATION Spec
SYMMETRY Symmetry
INVARIANTS
  LosslessCover
  NewestKept
PROPERTIES
  ImplementsLosslessView
