CONSTANTS
  t1 = t1
  t2 = t2
  Free = Free
  Threads = {t1}
  Hosts = {t1}
  HostOf <- OneProcess
  Keep = 1
  MaxRounds = 3
  MaxRaw = 3
  MaxMessages = 12
  MaxCalls = 3
  MaxCrashes = 1
SPECIFICATION Spec
PROPERTIES
  NothingLeftMeansCompacted
