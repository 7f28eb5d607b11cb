CONSTANTS
  Sizes = {1, 3, 12}
  PromptSizes = {0, 4, 13}
  MaxSummaries = 1
  MaxRaws = 2
  Hard = 12
  Soft = 7
  Overhead = 1
  Marker = 3
  Memories <- MCMemories
  Queries <- MCQueries
  Requests <- MCRequests
  Header = 1
  ActiveLimit = 2
  Window = 4
  Targets = {3, 4}
  MaxCorrections = 2
SPECIFICATION BundleSpec
INVARIANTS
  TruncatedIsExact
  BundleTypeOK
  BudgetIsUsed
  EnsembleKeepsBest
  CorrectionArrives
