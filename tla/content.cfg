CONSTANTS
  a = a
  b = b
  Ids = {a, b}
  Arrivals <- MCArrivals
  Replies <- MCReplies
  ProtectTurns = 1
  ProtectTokens = 2
  MinPrunable = 1
  ScanMax = 5
  PromptMax = 4
  LeafMax = 5
  CutMark = 1
  Anchor = 1
  Frame = 1
  Line = 1
  Reference = 2
  Keep = 1
  MaxRounds = 2
  MaxRaw = 4
  MaxCalls = 2
SPECIFICATION ContentSpec
INVARIANTS
  FileIdsSurvive
  PruneIsSafe
