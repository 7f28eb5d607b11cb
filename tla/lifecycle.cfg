CONSTANTS
  p1 = p1
  p2 = p2
  k1 = k1
  Writers = {p1, p2}
  Keys = {k1}
  NoKey = NoKey
  MaxItems = 4
  MaxTurns = 2
  MaxCalls = 3
  MaxDeaths = 1
SPECIFICATION Spec
SYMMETRY Symmetry
INVARIANTS
  TypeOK
  SupersessionIsSound
  CorrectionTakesEffect
  ContradictionIsFound
