SPECIFICATION HistorySpec
CONSTANTS
  SessionId = {s1, s2}
  HistoryCaller = {a, b}
  Sizes = {1}
  DefaultMax = 2
  DefaultMaxSession = 2
  Patches <- MCPatches
  MaxTime = 2
  MaxFaults = 1
SYMMETRY Symmetry
INVARIANTS
  StoreInv
  CountsAreHeld
PROPERTIES
  ActiveIsNotPruned
  AckedWithinLimits
