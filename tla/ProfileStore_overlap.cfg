SPECIFICATION StoreSpec
CONSTANTS
  ProfileId = {a, b}
  NoProfile = NoProfile
  NoStore = NoStore
  Caller = {h1, h2}
  MaxVersion = 2
SYMMETRY Symmetry
INVARIANTS
  AlwaysWellFormed
  CacheAgrees
PROPERTIES
  IsAtomic
