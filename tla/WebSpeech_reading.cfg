SPECIFICATION FairSpec
CONSTANTS
  x = x
  y = y
  Items <- MCItems
  Text = {x, y}
  NoText = NoText
  None = None
  Letter = Letter
  Break = Break
  ChunkLimit = 3
  RegistryLimit = 1
  MaxEvents = 2
  MaxLines = 3
  MaxSessions = 2
INVARIANTS
  ReadingInv
  ReadAtMostOnce
PROPERTIES
  ReadToTheEnd
  EveryLineSettles
