SPECIFICATION FairSpec
CONSTANTS
  a = a
  b = b
  p = p
  q = q
  Mode = "auto"
  Chunk <- MCChunk
  Input <- MCInput
  Command = {"codex", "hermes", "file"}
  Adapter = {"narration"}
  Prompt = {p, q}
  Threshold = 4
  MaxDetectLines = 4
  SeenKeyLimit = 3
  BufferLimit = 6
  GateInterval = 1
  ProgressInterval = 1
  ErrorWindow = 1
  ErrorThreshold = 3
  MaxChunks = 2
  MaxSessions = 2
  MaxPending = 2
INVARIANTS
  PipelineInv
  HumanIsBeingTold
  AnnouncedWasNamed
PROPERTIES
  HumanHears
