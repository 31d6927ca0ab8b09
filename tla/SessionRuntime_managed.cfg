SPECIFICATION Spec
CONSTANTS
  Profile = {p1}
  Env = Env
  AdHoc = AdHoc
  None = None
  Client = {c1}
  Managed = TRUE
  EnvFileMode = FALSE
  LookupYields = TRUE
  MaxGeneration = 6
  MaxComments = 1
\* The server stops when its process exits.
CHECK_DEADLOCK FALSE
VIEW RuntimeView
INVARIANTS
  RuntimeInv
  OneInput
  InputIsReal
PROPERTIES
  StartConsumedForGood
