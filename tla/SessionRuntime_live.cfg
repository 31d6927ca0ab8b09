SPECIFICATION FairSpec
CONSTANTS
  Profile = {p1}
  Env = Env
  AdHoc = AdHoc
  None = None
  Client = {c1}
  Managed = FALSE
  EnvFileMode = FALSE
  LookupYields = TRUE
  MaxGeneration = 5
  MaxComments = 0
PROPERTIES
  RequestAnswered
  ExitEndsServer
  StartReachesClient
\* The server stops when its process exits.
CHECK_DEADLOCK FALSE
