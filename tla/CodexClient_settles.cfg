SPECIFICATION FairSpec
CONSTANTS
  Turns = {t1}
  NoTurn = NoTurn
  MaxSessions = 2
  MaxRequests = 0
VIEW View
\* Nothing is due once the sessions of the bound are used up and over.
CHECK_DEADLOCK FALSE
PROPERTIES
  OperationsSettle
