SPECIFICATION Spec
CONSTANTS
  Turns = {t1}
  NoTurn = NoTurn
  MaxSessions = 2
  MaxRequests = 2
VIEW View
\* Nothing is due once the sessions of the bound are used up and over.
CHECK_DEADLOCK FALSE
INVARIANTS
  ClientInv
  ClaimsAreTrue
PROPERTIES
  OutcomeKept
