SPECIFICATION PanelFairSpec
CONSTANTS
  MaxPort = 2
  ScanAttempts = 1
  MaxOperations = 3
  Installations <- MCInstallations
\* The application ends.
CHECK_DEADLOCK FALSE
INVARIANTS
  PanelInv
  AdviceIsTrue
PROPERTIES
  StopEmpties
  PanelKeepsUp
