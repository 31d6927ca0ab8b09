SPECIFICATION TailFairSpec
CONSTANTS
  TailLines = 2
  MaxWritten = 5
\* Nothing is due once the tail is stopped and the writer is done.
CHECK_DEADLOCK FALSE
INVARIANTS
  ExactlyTheReadLines
PROPERTIES
  ChangesAreRead
