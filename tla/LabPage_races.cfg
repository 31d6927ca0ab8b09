SPECIFICATION FairSpec
CONSTANTS
  Stages = 2
  Turns = {"turn"}
  NoTurn = "none"
  Sources = {"simulation", "codex"}
  Observations <- MCObservations
  Null = Null
  Refused = Refused
  MaxGen <- MCMaxGen
  MaxPosts = 1
  MaxFaults = 1
INVARIANTS DetailIsCurrent
PROPERTIES DecisionMeantHere CatchesUp
