SPECIFICATION FairSpec
CONSTANTS
  browser = browser
  window = window
  p1 = p1
  p2 = p2
  kansai = kansai
  plain = plain
  small = small
  large = large
  huge = huge
  Web = {browser}
  Desktop = {window}
  ProfileId = {p1, p2}
  Style = {kansai, plain}
  Size = {small, large, huge}
  Fitting = {small, large}
  None = None
  FirstProfiles <- MCProfiles
  FirstActive = p1
  DefaultStyle = kansai
  EnvStyle = plain
  FirstSize = small
  MaxEvents = 2
INVARIANTS
  GatewayInv
  PagesAgree
PROPERTIES
  ControllerStays
  PagesAreServed
\* Once the people have done what the bound allows and every word is
\* delivered, nothing is due.
CHECK_DEADLOCK FALSE
