SPECIFICATION FairSpec
CONSTANTS
  Calls = {c1}
  Timeouts = {1}
  Grace = 1
  ClientCap = 1
PROPERTIES
  NeverJams
