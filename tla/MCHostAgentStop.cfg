SPECIFICATION StopFairSpec
CONSTANTS
  Sandboxes = {s1}
PROPERTIES
  TimeoutKills
CHECK_DEADLOCK FALSE
