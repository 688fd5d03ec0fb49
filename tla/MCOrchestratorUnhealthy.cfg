SPECIFICATION OrchSpec
CONSTANTS
  Sandboxes = {s1}
  Hosts = {h1}
  NoHost = NoHost
  NoSandbox = NoSandbox
  Timeouts = {1}
  CPULevels = {0}
  MissThreshold = 3
PROPERTIES
  UnhealthyNeverPicked
