SPECIFICATION OrchFairSpec
CONSTANTS
  Sandboxes = {s1}
  Hosts = {h1, h2}
  NoHost = NoHost
  NoSandbox = NoSandbox
  Timeouts = {1}
  CPULevels = {0}
  MissThreshold = 3
INVARIANTS
  HealthFollowsMisses
PROPERTIES
  RefinesScheduler
  DeadHostMarked
  RecoveredHostUsed
