SPECIFICATION SdkFairSpec
CONSTANTS
  Sandboxes = {s1, s2}
  Waiters = {s1}
  Hosts = {h1}
  NoHost = NoHost
  NoSandbox = NoSandbox
  Timeouts = {1}
  CPULevels = {0}
INVARIANTS
  ToldIsTrue
PROPERTIES
  RequestResolved
  WaitEnds
