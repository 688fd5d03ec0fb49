SPECIFICATION SdkFairSpec
CONSTANTS
  Sandboxes = {s1}
  Waiters = {s1}
  Hosts = {h1}
  NoHost = NoHost
  NoSandbox = NoSandbox
  Timeouts = {1}
  CPULevels = {0}
PROPERTIES
  WaitEndsAfterKill
