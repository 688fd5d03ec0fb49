SPECIFICATION ApiSpec
CONSTANTS
  Sandboxes = {s1, s2, s3}
  Callers = {c1}
  Limit = 1
  Hosts = {h1}
  NoHost = NoHost
  NoSandbox = NoSandbox
  Timeouts = {1}
  CPULevels = {0}
INVARIANTS
  LiveWithinLimit
