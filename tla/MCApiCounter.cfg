SPECIFICATION ApiSpec
CONSTANTS
  Sandboxes = {s1, s2}
  Callers = {c1, c2}
  Limit = 1
  Hosts = {h1}
  NoHost = NoHost
  NoSandbox = NoSandbox
  Timeouts = {1}
  CPULevels = {0}
INVARIANTS
  NeverNegative
