SPECIFICATION ApiFairSpec
CONSTANTS
  Sandboxes = {s1}
  Callers = {c1}
  Limit = 1
  Hosts = {h1}
  NoHost = NoHost
  NoSandbox = NoSandbox
  Timeouts = {1}
  CPULevels = {0}
PROPERTIES
  FailureReleases
