SPECIFICATION Spec
CONSTANTS
  Sandboxes = {s1, s2}
  Hosts = {h1, h2}
  NoHost = NoHost
  NoSandbox = NoSandbox
  Timeouts = {1, 2}
  CPULevels = {0, 800}
SYMMETRY Symmetry
INVARIANTS
  TypeOK
  OneOwner
  PlacementTracksState
  KillReachesHost
  RunningIsReachable
  NoEarlyExpiry
PROPERTIES
  HealthyFirst
  ImplementsLifecycle
