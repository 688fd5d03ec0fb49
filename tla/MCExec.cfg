SPECIFICATION FairSpec
CONSTANTS
  Calls = {c1, c2}
  Timeouts = {1}
  Grace = 1
  ClientCap = 1
INVARIANTS
  ExecTypeOK
PROPERTIES
  ImplementsRemoteExec
  ClientAnswered
  HandlerEnds
  BacklogDrains
