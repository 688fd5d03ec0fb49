SPECIFICATION Spec
CONSTANTS
  Calls = {c1}
  Timeouts = {1, 2}
  Grace = 1
  ClientCap = 6
INVARIANTS
  MaxExecutionTime
