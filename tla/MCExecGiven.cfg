SPECIFICATION Spec
CONSTANTS
  Calls = {c1}
  Timeouts = {12}
  Grace = 1
  ClientCap = 6
INVARIANTS
  GivenItsTime
