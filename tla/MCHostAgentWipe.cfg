SPECIFICATION Spec
CONSTANTS
  Sandboxes = {s1}
INVARIANTS
  WipedBeforeIdle
CHECK_DEADLOCK FALSE
