SPECIFICATION Spec
CONSTANTS
  Backends = {"ssh"}
  CrossDevice = FALSE
  Faults = {"client"}
  MaxCalls = 1
  MaxEdits = 0
CHECK_DEADLOCK FALSE
INVARIANT NeverTorn
