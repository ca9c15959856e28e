SPECIFICATION Spec
CONSTANTS
  Backends = {"docker", "ssh", "windows"}
  CrossDevice = TRUE
  Faults = {"command", "reply", "client", "death"}
  MaxCalls = 2
  MaxEdits = 1
CHECK_DEADLOCK FALSE
INVARIANT TypeOK
INVARIANT TornIsReported
INVARIANT EndingsKept
INVARIANT LitterExplained
PROPERTY OkWasOnDisk
