SPECIFICATION MastersSpec
CONSTANTS
  Targets = {s, w}
  Windows = {w}
  Unstable = TRUE
  MaxDirs = 9
CHECK_DEADLOCK FALSE
INVARIANT MastersType
INVARIANT SocketsOwn
INVARIANT LiveSocketReaped
PROPERTY SocketStable
