SPECIFICATION Spec
CONSTANTS
  MaxCmds = 2
  StdinKinds = {"ctrlc", "line"}
  MaxStdin = 1
  MaxBackground = 1
  SlowInit = FALSE
  Crashes = TRUE
CHECK_DEADLOCK FALSE
PROPERTY TerminatedOnceSeen
