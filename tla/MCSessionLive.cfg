SPECIFICATION FairSpec
CONSTANTS
  MaxCmds = 2
  StdinKinds = {}
  MaxStdin = 0
  MaxBackground = 1
  SlowInit = TRUE
  Crashes = FALSE
CHECK_DEADLOCK FALSE
PROPERTY CallReturns
PROPERTY CompletionNoticed
