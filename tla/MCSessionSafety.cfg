SPECIFICATION Spec
CONSTANTS
  MaxCmds = 3
  StdinKinds = {}
  MaxStdin = 0
  MaxBackground = 1
  SlowInit = FALSE
  Crashes = TRUE
CHECK_DEADLOCK FALSE
INVARIANT TypeOK
INVARIANT SingleInFlight
INVARIANT AnswerMatchesCommand
INVARIANT ReadyMeansAtPrompt
INVARIANT LastOutputPreserved
INVARIANT SendReturnsWholeOutput
PROPERTY ImplementsLedger
