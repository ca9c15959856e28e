SPECIFICATION Spec
CONSTANTS
  Prompt <- MCPrompt
  Keep = 3
  HeadSize = 2
  TailSize = 3
  MaxOutput = 4
  CutsInit = FALSE
  MaxUnits = 4
CHECK_DEADLOCK FALSE
INVARIANT TypeOK
INVARIANT PromptSeen
INVARIANT OutputExact
