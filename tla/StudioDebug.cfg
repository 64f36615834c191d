SPECIFICATION SessionSpec
CONSTANTS
  MemSize = 204
  StackBase = 140
  StackTop = 200
  LoadLimit = 140
  FrameCap = 3
  BreakCap = 2
  Code <- MCCode
  Targets <- MCTargets
  Words <- MCWords
  BreakAddresses <- MCBreakAddresses
  Images <- MCImages
  Budgets = {1, 24}
  Disciplined = 1
  RawLoads = 0
  Kept <- Known
  Programs <- MCPrograms
  LastSaved = 3
  SourceStepBudget = 40
  RunBudget = 24
  ToggleAddresses <- MCToggleAddresses
  ToggleLines <- MCToggleLines
  FrameWords = 4
  Picks = {1}
INVARIANTS FramesTrue BreakpointsInCode
PROPERTIES NoStatementMissed NoStepEndsDeeper BreakpointsPaused ResumeProgresses CommandsEnd
