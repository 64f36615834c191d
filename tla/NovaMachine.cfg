SPECIFICATION Spec
CONSTANTS
  MemSize = 24
  StackBase = 12
  StackTop = 20
  LoadLimit = 8
  FrameCap = 2
  BreakCap = 1
  Code <- MCTopCode
  Targets <- MCWildTargets
  Words = {5, 24}
  BreakAddresses = {0, 24}
  Images <- MCImages
  Budgets = {0, 2}
  Disciplined = 0
  RawLoads = 0
INVARIANTS TablesInRange
PROPERTIES RunHonoursBreakpoints ReturnsToCaller
