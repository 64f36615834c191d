SPECIFICATION Spec
CONSTANTS
  Names = {"a"}
  Labels = {"l"}
  Parameters <- MCParameters
  Weight <- MCWeight
  MaxWeight = 4
  MaxScopeDepth = 4
  MaxLocals = 3
  MaxStaticLocals = 1
  MaxBreakDepth = 2
  MaxLoopDepth = 2
  MaxLoopPatches = 2
  MaxGotoPatches = 1
  MaxObjects = 4
  Values = 2
  Disciplined = 0
INVARIANT NeverFaults
