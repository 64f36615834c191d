SPECIFICATION Spec
CONSTANTS
  Names = {"a"}
  Labels = {"l"}
  Parameters <- MCParameters
  Weight <- MCWeight
  MaxWeight = 5
  MaxScopeDepth = 4
  MaxLocals = 3
  MaxStaticLocals = 1
  MaxBreakDepth = 2
  MaxLoopDepth = 2
  MaxLoopPatches = 2
  MaxGotoPatches = 1
  MaxObjects = 4
  Values = 2
  Disciplined = 1
INVARIANTS TypeOK NeverFaults NothingLeaks JumpsLand BindsInnermost
