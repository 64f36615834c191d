SPECIFICATION Spec
CONSTANTS
  Sources = {0, 3}
  Headers = {1, 2}
  Macros = {X}
  Bodies = {0, 1}
  None = None
  MaxDependencies = 3
  MaxMacros = 3
  MaxConditionalDepth = 2
  MaxUnits = 4
  MaxLines = 5
INVARIANTS TypeOK PassesAgree ReplayIsExact VisibilityIsClosure HeadersFirst
