SPECIFICATION Spec
CONSTANTS
  Base <- MCBase
  Limit <- MCLimit
  IdMod = 3
  Sizes <- MCSizes
  FreeAddresses <- MCFreeAddresses
INVARIANTS
  IInv
PROPERTY AbstractSpec
CHECK_DEADLOCK FALSE
