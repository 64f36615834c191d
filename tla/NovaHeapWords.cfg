SPECIFICATION Spec
CONSTANTS
  Base <- MCBase
  Limit <- MCLimit
  IdMod = 2
  Sizes <- MCSizes
  FreeAddresses <- MCFreeAddresses
  PayloadStores <- MCPayloadStores
  WildStores <- MCWildStores
  MaxWild = 1
INVARIANTS
  StatsAccount
  DamageContained
PROPERTIES
  ChainSpec
  LivePayloadKept
  FreshPayloadZero
CHECK_DEADLOCK FALSE
