SPECIFICATION Spec
CONSTANTS
  Capacity = 4
  Console = 8
  MemSize = 12
  Addresses = {7, 8, 12}
  Chars = {"A", "B"}
  Budget = 5
  MaxCount = 6
INVARIANTS ConsoleInOrder OnlyOverflowLoses
PROPERTIES QueueSpec DrainEnds
