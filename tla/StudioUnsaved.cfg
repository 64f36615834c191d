SPECIFICATION Spec
CONSTANTS
  Names <- MCNames
  Sources <- MCSources
  Dirs = {"A"}
  Texts = {"t0", "t1"}
  NewText = "t0"
  DefaultFiles <- MCDefault
  MaxFiles = 3
  UnsavedOps = {"remove", "rename"}
  CleanTargets = TRUE
  MaxFaults = 0
INVARIANT WorkspacesOpen
