SPECIFICATION Spec
CONSTANTS
  Names <- MCNames
  Sources <- MCSources
  Dirs = {"A"}
  Texts = {"t0", "t1"}
  NewText = "t0"
  DefaultFiles <- MCDefault
  MaxFiles = 3
  UnsavedOps = {}
  CleanTargets = TRUE
  MaxFaults = 1
INVARIANTS TypeOK WorkspacesOpen CleanMeansSaved CleanReopens
PROPERTY NoSilentLoss
