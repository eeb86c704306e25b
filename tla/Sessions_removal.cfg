CONSTANTS
  MaxSessions = 2
  MaxBreaks = 1
  MaxLog = 2
  MaxClobbers = 0
  Builds = {"old"}
  DefaultBuild = "old"
  Elsewhere = {}
  Names = {"FindFixAndRun"}
  Faults = {"interrupt"}
SPECIFICATION Spec
INVARIANT EndedByOwnRemoval
CHECK_DEADLOCK FALSE
