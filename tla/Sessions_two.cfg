CONSTANTS
  MaxSessions = 2
  MaxBreaks = 2
  MaxLog = 2
  MaxClobbers = 1
  Builds = {"old", "new"}
  DefaultBuild = "old"
  Elsewhere = {}
  Names = {"FindFixAndRun"}
  Faults = {"headers", "network", "cut", "dbghelp", "clean", "launch", "inject", "load", "kill", "interrupt", "raise"}
SPECIFICATION Spec
INVARIANTS TypeOK FilesAreOwn SessionsIsolated NoneAbandoned HooksPlaced
CHECK_DEADLOCK FALSE
