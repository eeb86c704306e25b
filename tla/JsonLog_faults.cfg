CONSTANTS
  MaxEvents = 3
  Dirs = {"home", "away"}
  Home = "home"
  Faults = {"open", "write", "close", "kill"}
SPECIFICATION Spec
INVARIANT HandledOnce
CHECK_DEADLOCK FALSE
