CONSTANTS
  MaxEvents = 2
  Dirs = {"home", "away"}
  Home = "home"
  Faults = {}
SPECIFICATION Spec
INVARIANT
  ActivityIsLogged
CHECK_DEADLOCK FALSE
