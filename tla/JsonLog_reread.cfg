CONSTANTS
  MaxEvents = 3
  Dirs = {"home"}
  Home = "home"
  Faults = {}
SPECIFICATION Spec
INVARIANT
  MonitorSurvives
CHECK_DEADLOCK FALSE
