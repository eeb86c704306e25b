CONSTANTS
  MaxEvents = 3
  Dirs = {"home"}
  Home = "home"
  Faults = {}
SPECIFICATION FairSpec
INVARIANTS
  TypeOK
  DocumentTracksLog
  MonitorTracksDocument
  DeliveredInOrder
  ActivityIsLogged
PROPERTIES
  ImplementsChannel
  EventuallyHandled
  RemovalStopsMonitor
CHECK_DEADLOCK FALSE
