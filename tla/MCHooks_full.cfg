CONSTANTS
  Nodes = {"a", "b", "a&b", "a|b", "a&&a|b", "a||b", "script", "block", "script&b", "block&b"}
  Kind <- MCKind
  Arms <- MCArms
  Lines = {"a", "a&b", "a||b", "a&&a|b", "script", "block", "script&b", "block&b"}
  Unreadable = {"block"}
  MaxTyped = 2
  Faults = {"attach", "module"}
SPECIFICATION Spec
INVARIANTS
  TypeOK
  SuppressionBalanced
  Covered
  AskedOnce
PROPERTY
  DroppedOnlyAttaching
CHECK_DEADLOCK FALSE
