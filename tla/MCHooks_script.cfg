CONSTANTS
  Nodes = {"a", "b", "a&b", "a|b", "a&&a|b", "a||b", "script", "block", "script&b", "block&b"}
  Kind <- MCKind
  Arms <- MCArms
  Lines = {"script&b"}
  Unreadable = {}
  MaxTyped = 1
  Faults = {}
SPECIFICATION Spec
INVARIANT
  EveryCommandBreaks
CHECK_DEADLOCK FALSE
