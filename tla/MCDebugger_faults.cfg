CONSTANTS
  Lines = {"set x", "set y", "set x & dir"}
  NoLine = NoLine
  Groups = {"set x & dir"}
  Keys = {"set x", "set y", "echo 0", "set x & dir"}
  Roots = {"set", "echo", "set x & dir"}
  KeyOf <- MCKeyOf
  RootOf <- MCRootOf
  Seeded = {"echo 0"}
  Edits = {"", "set  y"}
  EditedLine <- MCEditedLine
  None = None
  MaxBreaks = 2
  Faults = {"timeout", "drop", "raise", "interrupt", "keep"}
SPECIFICATION FairSpec
INVARIANTS
  DecisionHonoured
  ProtocolInvariant
PROPERTIES
  ImplementsContract
  HeldIsReleased
CHECK_DEADLOCK FALSE
