CONSTANTS
  Lines = {"set x", "set x ", "set y", "echo 0", "set x & dir"}
  NoLine = NoLine
  Groups = {"set x & dir"}
  Keys = {"set x", "set y", "echo 0", "set x & dir"}
  Roots = {"set", "echo", "set x & dir"}
  KeyOf <- MCKeyOf
  RootOf <- MCRootOf
  Seeded = {"echo 0"}
  Edits = {"", "set  y"}
  EditedLine <- MCEditedLine
  None = None
  MaxBreaks = 3
  Faults = {"interrupt"}
SPECIFICATION FairSpec
INVARIANTS
  TypeOK
  DecisionHonoured
  RulesDisjoint
  RuleProvenance
  StandingRules
  RulesInvariant
  PromptIsCurrent
  HeldIsInHand
PROPERTIES
  ImplementsContract
  HeldIsAsked
  AnswerTakesEffect
CHECK_DEADLOCK FALSE
