CONSTANTS
  Blank = " "
  Quote = "q"
  Letters = {"a", "b"}
  MaxLength = 5
  Lines <- LinesMC
  Texts <- TextsMC
SPECIFICATION Spec
INVARIANTS TypeOK EnteredIsRun DefaultKeepsCommand RuleMatchesAlike
