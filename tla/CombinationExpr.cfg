SPECIFICATION Spec
CONSTANTS
  Identifiers <- MCIdentifiers
  ParamLists <- MCParamLists
  MaxTokens = 9
INVARIANTS ParsesTheGrammar JobIterates
CHECK_DEADLOCK FALSE
