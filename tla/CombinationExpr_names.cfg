SPECIFICATION Spec
CONSTANTS
  Identifiers <- MCIdentifiers
  ParamLists <- MCParamLists
  MaxTokens = 9
INVARIANT NamesMatch
CHECK_DEADLOCK FALSE
