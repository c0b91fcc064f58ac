SPECIFICATION Spec
CONSTANTS
  Numbers = {0, 1, 2, 4}
  MaxTokens = 11
  ListValues <- MCListValues
INVARIANTS ParsesTheGrammar ListDenoted LookupsAgree TextDenotes
CHECK_DEADLOCK FALSE
