SPECIFICATION Spec
CONSTANTS
  Documents <- MCDocuments
  Submissions <- MCSubmissions
INVARIANTS   JobValueSuits SymbolsAsDeclared
CHECK_DEADLOCK FALSE
