SPECIFICATION Spec
CONSTANTS
  Facts <- MCFacts
  Documents <- MCDocuments
  Parameters <- MCParameters
  Lowered <- MCLowered
  MaxRequirements = 2
  MaxItems = 2
INVARIANTS LateAsEarly JobCanBePlaced EveryEntryAnswered
CHECK_DEADLOCK FALSE
