SPECIFICATION MCSpec
CONSTANTS
  Threads = {t1, t2}
  Names <- MCNames
  Values <- MCValues
  Absent = absent
  TypeMaps <- MCTypeMaps
  Untyped = untyped
  RuleLists <- MCRuleLists
  Formats <- MCFormats
  MaxVersion = 2
  Serial = TRUE
  a = a
  absent = absent
  untyped = untyped
  typed = typed
  noRules = noRules
  rules1 = rules1
  posix = posix
  t1 = t1
  t2 = t2
INVARIANTS TypeOK CacheFresh
PROPERTY ReadsRegular
SYMMETRY MCSymmetry
