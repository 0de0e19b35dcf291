SPECIFICATION CommandsSpec
CONSTANTS
  a = a
  b = b
  c = c
  NoVar = NoVar
  Variable <- Names
  MaxStatements = 2
  MaxRounds = 2
SYMMETRY NameSymmetry
INVARIANT RejectsOnlyReruns
CHECK_DEADLOCK FALSE
