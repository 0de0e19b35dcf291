SPECIFICATION CommandsSpec
CONSTANTS
  a = a
  b = b
  c = c
  NoVar = NoVar
  Variable <- Names
  MaxStatements = 4
  MaxRounds = 2
CONSTRAINT BothStreamPrograms
SYMMETRY NameSymmetry
INVARIANT StdoutIsStdout
CHECK_DEADLOCK FALSE
