SPECIFICATION CommandsSpec
CONSTANTS
  a = a
  b = b
  c = c
  NoVar = NoVar
  Variable <- Names
  MaxStatements = 5
  MaxRounds = 2
CONSTRAINT DocumentedPrograms
SYMMETRY NameSymmetry
INVARIANTS
  CommandsTypeOK
  VerdictIsRight
  RanAsMeant
  ShownAsMeant
  WarnsIdle
CHECK_DEADLOCK FALSE
