SPECIFICATION FairLoadSpec
CONSTANTS
  main = main
  a = a
  b = b
  std = std
  sh = sh
  f = f
  pMain = pMain
  pA = pA
  pB = pB
  pStd = pStd
  pSh = pSh
  NoPath = NoPath
  Bare = Bare
  Path <- MCPath
  Name = {f}
  Prefix = {pMain, pA, pB, pStd, pSh}
  PrefixOf <- MCPrefixOf
  Decl = {std}
  Raw = {sh}
  Entry = main
  Stdlib = std
  AllowExternal = FALSE
  Trees <- MCTrees
INVARIANTS
  LoadTypeOK
  NoDuplicateModules
  EachFileOnce
  DepsFirst
  LoadsReachable
  EntryLast
  RejectsOnlyUndeclared
PROPERTY LoadEnds
CHECK_DEADLOCK FALSE
