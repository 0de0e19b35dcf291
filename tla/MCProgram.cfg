SPECIFICATION FairProgramSpec
CONSTANTS
  main = main
  a = a
  b = b
  std = std
  sh = sh
  f = f
  pMain = pMain
  pA = pA
  pB = pB
  pStd = pStd
  pSh = pSh
  oMain = oMain
  oA = oA
  oB = oB
  oStd = oStd
  oSh = oSh
  oBundle = oBundle
  NoPath = NoPath
  Bare = Bare
  Path <- MCPath
  Name = {f}
  Prefix = {pMain, pA, pB, pStd, pSh}
  PrefixOf <- MCPrefixOf
  Decl = {std}
  Raw = {sh}
  Entry = main
  Stdlib = std
  AllowExternal = FALSE
  Trees <- MCTrees
  Out = {oMain, oA, oB, oStd, oSh, oBundle}
  OutOf <- MCOutOf
  BundleOut = oBundle
  Jobs <- MCJobs
INVARIANTS
  ProgramTypeOK
  NothingRunsTwice
  RunsInEmitOrder
  CallsReachMeant
PROPERTY KeepsPromise
CHECK_DEADLOCK FALSE
