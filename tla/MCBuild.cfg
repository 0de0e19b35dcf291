SPECIFICATION BuildSpec
CONSTANTS
  main = main
  a = a
  ats = ats
  std = std
  ash = ash
  sh = sh
  f = f
  pMain = pMain
  pA = pA
  pStd = pStd
  pSh = pSh
  oMain = oMain
  oA = oA
  oStd = oStd
  oSh = oSh
  oBundle = oBundle
  NoPath = NoPath
  Bare = Bare
  Path <- MCPath
  Name = {f}
  Prefix = {pMain, pA, pStd, pSh}
  PrefixOf <- MCPrefixOf
  Decl = {std}
  Raw = {ash, sh}
  Entry = main
  Stdlib = std
  AllowExternal = TRUE
  Trees <- MCTrees
  Out = {oMain, oA, oStd, oSh, oBundle}
  OutOf <- MCOutOf
  BundleOut = oBundle
  Jobs <- MCJobs
INVARIANTS
  BuildTypeOK
  RejectedWritesNothing
  SplitComplete
  EntryWrittenLast
CHECK_DEADLOCK FALSE
