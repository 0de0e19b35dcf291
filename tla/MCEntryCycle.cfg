SPECIFICATION ProgramSpec
CONSTANTS
  main = main
  a = a
  b = b
  std = std
  f = f
  pMain = pMain
  pA = pA
  pB = pB
  pStd = pStd
  oMain = oMain
  oA = oA
  oB = oB
  oStd = oStd
  oBundle = oBundle
  NoPath = NoPath
  Bare = Bare
  Path <- MCPath
  Name = {f}
  Prefix = {pMain, pA, pB, pStd}
  PrefixOf <- DistinctPrefixes
  Decl = {std}
  Raw = {}
  Entry = main
  Stdlib = std
  AllowExternal = FALSE
  Trees <- MCTrees
  Out = {oMain, oA, oB, oStd, oBundle}
  OutOf <- MCOutOf
  BundleOut = oBundle
  Jobs <- EntryCycleJobs
INVARIANT RootSetOnceAtStartup
CHECK_DEADLOCK FALSE
