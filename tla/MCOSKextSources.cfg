\* Two versions of a driver and its library from every source.
CONSTANTS
  lib1 = lib1
  lib2 = lib2
  drv1 = drv1
  drv2 = drv2
  list1 = list1
  list2 = list2
  broken = broken
  None = None
  Bundles <- MCBundles
  Of <- MCOf
  BuiltIn <- MCBuiltIn
  Booted <- MCBooted
  BootArchive <- MCBootArchive
  Archives <- MCArchives
  SafeBoot = FALSE
  MaxCopies = 5
  MaxRequests = 1
  May = {"memory", "link", "disable"}
  Keys <- MCKeys
  Queries <- MCQueries
SPECIFICATION ReportSpec
INVARIANTS BufferIsLetGo
PROPERTIES  ImplementsKextTable
