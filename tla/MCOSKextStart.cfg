\* A chain of three kexts with code, any of which may fail to start.
CONSTANTS
  krn = krn
  kpi = kpi
  lib = lib
  lib2 = lib2
  set = set
  drv = drv
  None = None
  Kexts <- MCKexts
  Kernel <- krn
  IdOf <- MCIdOf
  VersionOf <- MCVersionOf
  LibrariesOf <- MCLibrariesOf
  Components = {kpi}
  Codeless = {}
  Prelinked = {kpi}
  Refused = {}
  Excluded = {lib2}
  NotInSafeBoot = {}
  InvalidTag = 12
  Opts = {"none", "all"}
  WithClasses = {lib, drv}
  Wanted = {drv}
  Delayable = {drv}
  MaxReferences = 1
  May = {"start"}
SPECIFICATION Spec
INVARIANTS LibrariesRunFirst
