\* Two versions of a library, a codeless kext, a loop and every failure.
CONSTANTS
  krn = krn
  kpi = kpi
  lib = lib
  lib2 = lib2
  set = set
  drv = drv
  None = None
  Kexts <- MCKexts
  Kernel <- krn
  IdOf <- MCIdOf
  VersionOf <- MCVersionOf
  LibrariesOf <- MCLibrariesOf
  Components = {kpi}
  Codeless = {set}
  Prelinked = {kpi}
  Refused = {}
  Excluded = {lib2}
  NotInSafeBoot = {}
  InvalidTag = 12
  Opts = {"none", "all"}
  WithClasses = {lib, drv}
  Wanted = {drv}
  Delayable = {drv}
  MaxReferences = 1
  May = {"memory", "link", "wire", "start", "stop", "catalogue", "enable"}
SPECIFICATION Spec
INVARIANTS  NoRetainCycle  RecursionEnds
PROPERTIES ImplementsLifecycle
