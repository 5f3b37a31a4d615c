SPECIFICATION FairSpec
CONSTANTS
  driver = driver
  family = family
  Kexts = {driver, family}
  Prelinked = {family}
  Libraries = {family}
  PartsOf <- mcParts
  Pages <- mcPages
  Faults = {"memory", "link", "vm", "start", "stop"}
  None = None
  Lost = Lost
  TypicalLoadCount = 1
  Waiters = {w1}
  Watched = {driver}
  MaxLoads = 2
INVARIANTS PagesAreOwned  CodeFindsItsAccount PanicReadsTrue
 
CHECK_DEADLOCK FALSE
