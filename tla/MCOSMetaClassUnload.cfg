\* Classes with a superclass in the kernel, made and freed by lookups and by the kexts
\* while they are loaded and unloaded, with failures half way.
CONSTANTS
  k1 = k1
  k2 = k2
  c1 = c1
  c2 = c2
  c3 = c3
  base = base
  None = None
  Freed = Freed
  Threads = {t1, t2}
  Kexts = {k1, k2}
  Classes = {c1, c2, c3, base}
  NameOf <- OwnNames
  SuperOf <- KernelSuper
  Structors <- MCStructors
  CapacityIncrement = 1
  MaxInstances = 1
  MaxDrift = 1
  May = {"stalled", "grow", "new", "start", "stop"}
SPECIFICATION FairSpec
INVARIANTS LiveIsMapped 
PROPERTY OperationsReturn
\* The lock a failed preModLoad leaves behind stops every later load.
CHECK_DEADLOCK FALSE
