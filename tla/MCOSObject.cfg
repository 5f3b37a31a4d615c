\* The codes are 4 and 5: the third reference of a client, next to the one the
\* object holds on itself, wraps the count.
CONSTANTS
  Threads = {t1, t2}
  Refs = {r1, r2, r3, r4}
  SelfRefs = {r4}
  Half = 6
  NoOne = NoOne
SPECIFICATION FairSpec
INVARIANTS CountIsExact FreedOnce
PROPERTIES ImplementsLifetime
\* A deleted object is the end of every behaviour.
CHECK_DEADLOCK FALSE
