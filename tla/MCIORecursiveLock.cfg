\* Three threads that nest three deep; enough for an owner, a waiter and a sleeper.
CONSTANTS
  Threads = {t1, t2, t3}
  NoThread = NoThread
  MaxDepth = 3
SPECIFICATION FairSpec
INVARIANTS NoAssertion
PROPERTIES ImplementsMutex LockReturns
\* Every client may fall asleep, with nobody left to wake it.
CHECK_DEADLOCK FALSE
