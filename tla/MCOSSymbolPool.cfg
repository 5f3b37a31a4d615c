\* Four symbols of three strings that collide: lookups, releases and dying symbols race,
\* the pool grows from 1 bucket to 7 and shrinks back, text is unloaded, and the string
\* of a new symbol may not be initialised.
CONSTANTS
  alpha = alpha
  beta = beta
  gamma = gamma
  None = None
  Threads = {t1, t2}
  Symbols = {s1, s2, s3, s4}
  Strings = {alpha, beta, gamma}
  Hash <- MCHash
  InitialBuckets = 1
  MaxHold = 1
  InitMayFail = TRUE
SYMMETRY Symmetry
SPECIFICATION Spec
INVARIANTS PoolIsSound NoLeakedRetain 
PROPERTIES ImplementsSymbolTable
\* The release of a symbol without a string panics.
CHECK_DEADLOCK FALSE
