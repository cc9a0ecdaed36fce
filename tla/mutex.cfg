SPECIFICATION MutexSpec
CONSTANTS
  Callers = {a, b, c}
  NoOwner = NoOwner
INVARIANTS
  MutualExclusion
  OnlyHolderUnlocks
PROPERTIES
  VerdictsExact
